# acqua in TLA+

acqua is a header-only C++11 library on top of Boost: TCP servers, timers, pings
and other asynchronous services on asio, containers, network addresses and packet
headers, stream filters, e-mail, a log and an HTTP client. It has no process of
its own: the application calls it, and asio's `io_service` threads run its
handlers. This directory holds TLA+ models of its parts, the TLC configurations
that check them, and theorems about them that TLAPS proves.

Paths below are relative to `src/include/acqua/` unless they start with `src/`.

## 1. Inventory

| Component | State | Operations | Hard behaviour | What makes it correct |
|---|---|---|---|---|
| TCP servers: `asio/simple_server.hpp`, `asio/internet_server.hpp`, `asio/detail/simple_server_base.hpp` | per address family the acceptor, `is_running_`, `is_waiting_`; shared `use_count_`, `max_count_`; the Connectors | `listen`, `start`, `cancel`, `close`, `max_count`, `incr`, `decl`, `on_accept`, `on_disconnect` | handlers on several threads with atomics and no lock; exceptions of the Connector's constructor; failed accepts; restart while aborted handlers are queued; two families sharing one counter | the counter counts what is in use; the limit holds; a running server below its limit has an accept outstanding; a server at its limit resumes |
| `asio/beat_timer.hpp` | `map_` ordered by time, one asio timer, `cancel_request_` | `async_wait`, `cancel`, `on_wait` | the mutex is given up during callbacks, `cancel` takes none, handlers already queued survive a re-arm | every callback is run, none before its time, a cancel reaches all |
| LRU containers: `container/detail/lru_cache_facade.ipp` and the four containers | an intrusive list and hash set over the same nodes, buckets, `max_size_`, `min_expire_` | `push` (and `insert`, `emplace`), `erase`, `max_size`, `expire`, `shrink_to_fit`, copy and assignment | a node is reused under a new key; limits change between pushes; stamps and a clock; overflowing comparison; copies reverse the age | list and hash set agree; only the oldest entry is evicted, above the limit only |
| HTTP client: `webclient/http_client.hpp`, `webclient/detail/client_socket*.hpp` | `count_`, `keep_sockets_`, mutex and condition; per socket connection, result, flags, timer, retry count | `connect`, `start`, `async_start`; handlers for connect, write, read, redirection, timer, keep-alive; deleter, `collect`, `reuse`, `erase` | caller and handler race for the first write; a kept connection closes while it is taken; a redirection hands the result on; retries and a timer that fires once; exceptions of `resolve` | every request is called back exactly once; no more connections than the limit; nobody waits for ever |
| ICMP pingers: `asio/icmp/*` | entries ordered by expiry, `seq_`, one timer, one raw socket | `start`, `stop`, `cancel`, `async_check`, `on_resolve`, `send_ping`, `on_receive`, `on_wait` | replies race timeouts and failing sends; a mutex unlocked twice; sequence numbers that wrap | every ping ends once, with its own reply, an error or its timeout |
| inotify: `asio/inotify_listener.hpp`, `asio/detail/inotify_service.hpp` | `files_` from watch descriptors to paths, a buffer of events, halves of moves | `open`, `add`, `remove`, `close`, the read outstanding | events of a descriptor that is not registered yet or no longer; a move cut between two reads | `files_` follows the kernel; an event is reported once, in order, under its path |
| netlink: `asio/netlink/*` | the groups of the socket | `open`, `bind`, `start`, `close`, the handler, three dispatchers | tags share groups; several messages in a datagram; a full socket buffer | what the tags ask for is reported, and nothing else |
| SMTP and IRC clients: `asio/smtp`, `asio/irc` | the received bytes, TLS, what the server offers | commands and their replies; the read loop | replies of several lines; refusals; two styles of errors; writes from callbacks | an answer belongs to its command; passwords are protected; a PING gets its PONG |
| transparent HTTP proxy: `src/example/thttpproxy.cpp`, `asio/read_until.hpp` | two sockets, two buffers, one coroutine | forward request and response: with a length, in chunks, until the end | a watching read beside the copying one; cancels | nothing is lost, the session ends |
| log: `log/*` | loggers by name, sinks | look-up, registration, output | default logger and sinks without the mutex | a line reaches every sink of its logger |
| sequenced containers: `container/sequenced_map.hpp` | a deque of entries | `insert`, `assign`, `operator[]`, `erase` | keys of a multimap are kept together | order of insertion |
| addresses and prefixes: `network/*address*`, `network/*prefix*` | bytes | arithmetic, netmasks, text, integers, classes | carries, boundaries of width, signed amounts | arithmetic modulo the width; text and value agree |
| packet headers: `network/parse.hpp`, `network/*_header.*`, `network/detail/checkable.hpp` | a buffer, an end | walk from header to header, checksum | padding, cut frames, odd lengths | a header is found where it was put; checksums detect |
| stream filters, converters, hash filters: `iostreams/*` | bytes held back between calls | `put`, `get`, `close`, `read`, `write` | chunk boundaries, ends of lines and of the stream | the round trip; independence of the chunking |
| JSON: `iostreams/json_parser.ipp` | a stack of parsers | one character at a time | a number ends at the character after it | accepts its language, builds its tree |
| e-mail: `email/*` | parser state, line, headers; generator state | `write`, `read`, header encoding | folded lines, split CRLF, words cut by bytes | the round trip |
| pseudo terminals, raw sockets, interfaces, pre-order iterators, utilities | none worth modelling | system calls, library calls, formatting | - | - |

How they interact: the application calls servers, timers and clients from its own
threads; asio calls their handlers from whichever threads run the `io_service`;
server and HTTP client own their connections through `shared_ptr`s whose deleters
(`on_disconnect`, `socket_deleter`) are the places where a place is given back and
waiting is ended. The components do not call each other: the HTTP client uses the
URI and stream helpers, e-mail uses the filters and the sequenced multimap, the proxy is a
`simple_server` connector, and the LRU containers have no user inside the library. The models compose each component with the part of asio it
uses (queues of handlers, timers, acceptors, sockets), which is their environment.

`PROJECT.json` lists every component and the hazards with their source lines.

## 2. Modules

| Module | Contents |
|---|---|
| `SimpleServer` | simple_server (one family) and internet_server (two) |
| `SimpleServerProofs` | its inductive invariant and theorems |
| `BeatTimer`, `BeatTimerProofs` | beat_timer, and theorems about it |
| `LruSpec` | what the LRU containers promise |
| `LruCache` | the containers as they are built |
| `HttpClient`, `HttpClientProofs` | pool, sockets and requests of the HTTP client, and theorems about them |
| `SequencedMap` | sequenced_map and sequenced_multimap |
| `ContainerProofs` | theorems: the LRU containers implement `LruSpec`; the order of the sequenced ones |
| `Pinger`, `PingerProofs` | basic_pinger, its socket, its timer and the hosts that answer, and theorems about it on one thread |
| `Inotify`, `Netlink`, `ListenerProofs` | the two listeners and the kernel behind them, and theorems about each |
| `SequenceLemmas` | lemmas about least numbers and the operators on sequences, for the proofs |
| `SmtpClient`, `Irc` | the clients and their servers |
| `HttpProxy` | one session of the proxy between a browser and an origin |
| `DialogueProofs` | theorems about the SMTP client, and about the proxy |
| `Filters`, `Codecvt` | base64, quoted-printable, format=flowed; converters and hash filter |
| `Json` | the JSON parser, and a definition of its language |
| `Email`, `MimeHeader` | parser and generator of mail; encoded words and parameters |
| `Addresses`, `AddressText` | arithmetic and prefixes; text, integers and classes |
| `Packets` | the walk of `parse()`, and the checksum |
| `MC...` | definitions the configurations use, and the compositions below |

`MCContainers`, `MCListeners`, `MCDialogues` and `MCCodecs` put parts side by side that
share no state: a variable of the composition says which part a behaviour is about, and
the others stay in one initial state. A property of a part therefore holds of that
part alone. `MCHttpProgress` composes two settings of `HttpClient` in the same way. For the theorems, a part that is composed has a specification of its own without
fairness (`CacheSpec`, `SequencedSpec`, `PingerSpec`, `ProxySpec`, `InotifySpec`, `NetlinkSpec`); they are about safety, so none is needed.

### SimpleServer

A *family* is one `simple_server_base`. Every access of one of the two atomics is
a step of its own, because that is all the code makes atomic; a thread's program
counter `pc` names the access that comes next. `Incr`, `IncrUse`, `IncrWait` and
`IncrUndo` are the four accesses of `incr()`, `Decl` and `DeclWait` the two of
`decl()`, `ClearRunning` and `StopAcceptor` the two statements of `cancel()` and
`close()`. `OnAccept`, `Reset`, `Release` are `on_accept()` with its error path and
the release of the handler's reference; `Construct` and `ConstructThrows` the two
ends of `async_accept()`. internet_server's `start()` walks from v4 to v6 and takes
the v4 half back (`rollback`) when v6 was running already. The environment accepts
connections, fails accepts, makes constructors throw, and stops and resets the
`io_service`; the constant `Events` says which of this a run allows. `leaked` is a
history variable: it counts the two places where a slot that was counted is never
given back (an exception of `construct()`, line 205, and a connection that ends
while the `io_service` is stopped, line 171).

### BeatTimer

`map_` is a sequence of entries. What runs under `mutex_` is one step; a callback is
a step of its own because `on_wait()` releases the mutex around it; `cancel()` is two.
The asio timer is modelled by what it does to handlers: `expires_at` aborts the
outstanding waits, `Fire` turns them into handlers queued with success, and a handler
that is queued already keeps its result.

### LruSpec and LruCache

`LruSpec` is a sequence of entries per object, newest first. `LruCache` has the list,
the hash set (a function from the key a node was inserted under to the node), the
nodes and the number of buckets. `kind` is chosen at the start and says which
`is_limits()` is in force. `IsLimits` takes what the comparison yields when
`now() + min_expire_` overflows as a parameter, and every operation chooses it freely.
`clear()`, `insert()` and `emplace()` are instances of the operations that
are modelled. A set is a map whose values do not matter.

### HttpClient

A request is an application thread in `connect()` and `start()`; a socket is a record
of the members that control flow depends on. A critical section is one step, and so
is a handler, except where two threads meet without a lock: `result_` and `is_ready_`
(`Start`, `StartWrite` against `OnConnect`, `Ready`), `reuse_` (`AsyncConnect`,
`AsyncReuse` against `OnKeepAlive`, `Erase`), and the result of a redirected request
(`OnMove`, `MoveStart`). Answers are good, unparsable, chunked or redirecting; their
text is left out. `leaked` is a history variable that counts the places lost when
`resolve()` throws. Plain HTTP only.

### Pinger

A thread enters a critical section with `Enter` and leaves it in the action that is the
section's body; `inside` are the threads that believe to hold `mutex_`. `Number`,
`Emplace`, `ArmFirst`, `Send` and `Unsend` are `send_ping()` from one release of the mutex
to the next, `OnReceive`, `Match` and `Rearm` are `on_receive()`, `OnWait`, `TakeFirst` and
`Rewait` are `on_wait()`. `seq_` counts modulo `SeqCount`, and there may be more pings than numbers. A host
answers never, late or more than once. `turns` and `turn` are history variables: how many pings
have read `seq_`, and how many had before a ping did, so that two pings have one number if their
turns are rounds apart. `lapped` notes that a ping got the number of an entry that was
still waiting, a round or more behind.

### Inotify and Netlink

The kernel has `watches` and a queue; `KernelEvent` puts an event of a live watch into it and
`RemoveWatch` an `IN_IGNORED`. `AddWatch` and `AddEmplace` are the two halves of `add()`,
because the system call is outside the mutex. `ListenerNotify` and `ServiceNotify` are the
two ways to walk the buffer; the second pairs the halves of a move by their cookie. The service's
`do_notify()` calls itself for as long as it meets first halves of moves; the model says where that
ends (`LastTaken`), what has been stored by then (`Stored`) and what is written back into the buffer
(`PutBack`, in any order, since the code iterates two unordered_maps).
`close()` empties the kernel's side only: `files_`, `cookies_` and what is between `beg_` and `end_`
stay, and the fd may be opened again (`opened` counts up to `MaxOpens`), so that events of the closed
fd are walked among the watches of the next one.
`leftover` and `unheard` are history variables that name the two ways in which an entry
of `files_` outlives its watch; `stale` holds the events that were in the buffer at a `close()`, and
`erased` the live watches whose entry such an event has taken. In `Netlink`, `KernelMulticast` queues a datagram of several
messages if a group was joined and the socket has room, and otherwise marks the overflow
that the next receive reports.

### SmtpClient, Irc, HttpProxy

A method of the SMTP client is a walk through `awaiting`, one step for each line it reads.
`matched` and `leaked` are history variables: whether every line was read as the answer to
the command that caused it, and how a password went over the wire. The server answers any
command, and the connection itself, in one line or in up to `MaxReplyLines`, or closes. The client
reads a reply of several lines for EHLO only; a third history variable, `strayed`, notes the first one
to anything else, from which on its lines belong to older commands. In `Irc`, a
line of the server is what `dispatch()` makes of it, and the callbacks of the application
may write. `HttpProxy` has one action for each completion handler of the coroutine; what
is sent is a sequence of tokens (headers, sizes of chunks, bytes), so that a byte that is
lost, repeated or out of order shows.

### The conversions

An encoder, parser or converter is fed one character, one piece or one read at a time, and
its state is the state between two calls. What it has produced is compared in every state
with a reference definition that sees the whole input: the decoder's output (`Filters`,
`MimeHeader`), the grammar (`Json`), the lines of the text (`Email`, `Codecvt`), numbers
(`Addresses`, `AddressText`), RFC 1071 and the frame as it was built (`Packets`). Where the
code is known to deviate, the property names the exception (section 5).

## 3. Runs

| Run | Instance | Checks |
|---|---|---|
| `server_accounting` | simple_server, 2 threads, 4 Connectors, limits 1 and 2, every event | `TypeOK`, `UseCountExact` |
| `server_internet` | internet_server, 1 thread, 4 Connectors, limit 2, every event but `max_count()` | `CapacityBound` |
| `server_one_thread` | simple_server, 1 thread, 4 Connectors, limits 1 to 3, failures, cancel, close, restart after all has ended | `NotStalled`, `Resumes` |
| `server_dead` | simple_server, 3 threads, limit 2, no failure at all | `NotDead` is violated |
| `beat_timer` | 2 threads, 3 callbacks, times from the past to the future, cancel | `TypeOK`, `Ordered`, `Armed`, `Delivered` |
| `containers` | LRU: one container with 5 keys, two with 3 (timed: 2), limits none, 0 and 2; sequenced: 3 keys, 6 insertions | `Coherent`, `WithinBounds`, `StampsOrdered`, `KeysTogether`, `ImplementsLru` |
| `over_limit` | one lru_map or lru_set with 3 keys, limits none, 0 and 2 | `KeepsLimit` is violated |
| `http_pool` | 3 requests, 3 sockets, 2 places, several threads; failing connects, timeouts, redirections, kept and closed connections | `OnceEach`, `Accounting`, `WakeUpOwed` |
| `http_progress` | 2 requests, 1 thread, servers that complete what they are asked: for 1 place, with two addresses, a retry and timeouts; and for 2 places, with kept connections and redirections | `Completes`; `Admitted` in the first setting |
| `listeners` | inotify: 2 paths, 2 descriptors, 3 events, opened twice; netlink: 2 sets of tags, 2 datagrams, room for 1 | `FilesFollowKernel`, `EventsReported`, `ReportedAsSubscribed` |
| `dialogues` | SMTP: 3 methods, replies of 2 lines; IRC: 3 lines; proxy: 6 requests, 5 responses; pinger: 1 thread, 2 sequence numbers, 2 pings at once or 3 one after the other | `InStep`, `PasswordKept`, `NothingLost`, `HandlerKept`, `OwnReply`, `MethodReturns`, `PingsAnswered`, `ProxyEnds`, `Answered` |
| `codecs` | every input up to the bounds of the configuration, cut in every way | `RoundTrips`, `ParsesTheLanguage`, `MailKept`, `HeaderKept`, `AddressesComputed`, `AddressTexts`, `PacketsRead`, `TextConverted` |

What they show:

* **The counter of the servers is exact** on every interleaving, but for the two
  leaks above, and therefore never wraps. The limit is kept up to one Connector for the
  second family and two for each other thread (`CapacityBound`): `incr()` counts the
  accept that is outstanding, both families keep one, and a thread that sleeps between
  `IncrUse` and `IncrUndo` or before `DeclWait` hides one and revives another.
* **On one thread a simple_server neither stalls nor stops for ever.** On three it
  can: a thread in `incr()` has counted itself, finds `is_waiting_` set and takes the
  count back, after the `decl()` that should have resumed accepting has seen the count
  at the limit. The server then runs with no accept and no connection (`server_dead`).
* **beat_timer forgets nobody** (`Armed`, `Delivered`), with one exception that the
  property names: a `cancel()` while no wait is outstanding leaves `cancel_request_`
  set for ever, and `async_wait()` then never arms the timer. It can be early on two
  threads (section 5).
* **The LRU containers do what `LruSpec` says**, which is not all their comments
  promise: they hold one entry more than `max_size()` (`WithinBounds`), where `lru_map.hpp:19`
  says the oldest is deleted when the limit is exceeded (`over_limit` refutes that); and a copy
  has the opposite order of age. A sequenced multimap keeps the entries of a key together.
* **The HTTP client** never writes a request twice, never calls back twice, and keeps
  its count; a thread does not sleep beside a free place unless another is on its way to
  wake it, as long as every name resolves (`WakeUpOwed`: when `resolve()` throws, the
  thread that was woken for the place goes away and wakes nobody); a request is called
  back if servers answer and kept connections are left open.
* **The listeners report what happened.** `files_` differs from the kernel's watches only
  in the ways `FilesFollowKernel` names. The listener reports an event once and in order; the
  service reports halves of moves again when it pairs them or puts them back, but nothing for
  the first time out of order. Both use the right path, although descriptors come and go in
  between, but for descriptors and events that a `close()` has left behind (section 5).
* **The dialogues stay in step**, as far as they can. The SMTP client never takes an answer for
  another command's until a reply to anything but EHLO has several lines, and then it
  does (section 5); it sends no password in the clear without the flag that allows it, and as long as it
  is in step none outside of TLS that it could have had. IRC's read loop does not
  end by itself; the proxy passes on what it is sent and ends; on one thread a ping ends
  once, and with no reply but its own, until `seq_` comes round to numbers that are in use or still answered.
* **The conversions agree with their definitions** for every short input and every way
  to cut it, but for the deviations that section 5 lists (items 14 to 20, 24 and 25), which the
  properties except. Numbers of ten and more digits, and put() of the quoted-printable and
  format=flowed decoders, are outside of the models (section 6).

### Bounds

Each bound is named in its configuration. For the servers, a race needs two handlers
in `incr()` or `decl()` and at most limit + 2 Connectors; `UseBound` caps the counter,
which leaks drive up, one above the number of Connectors. Two families on two threads
is beyond what TLC does in minutes; the theorems cover it. `beat_timer` needs two
handlers and a third entry between them. For the LRU containers five keys let the table
grow to eight buckets and shrink again, and limit + 2 keys make both the surplus entry
and the reuse of a node happen; for copies three keys tell a reversed order from a
rotated one. For the HTTP client three requests and a third socket give a request that
sleeps, one that is redirected and a connection that is kept, all at once; one retry
is one more than none. Two pings
are needed for one to be first and the other to be taken by mistake; a third one after them is the
first to get a number that was given out before, with two sequence numbers. (The three are sent one
after the other, so that the run is small; the theorems are about pings in any order.) Two paths and two descriptors let a descriptor be left over
while another is live; three events are a move and one more, in one read or in two, and one
left in the buffer and two of the fd that is opened next. Three
methods are a connection, an EHLO with STARTTLS and a login, and two lines are one more than the client reads.
Prefixes of 0, 1, 4, 7, 8, 9 and 12 of 16 bits are those of no bit, of the bit whose `1 <<` is negative
or the sign, within a byte and around its end; 255 and 300 are an amount for which the loop over prefixes
ends and one for which it does not. Texts are
as long as the longest thing that is held back (three bytes of base64, an escape of six
characters, a folded line between two pieces) and one more. Symmetry is used in runs of
invariants, and in `containers`, whose one temporal property is a step property that treats
keys alike.

`CHECK_DEADLOCK FALSE` is set where the system may rest: a timer with no callback left, a
client with no request left, a dialogue that is over, an input that is used up.

### Fairness

* `SimpleServer`: a thread goes on with the handler it is in; a queued completion is
  run by some thread in the end (asio's queue is first in first out; strong fairness,
  since `stop()` and busy threads disable it for a while); connections end. No client
  is obliged to connect, and the application need not call anything.
* `BeatTimer`: time passes, the reactor reports an expired timer, callbacks return,
  queued handlers are run. Nobody is obliged to call `async_wait()` or `cancel()`.
* `HttpClient`: threads and queued handlers go on and time passes (`Fairness`); for
  `Completes` and `Admitted` also that each operation on a connection completes in one
  way or another (`ServersAnswer`), without which the client's single timer does not
  save a request (see 5). `MCHttpProgress` states the same for each of its two settings.

* `MCDialogues`: a server that is asked answers, and a handler whose operation has completed
  is run (`run()` takes them from a queue); for the pinger the clock goes on, the timer
  fires, and queued calls of `on_wait()` are taken in turn (strong fairness, as other
  threads may hold `mutex_` whenever it looks). No peer is obliged to send anything of its
  own accord, and nobody is obliged to call `async_check()` or a method.

## 4. Proofs

Every theorem holds for all values of the constants that satisfy the module's
assumption. Most of these say what the code's types do: finite sets of threads and
connections, a `None` that is no member of them, bounds that are numbers. `ServerAssumption` also wants a limit
that lets each family accept once, and `ProxyAssumption` says how the messages of the peers are framed.
Further hypotheses of a theorem (one thread, events that do not happen) stand in its statement.

### SimpleServer

* `ServerTypeOK`, `ServerExact`: `Spec => []TypeOK`, `Spec => []UseCountExact`;
* `ServerCapacity`: `Spec => []CapacityBound`, for one or two families and any number of
  threads, when `max_count()` is not called meanwhile (`"max_count" \notin Events`): a limit
  that is lowered leaves the connections it finds;
* `ServerNotStalled`: `Spec => []NotStalled`, for a simple_server on one thread with any limit and
  every event but a constructor that throws and a `max_count()` that raises the limit.

The invariant for the first two is `IInv`: the types without the sign of `use_count`,
`HandlerOwnsConn` and `UseCountExact`. `HandlerOwnsConn` says that a thread in
`on_accept()` holds a Connector in state "handled" that no other thread holds. It is
needed because `Release` and `Return` change the state of the Connector a thread holds:
were it gone or shared, the set that is counted would change by something else than
one. The proof that steps keep the count first maps every action to one of seven
*effects* (reserve, give up, fill, drop, two leaks, neutral; lemma `StepEffect`) and
then shows once that each effect keeps the balance (`EffectBalance`), with the
cardinality theorems of the library. `use_count_ >= 0` follows from the balance, which
is why the type of `use_count` cannot be proved first.

`CapacityBound` counts connections; what the code tests is the counter. The invariant in
between, `LimitedCapacity`, bounds the counter plus what threads are about to add to it by
the limit plus a *weight* for each thread that has read a value it has not acted on. The
proof found the bound: TLC on two threads had been content with one Connector for each
other thread, and the induction step failed for a thread that is in `decl()` when
another is in `incr()`. Each can add one.

`NotStalled` speaks of moments at which no handler runs. Its invariant `Awake` says for each place
in the code what the two flags mean there: `is_waiting_` is set at the limit only, but between the two
halves of `decl()`; and a server that runs and does not wait has an accept pending, but inside `incr()`. Every hypothesis
is used: with a second thread `incr()` can reach its undo branch (`server_dead`), with a second
family the other one's `decl()` lowers the count (section 5), an exception ends `start()` without
an accept, and a raised limit wakes nobody. Restarts and `io_service::stop()`, which the run leaves out
for `Resumes`, are covered.

### BeatTimer

* `BeatTypeOK`, `BeatArmed` (`[]Armed`), `BeatOrdered` (`[]Ordered`).

`TypeOK /\ Armed` is inductive, and `Ordered` is so beside the types; the lemmas are about where
`Insert` puts an entry, what is first afterwards, and that taking the first keeps the order.

### SmtpClient

* `SmtpInStep` (`[]InStep`): until a reply to another command than EHLO has had several lines, an answer is never
  taken for another command's and none is left unread;
* `SmtpPasswordKept` (`[]PasswordKept`): no password goes in the clear without the flag, and, until the client
  strays, none outside of TLS when the server has offered it and the flags allow it;

for replies of any length, in any number. Both follow from `SmtpInvariant`: `SmtpInv` is that the client has
strayed or is `Steady`, and, either way, that the flag is kept. The parts of `Steady` say what the server still has to send for the
step the client is in: the lines in the buffer are answers to the command last sent, and
what is still to be read of the greeting, of EHLO and of AUTH is known from `awaiting`. It is
needed because `InStep` alone says nothing of the lines that have not been read yet.

### HttpProxy

* `ProxyNothingLost` (`[]NothingLost`), for every set of requests and responses of any length,
  every way to cut them into reads, and every moment at which a peer closes or a read or a write fails.

`ProxyAssumption` says what peers send: a message begins with a header, and a line that gives the size
of a chunk has a size; a response is framed as its header says (chunk after chunk up to one of size 0,
or a body of the length given). Requests need not be framed: of a request that is too short, too long
or cut, what is forwarded is still a prefix.

`NothingLost` is far from inductive: that the last byte has arrived is concluded from where the
coroutine is, which says nothing of how much has gone by. `ProxyInv` says what it does say.

* `StreamInv`, `RequestInv`, `ResponseInv`: what a peer has sent and has still to send is its script, which never
  changes; and in each half what the other has received, followed by what waits to be written, by what was
  read and not yet moved and by what is on the wire, is what was sent (`Chain`). Reading, moving and writing shift
  the cuts of this chain and leave it as it is (`ChainSteps`), so what was received is always a prefix.
* `PlaceInv`: the number of tokens that have left the origin's buffer (`Moved`) is a place in the frame, and each
  operation of the coroutine has its own: `chunk1` stands before a size line, `chunk2` and `chunk3` behind it with
  `length` the size and two more, `writeBody` before the end. By the framing, the place
  after a chunk is that of the next size line.
* `MatchInv`: the state of `match_buffer_size` between two reads agrees with the length asked for.
* `AbortInv` and `Outcome`: who was cancelled and why; and for every way in which a session can
  end, what explains it: all has been forwarded, or the browser closed, or the origin was
  not given all, or closed before it had sent all, or a header could not be read.

There is one lemma for each action and each half, and before them the lemmas about chains
and about what a delimiter in the buffer says of the place in the script. Two arms of `AfterWrite` overlapped when the
model was first written; the proof could not be made before their guards were those of the code's `else`.
TLC checks `ProxyInv` on the proxy of `dialogues` (90 162 states).

### HttpClient

* `HttpOnce` (`[]OnceEach`), `HttpAccounting` (`[]Accounting`), `HttpWakeUp` (`[]WakeUpOwed`), and
  `HttpTypes`; for any number of requests, sockets, places, addresses and retries.

`IInv` is `Struct`, about who refers to what, and three sums. `Struct` has the types and
one part for each kind of reference: `SockInv` (what the flags of a socket say of its
operations, its timer and its request), `Callers` and `Movers` (the socket a thread in `connect()`,
`start()` or a redirection works on is its own), `Keepers` and `Holders` (who keeps a socket alive), and
`CalledOnce` (a request that has been called back has no socket left to do it again). The
sums are `CountExact`: `count_` is the number of sockets that live, of places taken for
sockets not made yet and of leaks; `Capacity`: it is not above the limit; and `WakeUpOwed`.
`OnceEach` alone is not inductive because a handler does not know whose result it holds:
only that every socket has one owner keeps two handlers from calling one request back.

The proof first shows for each handler which class of change it makes (*tame*: no
socket is made or dies; *mild*: one dies; *quiet*: no thread sleeps or wakes) and then once per class that the sums are
kept, so that only the actions that make a socket, or wake somebody, are proved one by one.
It also found what `WakeUpOwed` must except (section 3). TLC checks `IInv` with two requests and two
sockets and every event (3 199 329 states).

### LruCache

* `LruCoherent` (`[]Coherent`), `LruWithinBounds` (`[]WithinBounds`), `LruStampsOrdered`
  (`[]StampsOrdered`), for any number of containers, keys, limits and clock readings;
* `LruRefinement`: `CacheSpec => ImplementsLru`, with the entries in the order of the list
  for `recent`, `max_size` for the limit, and `kind = "lru"` for whether a push must evict.

`IInv` says of each container that it is `Sound` and `Capped`. `Sound` is what the operations
hand to each other: `Linked` (no node is twice in the list; the nodes that exist are
those in the list; the hash set leads from the key of each to it and knows no other key), `Aged`
(stamps do not grow along the list and none is later than now) and room in the table.
`StampsOrdered` and `WithinBounds` are not inductive alone: which node `push()` moves is what the hash
set says, and only `Linked` says that it is one of the list, once, so that moving it changes neither
the length nor the order of the others.

The argument goes from the links to the specification. `MoveToFront`, `UpdateLinks`,
`ReuseLinks`, `GrowLinks` and `EraseLinks` are about a list, a hash set and nodes, whatever
container they are in. `PushCases`, `ShrinkCases` and `PushAllCases` say what `push()`,
`shrink_to_fit()` and a copy do to a sound container and to its entries; the `...Step` lemmas, one
per action, put the container back among the others; and the `Spec...` lemmas say that the change of
the entries is a step of `LruSpec`. The invariant and the refinement are proved of each action
at once, since what an operation shows depends on where it put its nodes.

Two loops are of unbounded length. How many nodes `shrink_to_fit()` erases is a least number,
which exists because the numbers are well-founded (`LeastNumber`). A copy is a recursive function
over the number of entries copied: that there is such a function (`LoopExists`) and what it yields
after n steps (`PushAllCases`) are shown by taking the least n for which it fails. The induction
theorems of the library cannot be used, because they are about any predicate.

### SequencedMap

* `SequencedKeysTogether` (`[]KeysTogether`), for any number of keys and entries;
  a range that is inserted has two.

The invariant is `Good`: of two entries of a map the first has the other's key never and is the
older one; of two entries of a multimap with one key the first is older and all between them have
that key; nothing is younger than the number of insertions made. The last part is what makes the new
entry the youngest wherever it is put. `insert(range)` adds each entry by the single insertion.

### Pinger

* `PingerHandlerKept` (`[]HandlerKept`) and `PingerOwnReply` (`[]OwnReply`), for one thread
  (`OneThread`), any number of pings and any number of sequence numbers, fewer or more.

The one hypothesis is what the code needs: with two threads `seq_++` is not protected and two pings
can have one number, and `mutex_` can be unlocked under a thread that is inside (section 5). Numbers do
come round, so what is proved says where that shows: a reply may belong to a ping a round or more away,
never to one nearer, and no handler is lost or called twice before a ping gets the number of an
entry that still waits (`lapped`). The invariant is `PInv`:

* `Numbers`: a ping's number is what a counter modulo `SeqCount` shows at its turn (`Shows`), no two have had the same
  turn, and until `lapped` the entries are within one round. By `Apart` two pings with one number are then a
  multiple of `SeqCount` turns apart: the same ping, or a round away;
* `Duties`: the ping a thread works for was sent, and one that it is about to put into `entries_` is not there;
* `Once`: `entries_` holds no ping twice, and until `lapped` each ping sent is carried, there, or called back once;
* `Answers`: what was handed to a ping is an error, a timeout, or a reply to itself or to one a round away.

`HandlerKept` is not inductive without `Numbers`: `on_receive()` and a failing `send_ping()` erase by number. The proof
takes one step per action, with a lemma for what `emplace_hint()` and `erase()` do to the places of the others.

### Inotify

* `InotifyFollows` (`[]FilesFollowKernel`) and `InotifyReported` (`[]EventsReported`), of the listener and of the
  service, for any number of paths, descriptors and events, a buffer of any size, and any number of times
  that the fd is closed, with whatever is in the buffer, and opened again.

`InotifyInv` has beside the types and the two properties:

* `QueuesInv`: the kernel's queue, and the buffer before it, are in the order of the events and come after all that
  was reported; or else the buffer holds what the service has written back, which was
  reported before. `Untouched` is what is said of a queue of the first kind.
* `FreshInv`: as long as the fd is open a descriptor means one path to the kernel, to `files_`, to `add()` and to its own events that
  wait (`Fresh`), and `IN_IGNORED` is the last event of its descriptor. Without it an entry of `files_` could
  be erased for a watch that lives, and an event be told under a path that came later, by events of this fd too.
* `StaleInv`: events of a closed fd are in the buffer only, never in the queue of the next one.
* `AgainInv` and `CookieInv`: what is stored for a cookie, and what is written back, was reported, and
  under its own path unless it was a leftover's already.
* `WatchInv` and `AddInv`: `files_` and the kernel agree on what they both know, and the descriptor that `add()`
  has in hand is live, or its `IN_IGNORED` is still to come or has overtaken it. They carry
  `FilesFollowKernel` over the gap between the two halves of `add()`.
* `Accounted` and `InOrder`, the two halves of `DeliveredInOrder`.

Three lemmas do most of the work, since each serves several actions: `QueueGrows` (the kernel adds events that come after all
others), `TakenKeeps` (the front of the buffer is looked at and the rest stays) and `ReportsGrow` (what is
added to the reports is in order or has been reported). `ServiceKeeps` first takes `LastTaken`, `Stored` and
`PutBack` apart with a lemma for each. TLC checks `InotifyInv` with the bounds of `listeners`.

### Netlink

* `NetlinkReported` (`[]ReportedAsSubscribed`), for every set of tags and any number of datagrams, of one or
  two messages each, as the model has them.

`NetlinkInv` is the property with what it leaves out: all that waits in the socket or has been handed to
`dispatch()` is a datagram of messages that the groups let through. The property compares two counts, calls
made and places in which a message stands. The
calls of a datagram are those of its messages one after the other, so the number of times a call stands in a
sequence (`Times`) adds up over concatenations (`TimesConcat`); `DispatchedIs` says which calls one message
makes, whatever the three dispatchers do with it, `WalkedIs` which messages are walked over, and
`ArrivedGrows` that the places grow by as many.

### What is only model-checked

* Liveness (`Resumes`, `Delivered`, `Completes`, `Admitted`, `MethodReturns`, `PingsAnswered`,
  `ProxyEnds`, `Answered`), which is outside what the prover does.
* The conversions: their parsers and decoders are recursive operators, which the prover does
  not take, and they are correct by induction over the text.

Every other invariant of a run, and the refinement, is a theorem.

## 5. Behaviour of the code that a user should know of

The first, and what item 8 says of the limit, are runs. The others were met with the same models, by allowing the event
named or by leaving the exception out of a property, and are kept here as notes.

1. simple_server can stop accepting on three threads (`server_dead`).
2. beat_timer can run a callback early on two threads: a handler that was queued with
   success before another thread re-armed the timer takes the next entry without looking
   at its time (`beat_timer.hpp:111`).
3. The HTTP client loses a request that takes over a kept connection just as its server
   closes it: `reuse_` is set after the mutex is released and `on_keep_alive()` reads it
   without the mutex, so that the kept socket deletes itself (`client_socket.hpp:557`).
4. internet_server: when connections of one family use up the limit, the other family,
   once it waits, is only resumed by a connection of its own, of which it has none
   (`simple_server_base.hpp:173`; one thread suffices).
5. simple_server serves one connection too many when two threads are in `decl()` at
   once (line 173), and up to two for each further thread; internet_server does on one thread (line 161).
6. A Connector whose constructor throws costs a slot for ever (line 184).
7. beat_timer after a `cancel()` of an idle timer never calls back (`beat_timer.hpp:79`).
8. `lru_map.hpp:19` says the oldest entry is deleted when a fixed number is exceeded;
   the check comes before the insertion, so there is one more (`over_limit`). `timed_lru_map.hpp:20`
   says an entry is deleted when its time is over; it is only deleted when there are
   too many as well (`timed_lru_map_impl.hpp:128`). Inserting an empty range into a
   sequenced container increments an iterator that points nowhere
   (`sequenced_map_base.hpp:147`).
9. HTTP: a redirected request is lost when the new socket connects before
   `move_start()` gives it the result (several threads, `client_socket.hpp:474`); a
   server that stops answering leaves a request waiting when the timer fires while
   nothing is outstanding or after a retry (line 520); kept connections fill the pool
   and a request that could reuse one waits for ever (`http_client.hpp:180`); the line
   after the last chunk stays in a kept connection (line 391); a name that cannot be
   resolved costs a place, and the wake-up of whoever waits for one (`http_client.hpp:112`). https sets `is_ready_` before the
   handshake (line 174), and its verify callback keeps the socket alive (line 58).
10. Pinger: `send_ping()` unlocks `mutex_` by hand under a lock_guard
    (`basic_pinger.hpp:107`), so that two threads can be in a critical section; a name
    without an address of the right family never calls back (line 72); the timer handler
    takes the first entry, due or not (line 203); `generate()` takes its iterators by value, so
    that sixteen bytes are written behind the buffer (line 101).
11. inotify: `close()` leaves `files_` as it is; an `IN_IGNORED` that overtakes `add()`
    leaves an entry for ever (`inotify_listener.hpp:84`); `on_delete` is called for every
    event, since the mask is multiplied instead of tested; moved services keep
    iterators into each other's buffers (`inotify_service.hpp:147`).
12. netlink reports nothing that is deleted (`neighbor_impl.hpp:19`) and stops receiving
    after the first error, ENOBUFS included (`netlink_listener.hpp:109`).
13. The proxy does not forward the empty line after the last chunk (`thttpproxy.cpp:209`),
    and a byte too many from the browser can cut a response of unknown length (line 179).
14. Filters: a base64 encoder with a line length below four never sets `max_`
    (`base64_filter.hpp:77`). The quoted-printable decoder misreads digits that are letters
    (`qprint_filter.hpp:146`) and an escape after a soft break. The reader by lines drops what it held back between
    two reads without copying it (`istream_codecvt.hpp:104`). A hash filter hashes a short
    write again when it is continued (`basic_hash_filter.hpp:108`).
15. JSON: a surrogate pair is decoded half by half and lost (`json_parser.ipp:286`), and
    an empty array must not have a blank inside (line 314).
16. E-mail: the parser looks for the closing boundary where it should look for the opening
    one, so that parts are never split (`email_parser.ipp:178`).
17. Addresses: a mask of 100 to 109 bits prints without a digit
    (`basic_prefix_address.ipp:134`). An IPv6 header that claims more than was received
    moves the end of the buffer forward (`ipv6_header.ipp:26`).
18. Addresses: a negative amount counts twice, since `add()` calls `sub()` and then goes on with it, and
    the reverse (`address_impl.hpp:65`, `:80`). So does `++` or `--` of a prefix of one bit, where `1 << 31` is
    negative. `AddressArithmetic` therefore takes the number anew after a negative amount.
19. Prefixes: `+=` and `-=` subtract 1, 2, 4 ... from the amount until it is 0, which it never is unless
    it was 2^k - 1; any other amount is a loop without end (`basic_prefix_address.ipp:63`, `:79`).
    `hung` notes the amount, and the property says which it may be.
20. MIME parameters: an empty one is written without `=` (`encode_mimeheader.ipp:72`). As the last one it keeps
    `rfc2231_decode()` in its loop for ever, because the parser fails without moving on
    (`decode_mimeheader.ipp:158`); elsewhere it swallows the parameter after it. A short encoded parameter has
    no character set and keeps its ASCII only, one before a plain one is overwritten, and the `;` of the
    next may stay at the end of one.
21. SMTP: `receive_code()` reads one line (`client.ipp:93`). After a greeting or a reply of several lines to
    anything but EHLO, the lines that are left are taken for the answers to the commands that follow.
22. inotify: `close()` leaves `beg_` and `end_` as they are (`inotify_service.hpp:181`, and a listener that is closed from
    a callback goes on with the buffer). When the fd is opened again, an event that
    was left is told under the new path of its descriptor, and an `IN_IGNORED` that was left erases the
    entry of a live watch, which is then never heard of again.
23. Pinger: when `seq_` has come round, a late reply can be taken for that of a ping a round younger, and a
    `send_to()` that fails can erase an older entry with the same number and leave its own
    (`basic_pinger.hpp:98`, `:115`).
24. Filters: quoted-printable and format=flowed drop every CR, also one that is not part of a line's end; format=flowed
    joins a line that ends with a blank to the next one; and base64 that is read rather than
    written has a CR too many before its last newline when it has no padding and one byte is left over.
25. E-mail: the last header is not stored when the header ends at a line that is no header instead of an empty one or a `.`
    (`email_parser.ipp:61`); and when the last `read()` of a generator was too small, the tail of the line that ends the
    message is not delivered (`email_generator.ipp:251`). In an encoded header runs of blanks may become one, and a
    blank may follow the value.

## 6. Not modelled, and why

* The text of HTTP and the TLS stream, and with it https of the HTTP client; its destructor.
* The log: macros and streams; what is hard in it is a data race on a `shared_ptr`, whose
  outcome the code does not determine.
* Pseudo terminals, raw sockets, socket options and network interfaces: system calls.
* The digests behind the hash filters, character set tables, `inet_pton()`: libraries'.
* `put()` of the quoted-printable and format=flowed decoders (their `get()` is modelled); integers of JSON numbers
  with ten and more digits, which overflow.
* Details that the models take for less than they are: a failed connect of the HTTP client sets `is_ready_` and
  calls back in one step, which nobody can tell apart; `cancel()` on a socket that the timer finds closed throws
  in the code (`client_socket.hpp:520`) and does nothing here; a second read that `start()` begins from a callback of
  inotify_listener shares the buffer with the first and is taken for the same one.
* Container iterators and utilities: templates and formatting without state. Setters and
  getters of header fields. `email/address.ipp`.
* `pop()` of the LRU facade and `expire()` of timed_lru_set, which cannot be instantiated;
  `connect_ssl()` of the SMTP client, which is declared only; `fcopy_server.cpp`, which does
  not compile; the defaulted moves.

