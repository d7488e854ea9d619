# Formal models of linux-system-programming-labs

TLA+ models of the programs in `src/`: laboratory works in C and C++ that share
memory, files, sockets and directories with each other and with the user. The
programs are independent of each other; each section below is one system.

The directory named `labs2 ` in the repository ends with a space, and so do the
paths into it.

## 1. The components

| component | state it keeps | operations | interacts through | what makes it hard | what makes it correct |
|---|---|---|---|---|---|
| **1shmem** (`labs2 /1shmem/producer.cpp`, `consumer.cpp`, `shared.h`) | a segment with `MAX_FILES` slots and two indices; semaphores `empty`, `full`, `mutex`; four global names | create/open, reset, store, load, post, unlink | shared memory, named semaphores | interleaving of two programs, wrap-around, end marker, restart after a kill, names that outlive their programs | nothing lost, doubled, reordered; both end; a restart takes up where it was; a session leaves nothing behind |
| **stash** (`labs/stash/hideStash.cpp`) | a file, `.dark/.stash_<name>` with the saved head | `--distort`, `--restore` | the file system | kills between two calls, short writes, failing unlinks, overlapping runs | the text can always be restored; success is reported truthfully |
| **hide** (`labs/hide/hideFile.cpp`) | current directory, `.dark` and its mode | `--hide`, `--unhide` | the file system | check before `rename`, overlapping runs, symbolic links, kills | no file lost, replaced or doubled |
| **chat** (`labs2 /chat/chat.cpp`) | the flag `running`, the socket, two threads | lines, datagrams, SIGINT | UDP broadcast, signals | a handler on either thread at any point, blocking calls, empty datagrams | the receiver lives as long as the client; the client ends when it should |
| **kotichi** (`labs2 /kotichi/cat_backend.cpp`, `kotichi_collage.cpp`) | per request: rounds, futures, hashes, pictures; the uploads directory | `GET /make`, `GET /cat`, `POST /cat` | HTTP between the services | parallel requests and futures, timeouts, names made of the clock | answers are true, every request is answered, acknowledged uploads are kept |
| **kernel** (`labs2 /kernel/kernel.c`) | screen, cursor, line and password buffers | lock screen, line editor, clock | keyboard, VGA memory, CMOS | limits of the buffers, a buffer that is reused, backspace over a wrapped line, reading a clock that runs | what is on the screen is what is in the buffer; only the password opens it |
| **stego** (`labs/stego/stego.cpp`) | a trailer behind a file | `--add`, `--read`, `--clear` | the file system | short writes, kills, lengths that cannot be, overlapping runs | the picture is never touched; `--clear` undoes `--add`; success is reported truthfully |
| **launcher**, **nohup**, **dup2**, the daemons (`labs/launcher`, `labs/nohup`, `examples/filesystem`, `examples/processes`) | descriptors, session and signals of up to three processes; a pid file | `fork`, `setsid`, `open`, `dup2`, `close`, `exec`, `sigaction`, `unlink` | what the parent has left them, signals | standard descriptors that are closed at the start, calls that fail unseen, a SIGTERM before the pid file is written | what is run finds its streams in order and nothing else open; the pid file tells the truth |
| **httplib: thread pool** (`labs2 /kotichi/libs/httplib.h`, lines 4990 ff.) | a queue, `shutdown_`, workers that sleep | `enqueue`, `shutdown`, the loop of a worker | one mutex, two condition variables | notifications sent after the unlock, spurious wake-ups, a queue at its limit | a job runs once, and before `shutdown` returns |
| **httplib: server** | listening socket, per connection a request and a count | `listen`, `stop`, read, route, answer, close | TCP connections, the pool | keep-alive with unread content, handlers that throw, `stop` while workers serve | each request handled once; `listen` returns |
| **httplib: client** | one socket, shared by threads; requests in flight | `send` with redirects, `open_stream`, `stop`, destructor | TCP connections, two mutexes | a socket that is shut down by one thread and used by another, left-over answers | an answer belongs to its request; a socket in use is not closed; every call returns |
| **httplib: content** | offset of the writer, what a reader has left | with a length, in chunks, until closed; with a receiver or as a stream | bytes on a connection | the connection ends at any byte, limits, an empty chunk | success means the whole content |
| **httplib: forms** | the parser's state and buffer | serialize, parse piece by piece | pieces of a content | a delimiter cut in two, contents that look like one | the parts arrive as they were sent, however they are cut |
| **httplib: ranges** | none | parse, check, coalesce, announce, write | headers of a request | overlaps, open ends, empty content, status set by the handler | the bytes that were asked for, as many as announced; refused only for a cause |
| **httplib: target, routing** | none | encode, decode, match, mount | the request line | characters with a meaning in one place and not in another | a path reaches its handler or its file, with its parameters |
| **httplib: server-sent events** | lines, event, last identifier, `running_` | connect, read, dispatch, reconnect, `stop`, `start` | a stream that breaks off | reconnecting in the middle of an event, `stop` while it reads | events in order, none left out; `stop` returns |
| **filestat** (`labs/filestat`) | none | counts entries by type | one directory | little | the counts |
| **examples** (the other ones) | none that outlives a call; a mutex in `forkmutex.c` | one system call each | | a mutex that is copied by `fork` | |

`ripper`, `keylogger`, `rpc`, `spy` and `watchdog` are assignments without code.
`libs/httplib.h` was written elsewhere, but both kotichi services are built on it and
what they promise each other rests on it, so the parts of it that keep state or
have an algorithm are modelled like the rest.

The hazards, line by line and with the properties that cover them, are in
`PROJECT.json` under `hazards`.

## 2. The modules

| module | models | depends on |
|---|---|---|
| `ShmBuffer` | slots, directory entries, index arithmetic of 1shmem | |
| `FileChannel` | abstract: a bounded first-in first-out channel with an end marker | |
| `ShmTransfer` | one session of a producer and a consumer | `ShmBuffer`; implements `FileChannel` |
| `ShmLifecycle` | any number of producers and consumers that are started and killed, and the objects they find by name | |
| `Stash` | runs of `--distort` and `--restore` on one file | |
| `Hide` | runs of `--hide` and `--unhide` in one directory | |
| `Chat` | main thread, receiver thread and SIGINT handler of one client | |
| `CatBackend` | the POST handlers of the cat service and its files | |
| `Collage` | `/make` handlers composed with the cat service | `CatBackend` |
| `Stego` | runs of `--add`, `--read` and `--clear` on one picture | |
| `ThreadPool` | the pool of worker threads | |
| `HttpConnection` | the connections, and what closing one does to what is under way | |
| `HttpServer` | `listen`, `stop`, and the loop of requests on a connection | `ThreadPool`, `HttpConnection` |
| `HttpClient` | a client object and the threads that use it | `HttpConnection` |
| `HttpExchange` | clients and server on their connections | `HttpServer`, `HttpClient` |
| `HttpContent`, `HttpMultipart`, `HttpRanges`, `HttpTarget`, `HttpRouting`, `HttpEvents` | what is in a message, one subject each | |
| `HttpText` | the encoders and decoders of paths, queries and URIs, used by `HttpTarget` | |
| `HttpMessage` | the six of them under one next-state relation (`MessageNext`) | instances of these six |
| `Processes` | `launcher`, `nohup2`, `dup2`, `daemon`, `daemon-v2` | |
| `PasswordLock` | abstract: a lock that opens for the password | |
| `Kernel` | locked screen, line editor, cursor and screen | implements `PasswordLock` |
| `MC...` | constants and small definitions for TLC | the module of that name |
| `HiddenFileProofs` | theorems about both programs that hide files | `Stash`, `Hide` |
| `MessageProofs` | theorems about the chat, the ranges of a content and the events of a stream | `Chat`, `HttpMessage` |
| `ContentProofs` | theorems about the content of a message | `HttpMessage` |
| `TransferProcessProofs` | theorems about a session of 1shmem and about `launcher`, `nohup2`, `dup2` and the daemons | `ShmTransfer`, `Processes` |
| `KernelFormProofs` | theorems about the kernel and about the forms of a message | `Kernel`, `HttpMessage` |
| other `...Proofs` | theorems | the module of that name, `KotichiProofs` with the pool and the exchange |

Every definition is annotated in `PROJECT.json` (`map`) with the lines it stands
for. Definitions named `Mut_...` are mutants: plausible bugs, used to see that a
property notices them. They take no part in any specification.

### 1shmem: `ShmTransfer`

One action is one call or one store: `sem_wait`, the copy into a slot, the step
of an index, `sem_post`. The variables have the code's names; `ppc` and `cpc` say
which call comes next. A file is its name and its length in units; a slot takes
`MAX_FILESIZE` of them, so that an empty file, one that fits exactly and one
that is cut off are different. `SkipEntry` is the code's `continue` for
directories and files that cannot be opened. `Refused` are the names which the
output directory takes no file under: the consumer checks neither the opening nor
the write and reports the name all the same, and so does `WriteFile`. `sent` and
`received` are history variables; with them as the state of a `FileChannel`,
`ImplementsChannel` says that the ring, its indices and three semaphores behave
like one bounded channel, its liveness included.

### 1shmem: `ShmLifecycle`

Here names and objects are different things, as they are for the kernel: an
unlinked object lives on for those who have it open, and the name may be given to
a new one. A process creates an object of a name at most once, so `<<name,
creator>>` identifies an object. The producer resets the indices of whatever
segment it finds but not the semaphores, because `sem_open` ignores the initial
value of one that exists. A consumer that was started too early holds no
semaphore or no segment and dies of a signal (`Segfault`). A crash leaves the
semaphores as they are. `Users` are what the user may do: the programs there are,
whether they are started at any moment or in sessions one after the other, and how
many are killed. A behaviour has one user.

### stash: `Stash`

One action is one system call that reads or changes the file or the metadata.
Bytes are grouped in cells, `HEAD` of them are `STASH_BYTES`; a cell is zero or
belongs to a version of the user's text. A metadata file is identified by the run
that created it (`O_EXCL`), so that a run which has opened it goes on reading it
when somebody has unlinked the name. `write`, `pwrite` and `unlink` may do less
than they were asked to (`CallsMayFail`). Runs that end with an error before they
change anything are left out. `Edit` is the user writing a new text between
runs that reported plain success.

### hide: `Hide`

A directory maps names to files; files are model values, so that a `rename` that
replaces one is seen to lose it. `access` follows a relative symbolic link from
the directory it is in, `lstat` and `rename` do not: `Accessible` is that
difference. `Create` is the user, who may also make one symbolic link. A link whose
target is not next to it does not exist for the check, so a `rename` may replace
it; `NothingLost` speaks of the other files, which the link must not harm.

### chat: `Chat`

The two threads take one step per call. `Deliver(t)` is the kernel interrupting
thread `t` with the handler: a thread in `getline` or `recvfrom` finds its call
failed (there is no `SA_RESTART`), a thread anywhere else does not notice. The
handler itself is two steps, the flag and the shutdown, and its thread stands
still meanwhile. The text of a line matters only in whether there is any.

### kotichi: `CatBackend`, `Collage`

A handler of `POST /cat` sleeps, takes the millisecond as the name, opens the
file (which truncates it) and writes it. The clock is a variable that goes on on
its own. `Collage` adds the handler of `GET /make`, with the futures of a round
as an array: `Fetched` is a request that ends, with any picture or with nothing,
`Collect` is one turn of the loop over them, `JoinRound` the destruction of the
vector, which waits for each future. HTTP is external and modelled by what the code
gets from it: an answer, or a failure, at any time and whether or not the other
side did its work. The handler of `GET /cat` changes nothing; which picture it
draws is free, which also covers the generator all handlers share without a lock.
Two uploads of one millisecond share a file, which is why `LoneNameKept` speaks of
the others.

### stego: `Stego`

One action is one system call: `fstat`, the `pread`s of `has_trailer`, `lseek`, each
`write`, `ftruncate`. `HasTrailer` is shared by the three modes, and `Found` and
`NotFound` say where each goes on. A file is a sequence of cells: of the picture, of
a run's message, of a length field, of a signature. A length field is `LEN` cells
and a cell knows its place in it, so that reading it at the wrong place gives no
length; bytes of a picture or a message that are read as a length give one that
is larger than the file, as four printable characters do. `Written` fills a gap
before the position of a descriptor with zeros, as `write` behind the end does, and
a write may be short (`WritesMayFail`). `last` is a history variable: the run that
added last, and the file before it.

`LaunchPolicy = "shared"` is what the properties are stated for: readers may
overlap an `--add`, but only one run writes at a time. The program takes no lock, and two
overlapping `--add`s write over each other.

### httplib: `ThreadPool`, `HttpConnection`, `HttpServer`, `HttpClient`, `HttpExchange`

`ThreadPool` takes what is done under `mutex_` as one step and each notification as one
of its own, since the code sends it after the unlock; a worker may wake up for no
reason. The owner is the thread in `listen`: it joins the workers when it has
notified all of them.

A connection is two queues of cells, a cell being what a side reads as a unit: the
request line, the headers, a body; the head of an answer, its content. A read takes
all that has arrived or a beginning of it into a buffer (`Reads`), because the
stream of the server is made anew for every request and what its buffer held is lost.
Closing with something unread resets the connection (`ServerCloses`, `ClientCloses`),
and a reset takes away any end of what was sent.

The kinds of request are those the code treats differently: with a content or
without, one that waits for `100 Continue`, one whose headers the server refuses, one
whose content is too large, one whose handler throws, one that is redirected. `Worker` steps
are one read, one write or one call of a handler each; `svr_sock` is "stale" when
`accept` has failed and `listen` has closed it: it keeps its number, which `stop` would see.

A client keeps one socket. `request_mutex_` is held through `send` and the nested
sends of a redirect, `socket_mutex_` for single steps, and `stop` takes the second
only: it shuts the socket down under the thread that uses it and leaves the closing
to that thread. `open_stream` takes the socket out of the client. Which reads fail, what is
reset, and where a stop comes between two steps is free.

### httplib: `HttpMessage` and the six subjects

These are algorithms on data, and most of their hazards are boundaries. Each module has
its inputs chosen in `Init` and few steps; `HttpMessage` takes one `subject` per behaviour, so
that one run explores all of them side by side.

* `HttpContent`: sender and receiver run in parallel and the connection may break between
  any two cells. A receiver stores what it reads in pieces of `RecvSize`; a stream
  hands it out with whatever sizes the caller asks for.
* `HttpMultipart`: text is a sequence of symbols, CR, LF, dash and boundary among them; `Feed`
  is one call of `parse` with the next piece, of any length. The reference is the form
  that was sent.
* `HttpRanges`: `Coalesced`, the checks and the announced length are the code's; the
  reference is the set of bytes asked for. A byte is sent twice only if the same range is
  asked for twice, which the code keeps apart (6830). When ranges are refused is stated
  apart, by its conjunct `RefusedRight`: both ways, so that the limit of overlaps (6900) is the code's.
* `HttpText`, `HttpTarget`: a text is a sequence of bytes, and each encoder says which of
  them it leaves alone. The decoders differ in what they read behind a `%`: two digits,
  `%u` and four digits in a path, and in a query whatever `strtoul` makes of two
  characters, so that `%+2` and `% 2` are one byte. The reference is the text that the
  caller gave.
* `HttpRouting`: mounts, then patterns cut into fragments as `PathParamsMatcher` does; the
  reference matches segment by segment.
* `HttpEvents`: the loop of `SSEClient` line by line, with the thread that stops and starts it. The
  server is one that goes on after the identifier it is given, or denies the stream: the
  statuses 401, 403 and 404 end the loop at once, every other failure is one to repeat.

### launcher, nohup, dup2, daemons: `Processes`

A program is a script of calls and a process an index into it. `open` takes the lowest
free descriptor, `dup2` of a descriptor to itself does nothing, `fork` copies the table
and `exec` (or the loop of a daemon) ends the script. So that a program which was
started with closed descriptors finds its own files at 0, 1 or 2, as it does in
reality, `start` has every subset of them closed. A call that fails and is looked at
ends its process; one that is not looked at sets `unchecked`. `Signals` come from
outside: a hangup of the login session and a SIGTERM to the daemon, at any step.

### kernel: `PasswordLock`, `Kernel`

The kernel has one thread and takes no interrupt; it polls the keyboard. So an
action is one turn of a loop, except that `vga_write` of a string takes one step per
character (`todo` is what is left of it), since what a long string does to the
cursor is the interesting part. `passbuf` holds anything at first, because the
code does not clear it, and what an earlier attempt has left later on; `StrEq` compares up to
the NUL as `streq` does. `Put` and `NewLine` are the cursor: at the bottom there is no
scrolling, the last row is written again. `wrapped` and `start` are history
variables. A backspace in column 0 shortens the buffer and leaves the screen, so
`EchoMatches` is stated until an input reaches the right edge. Keys without a
character, and releases, are `LineOther` in the second loop and no step in the
first. The clock shows any time. `ImplementsLock` is the promise of the locked
screen: text and buffer agree, however often it was mistyped, corrected or overrun.

## 3. The runs

| run | instance | shows |
|---|---|---|
| `shm_transfer` | every directory of up to three entries of every kind, two slots, one name refused by the output directory | order, completeness of delivery, nothing left behind, termination, refinement of `FileChannel` |
| `shm_lifecycle` | two users: one with a producer and two runs of the consumer, started at any moment, and two kills; one with two sessions of a producer and a consumer each | one process at a time holds a mutex, a restarted consumer takes nothing twice or out of order; sessions end, deliver their own files and leave no name behind |
| `stash_faults` | three runs of distort and two of restore, of a mode overlapping, two kills, two edits, short writes and failing unlinks; files of 0 to 3 cells with a head of 2 | the text is recoverable at every moment; reports are true |
| `hide_overlap` | three overlapping runs, one killed, two files and a relative link, two names | no file lost or doubled |
| `chat_ending` | three lines, two datagrams, two signals | the client is never deaf while it runs, and ends when it is told to |
| `chat_ctrl_c` | one signal, one line | **finding**: Ctrl+C alone need not end the program |
| `kotichi_makes` | two requests, two rounds of two fetches, three pictures of which two hash alike, two milliseconds, a full disk for one | answers are true, no fetch outlives its round, a lone upload is kept, every request is answered |
| `http_exchange` | two threads that share a client with keep-alive, a third with a client without; three connections, one worker, a queue of one, two requests per connection, one redirect, one stop, `accept` may fail; five plans of what the threads do | answers are paired with requests, handlers run once, no socket is closed in use, a stop closes, all calls and `listen` return |
| `http_message` | the six subjects on small inputs (below) | contents, forms, ranges, targets, routes and events arrive as they were sent |
| `processes` | five programs, every subset of the descriptors 0 to 2 closed, a pid file left behind or not, failing calls, a hangup and a SIGTERM at any step | streams in order, nothing else open, no hangup gets through; the pid file tells the truth |
| `stego_faults` | three runs of `--add`, one with an empty message, one of `--read`, two of `--clear`, one kill, short writes, pictures of 0 to 3 cells | the picture is never touched, reports of `--add`, `--clear` and `--read` are true |
| `kernel_keys` | 5 rows of 3 columns, two keys, a password of two of them, buffers of 5, any content of `passbuf` at first | the screen shows the input, refinement of `PasswordLock` |

The type invariants of `ShmTransfer`, `Chat`, `Collage`, `Kernel` and `ThreadPool` are
parts of the inductive invariants of section 4 and proved there; no run spends
time on a type invariant.

### Why the bounds are enough

* Two slots and up to four items (three files and the end marker): the ring fills,
  drains and wraps, and either program waits for the other. Entries of every
  kind come in every order.
* `shm_lifecycle`: two kills can hit the producer and a consumer, or both consumers;
  three files and a marker in two slots wrap the ring. A second session is the first
  that can meet something left behind.
* `stash_faults`: sizes 0 to 3 with `HEAD = 2` are an empty file, one shorter than
  the head, one equal to it and one longer. Three distorts let one be killed, one
  fail and one succeed.
* `hide_overlap`: two names and three files, so that a name is free, taken by
  another file, or taken again after a hide; the link refers to one of the two
  names, which may be there, be hidden, or be its own.
* `chat_ending`: two signals are one per thread, or a second one while the first
  handler runs; with three lines there is one more than may be read late.
* `kotichi_makes`: with two rounds of two fetches for two pictures, the loop can
  be left at the first or second future, in the first or second round, or not at
  all. The clock stops after two milliseconds: same and different names both
  occur.
* `http_exchange`: `MCPlans` are the cases in which two operations meet: a redirect on its
  own connection; two threads with one socket, one of them with a content the server
  reads late; a request that the server gives up on and the next one behind it; a
  stream that takes the socket away from the other thread; a content that is too large
  and then a new connection. One worker and a queue of one make the third connection
  one that is refused, and two requests are the limit of a connection, so that the
  next one needs another. `Conns` bounds the connections of a behaviour; `MaxStops` the
  calls of `stop`, of a client or of the server.
* `http_message`: contents of 0 to 3 bytes with a limit of 2 and pieces of 2 are empty, below,
  at and above each limit. Forms have contents of up to two symbols of CR, LF, dash,
  boundary and letter, which is every way to end in the beginning of a delimiter, and two
  longer ones; two parts are the limit. Ranges are all lists of up to two within -1 to 3,
  some of four (the limit) and one of five, on contents of 0, 1 and 3 bytes. Targets
  have paths and values of the characters that some encoder or decoder treats
  specially, numbers after `%` and `%u` of each length of UTF-8, cut off or with a sign or
  a space, and bytes that are no characters. Event streams have two or three events, with and without identifiers, three
  faults, one stop, and one attempt to reconnect.
* `processes`: `MaxFd = 5` is enough for three standard descriptors, the two files of
  `launcher` and one more.
* `stego_faults`: a length of one cell and a signature of two (two, so that a short
  write can cut it); with pictures of 0 to 3 cells the file is shorter than a
  trailer, or leaves fewer than, exactly, or more than the two cells the code asks
  for. Three adds let one be killed and one fall short before one succeeds.
* `kernel_keys`: strings and inputs are longer than a row of three, so that both wrap;
  the banner and two wrong attempts reach the last of five rows. A buffer of five
  has the password of two, one that is overrun, and leftovers behind the NUL.

`CHECK_DEADLOCK` is off in all but `kernel_keys` because the programs end; what has to end,
or go on, is stated as a liveness property instead.

### Fairness

The only fairness assumed is weak fairness of what the kernel schedules: a process
or thread that is not blocked goes on (`Producer`, `Consumer`; `Main`, `Receiver`
and a handler that has begun; `MakeHandler`; `Listener`, `ServerWorker`,
`ClientThread`; the thread of `SSEClient`). No user has to type, start a program
or press a key, no datagram has to arrive. In `Collage` a fetch ends by its
timeout of 30 seconds (`set_connection_timeout`, `set_read_timeout`), so
`Fetched` is fair, and so is the handler waiting for its upload; the cat service
itself is not, it may hang for ever and each request is answered all the same.
In `HttpExchange` a read or a write ends by its timeout (`CPPHTTPLIB_SERVER_READ_TIMEOUT_SECOND`
and its relatives), so a thread in one is never blocked for good, and handlers return; the
acceptance of a connection is fair, a stop, a reset and a spurious wake-up are not. In
`HttpEvents` the loop of the client is fair and so is a `start` after a `stop`; `MaxFaults`
bounds how often a stream breaks off, without which no client gets to the end.
In `ShmLifecycle` a killed process makes no step; fairness of it is void.
`Stash`, `Hide`, `Stego`, `Processes` and `Kernel` have safety properties only and assume none.

## 4. The proofs

All theorems hold for every value of the constants that satisfies the module's
assumptions.

**`TransferProcessProofs`**, first the session of 1shmem, for any number of slots and any
directory. The properties are not inductive: that the consumer reads what the producer wrote depends on
where the indices are, and that depends on the semaphores. The invariant grows in
steps:

1. `SemInv`: types, the mutex and who is inside, the counting semaphores and
   who holds a slot, so that both are never in the ring at a time.
2. `RingInv`: the indices are the numbers of slots stored and taken, modulo the size
   of the ring, and the slots between them hold what was stored and not yet
   taken. `SemInv` bounds their distance, so the producer never reaches a slot
   that is still wanted. This gives `FifoDelivery`, and with it every step is one of
   `FileChannel` (`ChannelRefinement`: initial state and steps; liveness is checked
   by TLC).
3. `EofInv`: the end marker is stored last and only once, hence
   `NothingLeftBehind`.
4. `SourceInv`, `OutputInv` and `NothingElse`: what was stored is what the directory
   lists up to `pos`, and what the consumer has written is what it took, and
   nothing else; with the previous ones `CompleteDelivery`.

Then the five programs of `Processes`, for any number of descriptors. `TargetsPrepared`
speaks of the end of a script only, so `ProcessesInv` says for each call what the
descriptors are before it:

1. `Placed`: no process runs past its script, and a child is not there before its fork.
   With it the `...Script` lemmas tell which call is next from `pc` alone.
2. `Inherited`: who is not the one that runs the target, or has not begun, has what the
   program was started with; from `setsid` on the session is its own.
3. `LauncherInv`, `Dup2Inv`, `NohupInv`, `DaemonInv`: the whole table of descriptors as a
   function of `pc`. What `open` returned first was the lowest free descriptor
   (`FirstClosed`), so it is one of those that are replaced only if that was closed at
   the start; this is why `nohup2` closes it only above 2. For a daemon it is also said,
   after failed calls too, that of the first three at most as many are open as `/dev/null`
   was tried: otherwise the lowest free one could be another than 0, 1 or 2.
4. `PidFileInv`: how far the second process has come with the pid file, for `PidFileTrue`,
   whose second half is about a start without a pid file.

**`ShmLifecycleProofs`**, for any number of programs and of files:

1. `LockInv`, however the programs are started and killed: a mutex object plus the
   processes inside it never exceed one. A process that was killed inside still
   counts. With `RingTypes` it gives `MutexCorrect` and `TypesCorrect`.
2. `RingInv`, if whatever is opened belongs together (`Apart`): the ring of each
   producer is counted over all consumers that ever opened an object of it. A
   filled slot is announced, claimed or about to be announced by at most one
   (`RingCounts`, inequalities, since a consumer that dies on a null semaphore or is
   killed never gives its place back), and what is stored and not taken lies from the
   front of the ring on (`RingPlaces`, `RingHistory`).
3. `SingleInv`: with one producer at the most, `Apart` holds, since every bound name and every
   handle is that producer's. Consumers come and are killed at will.
4. `SessionInv`: in sessions `Apart` holds for another reason. The machine is `Between`
   two sessions, or a producer is `Alone`, or it is `Paired` with its consumer (`Phase`),
   and the names are what each phase says. `WorkInv` says what a consumer has
   taken, has in hand and has written. The two need each other: that the last
   unlink ends the session follows from the producer being through by then, because
   the end marker was taken (`LastTaken`).

3 gives `TakenOnceInOrderCorrect` for one producer, 4 for sessions, and 4
`SessionIntactCorrect`. The hypothesis of the first is needed: two producers that are
started at once share the names and reset each other's indices. TLC checked `RingInv`
and `SessionInv` on the run `shm_lifecycle` before they were proved.

**`HiddenFileProofs`**. *Stash*, for any number of runs and any file, under `Undisturbed`: runs of
different modes do not overlap, and nobody edits the file (TLC checks edits). The
invariant says of each run what its file and its buffer hold: a distort that has
the metadata is the only one, `saved` is a prefix of the user's head, the file is
intact until the metadata is complete, and a restore works on complete metadata or
on a file that nobody has zeroed. `RecoverableCorrect` follows, and for the steps in which a
run ends, `DistortCorrect` and `RestoreCorrect`, together `ReportsCorrect`.

*Hide*, for any number of overlapping and killed runs, with or without a
link, and with files created between the runs (`CreatedBetween`): a file has one name for its life, so the
destination of a rename is free as long as its source is there. `NothingLost`
counts places; the proof shows that the place exists and is unique.

**`MessageProofs`** and **`ContentProofs`** are about `Chat` and three subjects of
`HttpMessage`.

*Chat*, for any number of lines, datagrams and signals: everything that ends the
receiver or shuts the socket down comes after the flag was cleared, and a line that was
read late was the last.

*The content of a message*, for contents, chunks and reads of any size. What is on the
connection must be what the receiver can still make sense of, and whether it is depends
on cells it has not read. So the inductive invariant (`ContentInv`) speaks of a run: the
decoder as a function of a state and a cell (`Decoded`), the states before, between and
after the cells of the wire (`Path`), from where the receiver is (`Reached`) to where the
sender is (`Written`). The sender lengthens the run at its end: a chunk, or the beginning
of one, leads on from where it stands (`ChunkPath`, `DonePath`). The receiver shortens it
at its beginning (`PathData`, `FirstStates`). If nothing comes any more, the run says why:
a complete content has been sent and the receiver would have found its end, so an error
before the connection was late means that the content is not complete. Without chunks
the run is a segment of the data (`Segment`). This gives `ReceivedWhole` and
`AcceptedWhenSent`.

*The ranges of a content*, for contents of any length and requests of `RequestsAssumption`:
any ranges that have a bound, and a handler that sets no status or one of success (the
code checks ranges only then), and none for a file. `RangesServed` counts how often a byte
is asked for and how often it is sent; the proof follows the count. A range that
fits, once its bounds are put in, has the bytes it asks for (`NormalAsked`). Sorting is a
bijection between the ranges that have the byte (`SortedHeld`). For coalescing, `Joined`
relates what was made of the first ranges to these: the byte is in no more of them, in
none only if it was in none, and, what makes this inductive, the last one begins no later
than the last of the first ranges, so that the next one, which begins no earlier, leaves
no gap when it is joined to it (`Appended`, `Widened`, `MergedHeld`). In the answer a byte is as often as there are
coalesced ranges with it (`MultipartHeld`, by induction over the pieces of
`FlattenSeq`). A byte is sent twice only for a range that was
asked for twice, because one that is not joined lies behind all before it or is the last one
again (`LastOrBehind`). For `RefusedRight`,
what `range_error` finds is just what there is to refuse, because two ranges
that overlap have the later beginning in common (`CommonBytes`, `RefusedForCause`).

*The events of a stream*, for any events and any faults, in the same way. A place is a
line of an event that is to be read next; the lines that were received and those on the
way are a tour (`Tour`) from the place of the client, and the message it has put together so
far is what stands before that place (`MsgAt`). `AfterLeads` says that what the server
sends leads on from the event after the identifier it is given, by induction over the
events of `FlattenSeq`. The place is after the identifier remembered and at most one
event after the last one delivered (`StreamInv`), so the next event delivered leaves
none out; `DeliveredInv` says that the identifier remembered is the greatest delivered.
TLC checked `EventsInv` before it was proved.

**`KotichiProofs`**, for any number of requests, pictures, futures and rounds:
`RoundInv` ties the futures to the steps of the handler, `KeptInv` the pictures to
the hashes seen, `PostInv` the upload to the answer, and `UploadInv` gives a lone
upload its file from the truncation on.

The handlers of both services run in httplib's pool, so the module also proves the
pool, for any number of workers and any limit of the queue (`PoolSpec`). `PoolInv` says
that a job is in one place, and that whenever a job waits, a worker is awake or the owner
has the notification still to send. That gives `EachJobOnce` and that no wake-up is lost.

It goes on to `HttpExchange`, for any number of workers, clients, threads, connections
and operations. A step of the server is seen from one connection `c` only
(`ServerMoves`): with `Srv(c)`, the progress of the worker that serves it, and `In(c)`,
what that worker has still to read, it is one of seven kinds of steps (`Moves`), a rest,
or nothing. A step of a call is seen from the connection it uses (`Calls`), and whatever
else a client does opens, shuts or closes connections (`Drift`, `Touches`). The
invariants are stated in the same terms:

1. `ExchangeInv` is `ServerInv` (types, `PoolInv`, a connection in the pool is
   accepted, one that was never made is empty) and `ClientInv`: who holds
   `request_mutex_` is the one call of `send` on that client, the frames of nested
   sends are `socket_requests_in_flight_`, and no connection belongs to two clients or
   streams (`OwnInv`). With it every step is one of `PoolSpec` or changes nothing of
   the pool (`PoolRefined`), which gives `EachJobOnce` for connections, and
   `NotClosedInUse`, because the only closing step that touches a used connection is its
   own call's.
2. `StopInv`: a call that was stopped either has the flag to close still set or has
   closed the socket already; hence `StopCloses`, for a request of `send` that was not
   redirected: the nested `send_` forgets the stop.
3. `NumberInv` and `LinesInv`: requests are numbered by thread, operation and
   redirect; the line of a request lies at one place at the most, on one connection,
   only if it was written, and nowhere once the request was handled. Hence `HandledOnce`.
4. `PairInv`, for `PairedAnswers`. What is on a connection that a call uses belongs to
   the request of the call (`Paired`). That is not inductive without saying when a
   connection may be used again: once an answer was read after which it is kept, the
   server has read the whole request and is between two requests (`Answering`,
   `Requested`). So the socket of a client on which nobody sends is `Clean`, or a failed
   call is about to close it (`SocketOK`).

TLC checked each of these on the run `http_exchange`, and on a larger instance, before
it was proved.

**`KernelFormProofs`**. *The kernel*, for a screen, buffers and strings of any size. `KernelInv` is the
type invariant, the three properties of the screen, and `Tidy`: no typed character
is a NUL, and no input is there while a string is written, which is why a string may
move the cursor without breaking `EchoMatches`. `PutScreen`, `PutAhead` and
`BackspaceScreen` say what one character does to the screen; every action is made of
them. `StrEqText` reduces `streq` on a buffer with leftovers to equality of texts,
and with it every step is one of `PasswordLock` (`LockRefinement`, complete, since
`PasswordLock` assumes no fairness).

*The forms*, for any number of parts of any contents, any limit of parts and any pieces,
under `FormsAssumption`: the boundary, which the client draws at random, is in no
content, a form has a part, and after the last boundary comes a line end at the most. The
inductive invariant (`FormInv`) speaks of what the parser has not read yet, its buffer
followed by what is still to arrive. In every state that is the rest of the form from one
place on (`AtStart`, `AtEntry`, `AtHead`, `AtType`, `AtEmpty`, `AtBody`, `AtBoundary`,
`AtEnd`), the parts before that place are those that were sent, and of the part in
work so much as is missing in `parts` is still to come. A parser that does not go on
has less in its buffer than the place needs (`Wanting`); so when everything has
arrived, it is at the end (`ParsedIsAtEnd`). The search in the buffer is reduced to the
whole rest: the first delimiter there is behind the content (`FirstBehindPlain`), and a
buffer that ends before the end of it has none (`FindFirst`). What `Body` hands over when it finds none never
reaches into the delimiter, since it keeps as many symbols as that has. `FormGiven`
needs `serialize_multipart_formdata` unfolded from the end of the form: `BehindExists`,
by `Induction` over the parts. The proof found that `Boundary` had been written with a
CASE whose guards overlap when the buffer is shorter than two symbols, which TLC
evaluates in order and TLA+ does not; it is an IF now, as in the code.

**`StegoProofs`**, for any number of runs and pictures of any size, under `Orderly`
(the policy is not `"any"`). `LengthsTrue` is the strengthening: wherever a cell of a length field
stands, the length it tells, counted back from the field, does not reach into the
picture. So no `--clear` cuts into it, whatever broken trailers lie behind the one it
finds. `Alone` says that a run which writes has the file to itself, `AddersTrue`
that what it has written so far is at the end of the file, `ClearersTrue` that the size
and the length a `--clear` has read are those of the file.
`TrailerInv` adds what the last writer did (`LastTrue`: `last` is either a trailer at
the end of the file, added to one that had none that fits, or the file has no magic at
its end or is what it was before the last trailer) and what a running process has found
out and may rely on (`RunTrue`). It gives `WritersCorrect` and `ReadersCorrect`.

Only model-checked, not proved: liveness (`Termination`, `SessionsEnd`, `StopEnds`,
`MakesEnd`, `CallsEnd`, `EventsEnd`, the fairness of `FileChannel`), which the prover
does not handle; of safety the targets and routes of `HttpMessage`. The library's induction
theorems take a predicate as a parameter, which none of the provers can instantiate.
These modules have an `Induction` of their own that takes a set instead, which is enough
for sequences and for recursive functions with one case in each step, as those of the
ranges, the forms and the events are. The algorithms of the targets and routes are recursive functions on
texts with several cases in each step, compared with a reference of their own: their
equality for every input stays with TLC.

## 5. What was found

`chat.cpp:138`: "Ctrl+C для выхода" holds only for a signal that hits the main
thread inside `getline` (`chat_ctrl_c`). A signal that is delivered to the receiver, or to
the main thread outside of `getline`, leaves the main thread waiting for a line.

The following are limits that nothing in the repository denies. The properties are
stated around them, each in the words of its comment.

* **1shmem**: a producer that is run again before the consumer is through resets the
  indices and not the semaphores, or adds its files behind an end marker; files are then stored
  and never taken (`producer.cpp:29-34`). The consumer reports a file as written that
  the output directory refused. A file is cut off at `MAX_FILESIZE`.
* **stash**: a restore that overlaps a distort unlinks whatever has the name by then, also
  metadata it has not read (`hideStash.cpp:145`); an edit after a warning is overwritten by the
  next restore; a hidden file named `.stash_<name>` is taken for metadata.
* **hide**: `access` follows links and `rename` does not, so a dangling link is replaced
  (`hideFile.cpp:51`); so is a file that is created between the two calls.
* **kotichi**: two uploads of one millisecond share a name (`cat_backend.cpp:97`);
  `write_file` looks at no result; all handlers share one `mt19937` without a lock.
* **stego**: two overlapping `--add`s or `--clear`s write over each other
  (`stego.cpp:57`, `153`).
* **kernel**: backspace in column 0 (`kernel.c:109`); no scrolling (`kernel.c:26`); the
  three reads of a running clock may show a time that never was (`kernel.c:82`).
* **httplib, content and forms**: a provider that writes zero bytes to a chunked content ends the loop
  without the last chunk. Text behind the last delimiter of a form that comes in a piece of its
  own is taken for the end of a delimiter. A form without parts is sent as its last
  boundary alone and not found valid (6473).
* **httplib, ranges**: a handler that sets status 200 itself on a content with a provider announces the
  whole length; one that sets an error status there meets the assertion of line 6917. A
  range of a chunked content, and a suffix longer than the content, is answered 416. A
  file that is replaced between `stat` and `mmap` is announced with the old length
  (9108, 9130).
* **httplib, target and routing**: a redirect decodes a `+` in the path of `Location` (10663); of two parameters
  with the same key and value one is dropped; `open_stream` does not encode the path;
  a mount matches a prefix that ends within a segment; the redirect of a directory leaves
  out its mount point.
* **httplib, events**: an empty `id` does not clear `last_event_id_`; an event without data leaves its
  type to the next one; `stop` cannot interrupt a read, and called by a handler it waits
  for itself.
* **httplib, client**: `open_stream` while a request of another thread is in flight is not
  serialized with it; the nested `send_` of a redirect forgets a `stop` (10088); a POST
  without content gets a second `Content-Length` when it is redirected (10866).
* **httplib, server**: a `stop` between binding and `listen_internal` is lost (8738); a second `stop`
  while workers are joined meets the assertion of line 8740; `wait_until_ready` may miss
  a server that runs only for a moment (8732).
* **launcher, dup2**: started with the descriptors closed that they replace, they lose a stream.
  `nohup2` prints the identifier of the process in between, not of the one that stays.
* **daemons**: one that was started with a closed standard descriptor closes its alive file;
  a SIGTERM before `sigaction` leaves the pid file behind, and a pid file left behind is
  truncated and written again.
* **examples**: `fork-benchmark.c` prints microseconds without leading zeros; the child of
  `forkmutex.c` waits for a copy of a mutex that nobody unlocks.

## 6. Not modelled

* Of `httplib.h`: TLS, compression, digest authentication, proxies, looking up names and
  interfaces, binding, MIME types and status texts, routes that are regular
  expressions (matched by the standard library), websockets. They are formatting,
  wrappers of libraries, or parts neither kotichi program reaches.
* `filestat` and the other examples: one pass or one system call, no state of their own and
  nothing that interacts.
* `Hide` and `Stash` together in one `.dark` directory: they meet only in a file that
  the user names like metadata, and in the mode of the directory.
* The boot code and `io.h` of the kernel; the three reads of its clock are one.
* The text of messages, the layout of tar headers, HTML and JPEG; errors of calls that
  end a run before it has changed anything.
