# Husky in TLA+

Husky is a C server core in the style of nginx: memory pools, a configuration that is
reloaded while clients are connected, a cached clock, logs, buffers and socket I/O. This
directory holds a model of its parts with state, the TLC runs that check them and the
TLAPS proofs of what must hold for every value of the constants.

Two facts about the tree shape the model. The feature switches (`HKY_HAVE_INET6`,
`HKY_HAVE_UNIX_DOMAIN`, `HKY_HAVE_REUSEPORT`, `HKY_HAVE_MAP_ANON`,
`HKY_HAVE_POSIX_MEMALIGN`) come from a configure step that is not in it; the model is of a
build that has them. And several names are misspelt where they are used
(`hky_destory_pool`, `ngx_memzero`, `hky_qeueu_init`): they are read as the function they
stand for. The event loop, the process loop and the modules of the server are not in the
tree; what they do to the modelled state appears as external actions.

## Components

| component | state | operations | what makes it correct |
|---|---|---|---|
| memory pool (`core/hky_palloc.c` over `unix/hky_alloc.c`) | chain of blocks with bump pointer and failure count, list of large blocks, list of cleanups | create, small and large allocation, aligned allocation, free, cleanup, reset, destroy | granted regions never overlap; each heap block is freed once; each descriptor is closed once |
| cycle and reload (`core/hky_cycle.c`) | the cycle in force, the cycle being built, retired cycles with their cleaner timer, pid files, shared zones | `hky_init_cycle` with its two exits, `hky_clean_old_cycles` | clients of a kept address never notice; a failed reload changes nothing; nothing leaks or is closed twice; retired cycles are freed when, and only when, unused |
| listening sockets (`core/hky_connection.c`) | a table of listeners per cycle, the descriptors behind them | take inherited ones, open with retries, configure | each listener has the socket of its own address and backlog |
| cached time (`core/hky_times.c`) | lock, ring of slots, published pointers | update, read | readers without a lock never see a slot change or a mixture of two moments |
| configuration parser (`core/hky_conf_file.c`) | a 4096-byte window on a file, the words of the current directive | read token, parse, dispatch | the words do not depend on where the window ends; every file is closed once |
| log and syslog (`core/hky_log.c`, `core/hky_syslog.c`) | chain of logs sorted by level, disk-full second; per peer a descriptor and a busy flag | write, insert, set levels; send, reconnect, cleanup | each message reaches the logs of its level; no recursion; one close per descriptor |
| timers and tree (`event/hky_event_timer.h`, `core/hky_rbtree.c`) | a red-black tree of keys that wrap | add, delete, find minimum | the tree is balanced and sorted; a timer fires within 300 ms of what was asked |
| buffers and chained I/O (`core/hky_buf.c`, `unix/hky_*send*.c`, `hky_*recv*.c`, `hky_readv_chain.c`, `hky_writev_chain.c`) | chain of buffers, readiness of the connection | send, receive, advance the chain | the peer gets the bytes of the chain, each once, in order, whatever the kernel takes at a time |
| datagram sockets (`unix/hky_udp_*.c`) | chain of buffers with ends, readiness of the socket | send datagram by datagram, receive | a datagram goes whole or not at all; what is left is sent when the kernel has room again |
| arrays and lists (`core/hky_array.c`, `core/hky_list.c`) | a region in a pool that others allocate from, with its length | create, push, grow, destroy | elements keep their place in the order and their value, and nobody else's memory is written |
| queue (`core/hky_queue.h`) | rings of links through the elements | insert, remove, split, add, sort, middle | each ring stands for a sequence, read from either end; the sort is stable |
| strings, numbers, formats (`core/hky_string.c`) | none | conversions, `hky_vslprintf`, encoders and decoders, comparisons, searches | agreement with a definition that is not made of their steps, above all at the boundaries |
| addresses and URLs (`core/hky_inet.c`) | the `hky_url_t` being filled | parse, resolve, print | the parts put together are the URL; an address printed is read as itself |
| start of the process (`core/husky.c`, `core/hky_file.c`, `unix/hky_setproctitle.c`, `core/hky_slab.c`) | paths of the cycle, inherited sockets, memory of arguments and environment, layout of a zone | once each | names are beside what they are relative to; the title destroys no variable; pages lie in their zone |
| shared mutex, module table, CPU and platform limits | a few words each | creation and one-shot reads | only the creation code is in the tree |

How they interact: a cycle owns a pool, and its destruction runs the pool's cleanups;
`hky_init_cycle` refreshes the cached time, parses the configuration into the new cycle,
opens files, zones and listeners, and compares the old cycle's with them; retired cycles
wait for the event module's connections and are freed by a timer; every part writes to the
log, whose lines start with a cached time.

Hard behaviours: a reload that fails at any system call; other processes that take an
address between two tries; several reloads before the first retired cycle is free; sockets
that are handed from cycle to cycle while their listener table is rebuilt; long sequences of
odd sizes in a pool; updates of the clock interrupted at any point; readers without a lock.
`PROJECT.json` lists each hazard with its line and the properties that watch it.

## Modules

* `HkyOrder`: first and last element of a set of positions, with the proof that they are what
  they are called, and induction over the naturals for a set of them.
* `HkyArena`: what any allocator promises. `HkyPool`: the pool; its property `ArenaSpec`
  is that it implements `HkyArena`. `HkyPoolProofs` holds the proofs, that one among them.
* `HkyService`: what a reload promises the clients of a server, without descriptors.
  `HkyCycle`: `hky_init_cycle` in phases, with the listening sockets and the cleaner; its
  property `ServiceSpec` is that it implements `HkyService`. `HkyCycleProofs` holds the proofs.
* `HkyTimes`: the cached clock. `HkyTimesProofs` holds the proofs.
* `HkyChain`: chains of buffers, iovecs and what is left of a chain. `HkyByteStream`: what a
  connection promises. `HkyConnIO`: the functions that send and receive on a stream.
  `HkyDatagram`: those for datagrams. `HkySockets` composes the two under one event loop; its
  property `StreamSpec` is that a stream implements `HkyByteStream`. `HkySocketsProofs` holds
  the proofs.
* `HkyRbtree`: the red-black tree. `HkyMsec`: a counter that wraps. `HkyTimerQueue`: what
  timers promise. `HkyTimer`: the timers; its property `QueueSpec` is that they implement
  `HkyTimerQueue`.
* `HkyConfReader`: what a configuration text says, read whole, and the parser that reads it
  through a buffer.
* `HkyLog`: the chain of logs and the directives that build it. `HkySyslog`: log calls, which
  nest when a syslog peer fails, over reloads. `HkySyslogProofs` holds the proofs.
* `HkyArray`: arrays and a list in a pool. `HkyQueues`: sequences of elements. `HkyQueue`: the
  links; its property `QueuesRight` is that they implement `HkyQueues`. `HkyContainers` composes
  arrays and queues. `HkyContainersProofs` holds the proofs about both.
* `HkyNumbers`: bytes, texts and the numbers in them. `HkyFormat`, `HkyCodec`, `HkyCompare`: the
  other functions of `hky_string.c`, the tree of names over `HkyRbtree` among them. `HkyInet`:
  addresses and URLs. `HkyArithmetic`: the civil date and the layout of a zone. `HkyStart`:
  title, options, inherited sockets, directories. `HkyText` calls one function of all these and
  compares the result with what it should be.
* `HkyArithmeticProofs`: the order of moments, the limits of numbers, the calendar and the
  layout of a zone.
* `MCHkyPool`, `MCHkyCycle`, `MCHkyTimes`, `MCHkySockets`, `MCHkyTimer`, `MCHkyConfReader`,
  `MCHkySyslog`, `MCHkyText`, `MCHkyContainers`: the values TLC gives the constants.

Operators that a comment calls a mutant are not part of the model: each is a plausible bug,
next to the definition it would replace, and the property that finds it is in
`PROJECT.json`.

### HkyPool

A pointer into a pool is a block number and an offset. `PallocSmall`, `PallocLarge`,
`Pmemalign`, `Pfree`, `AddFileCleanup`, `RunCleanupFile`, `ResetPool` and `DestroyPool` are
one action per function; every action that allocates contains the whole of
`hky_palloc_small` and `hky_palloc_block` (`SmallAlloc`), the ageing of the searched blocks
and the move of `current` included. `memalign` may fail at any time. The history variables
`live`, `heap`, `lost`, `openFds` and `badClose` say what callers hold. Callers do what the
functions of the tree do: one cleanup per open descriptor, no access outside the region, and
no reset of a pool that has cleanups (nothing in the tree resets one; a reset would leave
`pool->cleanup` pointing into memory that is handed out again).

`AllocTest` is `"assign"` for `hky_alloc` as written and `"compare"` for what its message says
it means. As written no allocation over the small limit ever succeeds, so everything that is
about large blocks is checked with `"compare"`, and the finding with `"assign"`.

### HkyCycle

`pc` names the phase of `hky_init_cycle`; one action is one stretch of code between two
effects the kernel or another process can see, so that other processes act in between. A
failure is possible wherever a call can fail and leads to `FailedReload`, the label `failed`,
or to the process's exit where the code calls `exit`. Descriptors are numbers the kernel
hands out lowest first, so that a number is reused at once: a stale number is then a live
descriptor of something else, and `RightDescriptor` notices. The kernel's table, the unix
socket paths, mapped segments and pid files are separate state. `lost` and `stray` record
what the code itself forgets: the descriptor that `hky_create_pidfile` leaves open when the
write fails (lines 769-771), and the segments a failing reload has mapped.

The matching of listeners, two nested loops in the code, is one step: each new listener, in
their order, takes over the first old one that `hky_cmp_sockaddr` calls equal and that none
before it has taken (`Candidates`, `IsMatching`). `CycleAssumption` says what a configuration is: no
two zones of one have the same name (the function that adds them is not in the tree; the
loops that look for a zone by its name rely on it), and the descriptors a process inherits are
3, 4, ... for different addresses.

Two things the code does not notice are in the model, and are the exceptions that the
properties name. `hky_set_inherited_sockets` takes every inherited socket to have the backlog
`HKY_LISTEN_BACKLOG`, whatever the process before listened with; a configuration that asks
for that very number changes nothing (`Inherited` holds the kernel's backlog, `told` says
whether this process has called `listen` since). So is a `listen` that is refused, which
`hky_configure_listening_sockets` only logs. `RightDescriptor` speaks of the backlog of the
other sockets. Whether a zone takes over a segment depends on the `noreuse` of the new zone
(line 374), whether the old segment is released on that of the old one (line 543), for zones
of the same name, size and tag. Where only the new one asks for it the old segment is
forgotten (`Forgotten`); where only the old one does, the segment that has just been taken
over is unmapped, and perhaps once more later (`Withdrawn`, `pulled`). `ZonesMapped` holds
until then, and `NoMisuse` allows that second unmapping and nothing else.

When bind() has made the path of a unix socket and listen() fails, the path stays
(`OpenListener`). A failed reload leaves the pid file it has created and has deleted the old
one; `PidfileStays` is about the order of the two only.

Left out: `hky_test_config` (a `-t` run creates the pid file, opens files, zones and sockets as
any other; it passes over an address in use, does not configure the sockets, and ends without
closing what was there), socket options other than the backlog, the contents of a zone, the
environment.

### HkyTimes

An update is ten steps: the lock, the clock, the test for a new second, the new slot, its
time, each of its texts, each of the published pointers, the unlock. A text is the second it
shows. The gmt offset and `hky_current_msec` are not modelled. `ClearSecond` is the line of
`hky_init_cycle` that forces an update. It takes no lock, and others may publish, and come
round the ring, between the load of the pointer (`LoadTime`) and the store: a second may be
cleared in any slot at any time, and if the update behind it finds the lock taken it stays so.
All three properties say what holds in spite of that, and tolerate the cleared second itself.
A reader takes a pointer, and reads what it leads to in two halves; `lag` counts the slots
that were begun since.

### HkyConnIO

A byte is named by its address, so that the receiver can tell from where each byte was taken.
A system call and the code up to the next one are one action: `WritevChain` is the start of
`hky_writev_chain`, `WritevGather` the building of the iovecs, `Writev` the call and the rest
of the turn. The functions of `HkyChain` compute in one step, from sets of positions, what the
loops of `hky_output_chain_to_iovec`, `hky_chain_update_sent` and `hky_readv_chain` compute
one buffer after another.

The kernel takes any number of bytes it has room for, and delivers any number of those
under way. It reports a change to each side once (`wreport`, `rreport`): the edge-triggered
methods set `ready` on such a report only, `"level"` (select, poll) whenever the bit is off.
`"epoll"` and `"rdhup"` differ in `hky_use_epoll_rdhup`, and `"kqueue"` counts the bytes it
has. The event modules are not in the tree; `PollWrite` and `PollRead` do what the fields of
`hky_event_t` say of them.

A call interrupted by a signal is made again. That changes nothing but in `hky_unix_send`,
which clears `ready` first (line 38): when the second try takes all, the bit is off, and no
report will come. The variable `stale` marks this, and `NoEventLost` and `Completes` name it as
their exception. The loop condition `err = HKY_EINTR` of `hky_readv_chain` (line 146) assigns;
the model keeps it, as a reader that does nothing until the kernel has something for it. The
arguments `vec, nelts` at line 93 are read as `vec.nelts`.

`ConnAssumption` and `DatagramAssumption` exclude buffers without room, and two buffers of a
reader in the same place. A chain that ends in an empty buffer that is
not special makes `hky_writev_chain` loop for ever (`update_sent` stops at it, nothing is left
to write, and `in` never becomes NULL); the code relies on its callers here.

### HkyDatagram and HkySockets

A chain is cut into datagrams behind each buffer that has `flush` or `last_buf`.
`NextDatagram` is `hky_udp_output_chain_to_iovec` with the tests behind it: the bytes of the
next datagram, an error (a buffer in a file at the wrong place, a bad one, more iovecs than
there are), or that no end has come yet. The kernel takes a datagram whole, refuses it, or
fails; the network loses and reorders; a reader that offers less than a datagram loses the
rest. What is left of a chain is tried again after a report, as on a stream, and the sender
that uses `hky_udp_unix_send` gives it buffer after buffer. The table `hky_os_io` of
`unix/hky_posix_init.c` holds the functions of both kinds of sockets. `HkySockets` has a stream or a datagram socket, not both at work:
they share nothing but the event method, so that a product of the two would only repeat each
state of one for every state of the other.

### HkyTimer

Links, colours and rotations of the tree are modelled one by one; the two mirrored halves of
each function are one definition with a side. `HkyRbtree` stands for its recursion with
RECURSIVE operators, so that what it computes is checked and not proved. The counter of
milliseconds wraps at `2 * Half`; a key is compared by the sign of the wrapped difference.
The table of remaining times that `QueueSpec` is about is computed from the keys and the
clock; no variable remembers what was asked. An event is added while it is armed only if
it is in `Rearmed`; crowds are armed at the start and then only leave, which reaches the
deeper cases of the deletion without all the orders of insertion. A clock that is set back
is not modelled: timers then wait for as long as it was set back, and the code has nothing to
say to that.

### HkyConfReader

A text is a sequence of characters; those that mean nothing to the reader are one or two.
`ReadChar` is one turn of the loop of `hky_conf_read_token` after the refill, `Loop` its
tests in their order; the bits of the loop are the set `scan.on`. `EndOfInput`, `TooLong`,
`Refill`, `RefillShort` and `RefillFails` are the ways out of the code at the end of the buffer. A return is
recorded in `token`, and one action of `hky_conf_parse` deals with it. The calls of
`hky_conf_parse` in progress are `stack`: the handler of a block calls it for the block, and a
handler may call it for another file. These handlers are not in the tree; `Commands`
describes what they do. The size of a file whose `fstat` failed is uninitialised memory
(lines 170-173 log and go on), so it may be anything (`Garbage`). `hky_alloc` is read as in
the pool, or no file could be parsed at all.

Its first section defines the same language without buffer, start pointer, bits or second pass:
one mode per place, and words that grow by what each character stands for. `TokenRight`
compares the two at every return. Since `start` is not moved while blanks are skipped, and is
moved to the "#" of a comment, more than a buffer of blanks or of comment is refused as a
"too long parameter"; `TokenRight` allows this.

### HkyLog and HkySyslog

The logs of a cycle are a sequence, a pointer is a position and the head is position 1, so
that `LogInsert` can exchange a log with the head by value as the code does. The loop along
the chain is the smallest set of positions that holds the first and is closed under `next`
(`Visited`); a new log goes before the first of them that is lower, or behind the last. A level
is the number the code computes, debug bits included. `SetLevels` refuses "debug", as the code does:
its loop ends one name early, and its last test, for `HKY_LOG_DEBUG`, is dead.

`stack` holds the calls of `hky_log_error_core` in progress. Every action is the code between
two system calls or log calls: `SyslogWriter`, `InitPeer` and the three ways it fails, `Send`,
`SendFails`, `CloseUnix`, `WriterDone`. What they report, they report to the cycle in force
(`Complain`), which starts another call on top; the caller goes on when it returns. A pool
keeps one cleanup for each connect. `DestroyOld` is the case of a master, where `hky_cycle`
still is the cycle whose pool is destroyed; `Retire` and `CleanOld` are a single process.

`hky_syslog_cleanup` closes the number of its peer and keeps it. A unix peer that had to
connect again has two cleanups: the second closes the number once more, and that failure is
logged, through peers that may connect at that moment. `doubled` marks this, and
`SocketsOwned` names it as its exception. Up to then it holds.

Left out: the text of a line and its truncation, debug messages, logs in memory (line 460 of
`hky_log.c` names an undeclared variable, so a debug build does not compile), and the
redirection of stderr (`hky_use_stderr` is never cleared in the tree). `close` fails in the
model only on a number that is not open. `hky_clean_old_cycles` handles one cycle at a time.

### HkyContainers

Memory counts elements: the block of the pool, and what lies above it. `cells` says whose
element stands at each address, so that an array that grows into a region of somebody else,
or moves without its elements, is seen (`ElementsKept`). Growth in place, growth by copy,
creation inside a structure, destruction that gives memory back only at the end of the pool,
the chunks of a list and allocations of others are the actions of `HkyArray`. When the memory
for elements is not there, the header that was allocated before them is lost, for arrays, the
list and its parts alike. `list.pushed` counts what was pushed onto the list; the code has no
such number, and the model uses it only to number the elements and to bound them. An array of no
elements never moves to more than none (line 51 of `hky_array.c` doubles zero); arrays are
created with one element at least, as everywhere in the tree. The header of an array that is
part of a structure lies in somebody's region with a member behind it, or outside the pool
(`within`, `Members`); `hky_array_destroy` compares its address with `last` all the same.

`HkyQueue` changes links one assignment after the other, with and without the debug form of
`hky_queue_remove`, which clears the links of what it removes. The abstract queue of a head
is the row of elements that both directions lead through, from the head and back to it
(`QueueOf`); where there is none, it is no queue at all, and `QueuesRight` fails. The loops of the
sort and the middle are functions of the number of turns. `hky_queue_add` has
`(h)->next->prev` at line 75 where it needs `(n)->next->prev`, which is the same only when `h`
is empty; nothing in the tree calls it, and `Add` is for that case.

### HkyText and the functions it calls

The initial state picks a function and its input, the step stores what it returns, and the
invariants compare that with a definition that is not made of the steps of the code:
`NumbersRight` with the positional value and whether the type holds it, `FormatBounded` with
the same format written without any bound, `CodecsInvert` with the inverse and with the
announced length, `OrdersSound` with lexicographic order, with occurrence and with the set of
inserted names, `AddressesRight` with the dotted groups and the grammar of a URL, `DatesRight`
with the calendar counted day by day, `SetUpRight` with what the memory, the paths, the
directories and the zone say afterwards. The largest numbers of the types are constants and
small, so that they overflow within a few digits. The branches under `HKY_HAVE_INET6` and
`HKY_HAVE_UNIX_DOMAIN` do not compile as they stand (`null`, `post`, `u->addr`, `sum_path`);
they are read as `NULL`, `port`, `u->addrs`, `sun_path`.

What the model keeps although its author cannot have meant it, and what the properties
therefore leave out: lines 65 and 66 of `hky_inet.c` multiply two octets of an embedded IPv4
address by 0xff; `hky_utf8_length` passes the length of the whole text for what is left of it
(line 1101 of `hky_string.c`), so that it reads up to three bytes beyond the text;
`hky_utf8_cpystrn` does not test for the end at all, so that it reads on until its room is
used up or a NUL comes; what lies behind a text is one of `Behinds`, and `CodecsInvert` says
what does not depend on it. The map of `refresh` does not escape "%", which the comment on it lists, and `args` escapes ";": `CodecsInvert` names `refresh` as its exception.
`hky_strcasestrn` does not find a needle that starts with a byte from 128 on. A configuration file directly under "/" leaves `conf_prefix` as `prefix`
(`hky_process_options` looks for a slash behind the first character).

The title is modelled over a memory of bytes that holds arguments and environment, one behind
the other or with a gap; the loops of `hky_init_setproctitle` decide which variables lie in
line and are moved away. `hky_alloc` is read as in the pool: as written, the title could not
be set at all. `genenv`, `NGX_PREFIX` and `hky_slab_slots_` are read as what they stand for.

## Runs

| run | question | bounds | result |
|---|---|---|---|
| `pool` | does memory overlap, is a block lost or a descriptor closed twice, is the pool an arena | blocks of 128 bytes with an 80-byte header, sizes 33 and 49, 2 blocks, six heap blocks for five slots that are searched, 2 descriptors | holds |
| `hky_alloc` | does `hky_alloc` fail only when `malloc` does? | as `pool` | violated: line 11 assigns |
| `cycle_sockets` | sockets, files, failures at every step, foreign binds, inherited sockets | 3 reloads over 4 configurations, 4 addresses, 5 descriptors, 5 tries, 3 tables of inherited sockets, one of them with another backlog than the code believes | holds |
| `cycle_retire` | zones, pid files, retired cycles, connections, cleaner | 3 reloads over 5 configurations, 4 segments, 1 connection per cycle, a zone with `noreuse` in one configuration and without in another | holds |
| `cycle_inet6` | does each listener have the socket of its own address? | 2 reloads, two IPv6 addresses | violated: `hky_cmp_sockaddr` |
| `times` | lock, ring, readers | 3 slots, 2 texts, 2 updaters, 1 reader, 3 moments in any order | holds |
| `io` | are all bytes delivered, once and in order; do datagrams stay whole; is an event ever lost; is the end told | 5 chains of up to 5 buffers, 2 free chains, limits none and 3, 2 iovecs, 3 bytes in the kernel, 4 event methods; 8 chains of datagrams, limits none and 2, 2 iovecs, 2 datagrams in the kernel | holds |
| `timer` | is the tree red-black and sorted; does it do what a table of remaining times does | a counter of 12 moments, 4 events that come and go, crowds of 11, a lazy delay of 2, a loop that is at most 1 late | holds |
| `conf` | do words depend on where the buffer ends; do blocks and files stay nested | a buffer of 4; every text of up to 3 of 13 characters, alone and in 3 places; 24 pairs of files of which one includes the other; 4 texts after -g | holds |
| `logs` | does a message reach each log that asks for it; does nesting end; is each socket closed once by its owner | 3 cycles, 2 sound and 3 unsound configurations, two peers or another one with a file, 2 numbers for sockets, 2 cleanups per pool, 2 seconds | holds |
| `text` | do the text functions return what their input means; is the process set up as it should be | all texts of up to 3 to 6 of the bytes that a function tells apart, 4 things that lie behind a UTF-8 text, formats of up to 3 directives into 10 sizes of buffer, all IPv6 addresses of three values per word, URLs of each kind up to 5 characters behind each prefix, 4,300 days, titles over 2 arguments and 3 variables, 2 directories, zones of up to 20 pages | holds |
| `containers` | does every element stay where it should; do the links do what a sequence does | an array and a list in a block of 6 elements with 4 above it; two heads and three elements, two of them equal | holds |

Why the bounds are enough. A block has 48 bytes of room for sizes of 33 and 49: one fits once
and leaves waste, the other is large, aligned requests and the structures of cleanups and
large blocks fill what is left; the sixth heap block is one more than the slots that are
searched for reuse. The proofs make these numbers immaterial. Three reloads are what a failed
reload between two good ones needs, and what two retired cycles at once need; four
configurations keep, add, drop and reorder addresses and change a backlog and a log file, and
five keep, drop, resize and withdraw a zone and rename the pid file. Five descriptors are fewer than an old and a new cycle with a leak can need,
so that running out happens. Three slots let the ring wrap between two reads; the proofs make
this number immaterial. The chains of `io` have neighbours in memory and buffers in reverse
order, special buffers at every place, a file, and more iovecs than a call has; three bytes in
the kernel force every chain but the shortest through partial writes, and a limit of 3 is
reached in the middle of a buffer. With any one case of the insertion or the deletion left
out, the crowds of eleven break `Balanced`; a counter of 12 wraps within every timer's life.
The chains of datagrams have ends alone, in front and behind, none at the end, files and a bad
buffer before and after an end, and more parts than iovecs; the kernel is full after two.
Texts of up to nine characters through a buffer of four are refilled twice, with the end of
the buffer at every place of every construct. In `logs` a new log comes before the head,
between two others and last, each peer of a cycle may fail while the other sends, and two
cycles with two peers each want more sockets than there are. In `text` each limit of a type is
reached with a digit to spare, formats are cut at every byte, a code ends at every place
inside a group, six names in a tree make it turn, and the days lie around the first leap days,
the centuries of 2100, 2200, 2300 and 2400 and the last day; the proofs cover every number and
every day. In `containers` the block is full after a few pushes, so that arrays grow in place,
move and fail; three elements in two queues leave an element between two others, and two equal
ones show whether the sort is stable. The runs on cycles, sockets, configurations, texts and
containers say `CHECK_DEADLOCK FALSE` because a process that has exited, has used up its
reloads, has closed its connection or has read its configuration really stops, as a call does
that has returned and memory that is used up.

Fairness, in the two passing runs on cycles: a reload that runs goes on (it is straight-line
code in one thread); the event loop runs an expired timer; and a connection of a retired
cycle, which accepts no new ones, ends some day. Nothing is assumed about other processes or
about addresses becoming free: `ReloadEnds` holds because the tries are counted. In `io`
each process goes on with the call it is in, sends or reads while its event is ready, and
closes in the end; the network delivers, and the event loop passes reports on. Nothing says
that a process tries again while `ready` is off: that is what makes a lost event visible. In
`conf` the parser, which waits for nobody, goes on; no read has to fail.

The two violated runs are disagreements between the code and what it says of itself; the
`findings` of `PROJECT.json` quote both sides.

## Proofs

TLAPS checks, for all values of the constants that satisfy the named assumptions:

* `HkyPoolProofs!TypeCorrect`, `MemorySafety`, `LargeBlocksOwned`. The assumptions
  (`PoolAssumption`) are about sizes: the alignment divides the block, the headers fit into it.
  `MemorySafe` alone is not inductive. The invariant adds that each bump pointer is within
  its block, so that the subtraction in `hky_palloc_small` does not wrap, that an aligned
  pointer past the end is refused because the block's end is itself aligned, that `current`
  is a block of the chain, and that a fresh block has room for every size that is "small".
  `LargeOwned` needs only that the heap block being linked is new.
* `HkyPoolProofs!SearchFair`: every block in front of `current` has failed more than
  five searches. This is not obvious, since `hky_palloc_block` sets `current` to the block
  behind the last one that is tired. It holds because the counts fall along the chain: every
  failed search counts for all blocks from `current` on but the last, and a new block is
  the last. `ClosedOnce`: `NoDoubleClose`, from the invariant that armed cleanups name
  different open descriptors.
* `HkyPoolProofs!ImplementsArena`: `ArenaSpec`, step by step. `MemorySafe` lets the
  arena grant what the pool grants, `LargeOwned` makes the large list the blocks the
  arena owns, and the cleanup invariant makes one armed entry the debt of one descriptor.
* `HkyCycleProofs!Invariance`, and from it `TypeCorrect`, `NoMisuseAlways`, `FdsAlwaysOwned`,
  `ZonesAlwaysMapped`, `LiveAlwaysKept`, `PidfileAlwaysStays`, for any configurations,
  addresses, descriptors, number of reloads and failures. None of these properties is inductive
  alone: whether a `close` is right depends on who else has the number. The invariant `IInv`
  names five owners of open descriptors (listeners of the cycle in force that are not closed
  yet, its files, listeners the new cycle has opened, its files, and what is forgotten), says
  that they share nothing and that nothing else is open (`OwnersApart`), and moves descriptors
  between them step by step: a listener taken over stays with the old cycle until `Commit`. It
  adds how far each table has got (`Settled`, `Growing`), whose segment each zone has
  (`ZonesSound`, until one was withdrawn), and what the phases of `hky_init_cycle` rely on (`InStep`).
* `HkyCycleProofs!DescriptorsRight`: each listener has the socket of its own address, each file
  its own descriptor, and the kernel the backlog of each socket on which this process has
  called `listen`, unless the last call was refused. The hypothesis is `NoInet6`, no address is an IPv6
  one: `hky_cmp_sockaddr` never compares those, and without the hypothesis the statement is
  false (the run `cycle_inet6`). The invariant `NInv` adds to `IInv` that no two sockets have one
  name, that a bound unix socket has its path, and that for such sockets the kernel has the old
  backlogs up to the second `listen` and the new ones from it on.
* `HkyCycleProofs!ServiceImplemented`: `ServiceSpec`, under the same hypothesis. What clients
  see is computed from the descriptors; the proof needs that the open sockets are those of
  `OldSockets` and `NewSockets` and are bound to what their entries say. `FailedReload` is the
  abstract `GiveUp`, `CloseOldSocket` a `Drop`, a bind that succeeds a `Listen`, the end of
  `hky_init_modules` the point of no return or the exit, `Commit` the switch; every other step
  stutters.
* `HkySyslogProofs!Invariance`, `NestingGuarded`, `SocketsAlwaysOwned`: nested log calls keep off
  a peer in use, and every socket has an owner, for any configurations, levels and numbers of
  cycles, sockets and cleanups. These three do not depend on what a directive says. The invariant has three
  parts. The types include that a chain has no cycle, stated without an order: every set of its
  logs has one that leads out of it; so the loop along a chain ends, and an insertion finds its
  place. `Guarded` says that the busy peers are those whose cleanup has run and those of the
  writers on the stack, never both, and one writer each: this is why a call that fails while it
  reports a failure cannot come back to the same peer. `Owned`, until a number is closed twice,
  says that an open socket belongs either to a peer that has a cleanup for it or to a connect
  that is about to close it, that a peer's number is its own socket, that a peer being
  connected has none, and that no call is under way while a pool dies. Steps are proved by what
  they do to the stack: enter a peer, stay in it, leave it, return, or happen between calls.
* `HkySyslogProofs!MeantInvariance`, `LogsAlwaysReached`: `EachLogReached`, for any
  configurations of any directives, in any order. The invariant `Meant` says of every cycle
  whose files are open that there are an order of its directives, the default one included, and
  a row of all its logs from the head along `next` to the end, so that each log has the target
  of its directive and the level its words mean, and no level is higher than one before it
  (`Chain`); of the cycle that is being loaded, the same of the directives read so far. An
  insertion puts a number into both rows at one place, and an exchange with the head puts the
  new log first, by value (`Put`). A call at the `k`-th log of the row has been at the
  `k - 1` before, each of them at a level that wants the message, and goes no further than the
  first that does not (`Seen`); since the levels fall, those behind want it neither. Then what it
  has reached and what is promised are two rows of the same targets in another order, and so one
  bag (`SameBag`). That a directive wants what its level says (`LevelsMeant`) is an
  induction over its words: after each, the level is a plain one or a sum of debug bits, and
  which of the two is what the words so far say. The proof also needs that a log in the walk
  keeps its level, its target and its place while calls nest and disks fill, and that a reload
  that failed is undone by the destruction of its own pool (`Undone`), before which nobody
  logs through the cycle it left unfinished.
* `HkySocketsProofs!Invariance`, `EventsKept`, `ImplementsByteStream`, for any chains, limits,
  sizes, numbers of iovecs, room in the kernel and event methods. The stream is stated of bytes
  by their addresses, in order: `BytesInOrder` says that what was read, what has arrived and
  what is under way are the first bytes of what was asked, and that the chain holds the rest
  behind `sent`. Three lemmas about `HkyChain` carry this: what is gathered into iovecs is a
  beginning of the chain's bytes, wherever buffers are merged or a limit cuts
  (`hky_output_chain_to_iovec`); what is left after `n` bytes is the chain's bytes from the
  next one on (`hky_chain_update_sent`); the reader's iovecs are the first free bytes of its
  chain, in order and none twice. They are proved of sets of positions, from the number of bytes
  in front of each span, and hold for buffers of a stream and of datagrams. For events,
  `WriteReported` says that a sender whose bit is off has a report under way, and
  `ReadReported` that, with none under way, the bit is set if there is something to read, the
  count of kqueue is what has arrived, and an end that has come is known. `NoEventLost` alone
  is not inductive: a step that takes bytes must know that the count was right before it.
* `HkySocketsProofs!NoDatagramForgotten`: `NoDatagramStuck`, from the same kind of invariant
  (`UInv`). Here the kqueue count is only an upper bound, since a read that cut a datagram short
  subtracts what it was given; the bound is enough, and it needs that a step takes a whole
  datagram from the sum of those that wait.
* `HkySocketsProofs!MessagesKept`: `DatagramsWhole`, for the same constants. A chain's messages are
  its bytes and the places where one ends, `messages` what these were at first. The invariant
  `Whole` says that the datagrams handed over end exactly at the places passed, and that the
  chain in memory still holds the other bytes, cut at the other places. It needs that
  `hky_chain_update_sent` leaves the ends of the buffers behind where they were
  (`CutsOfRest`), and that what `hky_udp_output_chain_to_iovec` gathers stops at the first
  end (`DatagramRight`). For the network, `Traced` gives each datagram under way, waiting or
  read a datagram that was handed over, no two the same one; a loss or a new order only
  renumbers them. How often one was read is then counted by an injection.
* `HkyContainersProofs!ArraysInvariance`, `ElementsAlwaysKept`: `ElementsKept`, for any numbers
  of arrays, elements and allocations of others, and any sizes of the pool. `ElementsKept` alone
  does not say who may write where. The invariant `AInv` gives each array (its elements and its
  header), each part of the list and each region of others cells of its own among those the
  pool has given out (`Layout`), and says what is in them (`Kept`). The central lemma is
  `ArrayPlaced`: an array may take any new place made of its own cells and of cells that were
  never given out, and may give back any of its own. It covers all three ways to
  push and the destruction of an array; an array that is part of a structure is never at the
  end of what is given out, since a member lies behind it (`Lodged`). Growing in place needs that an array whose end is
  `last` really lies in the first block; giving the header back needs that it was the last cell
  in use. For the list, `Filled` says that the parts before the last are full, so that the
  position of an element is its part and its place there.
* `HkyContainersProofs!LinksImplementSequences`: `QueuesRight`, for any heads, any finite set of
  elements and any keys. The invariant (`LInv`) says that there is a row of elements for each
  head that its links lead through both ways, and that no element is in two of them (`Rings`).
  Such rows are the only ones the links can be read as (`RowUnique`). For each macro a lemma says
  what its assignments, one after the other, leave in every link (`InsertAfterIs`, `UnlinkIs`,
  `SplitAtIs`, `AddToIs`), and another that these are the links of the changed rows; links
  outside of the rings are as they were, so that nothing depends on what a removed element still
  holds. Adding to an empty queue turns out to be splitting the other in front of its first
  element. The sort goes by induction over the elements taken: those before are in order, equal
  ones as they stood, the rest untouched (`SortedTo`), and the way back from the predecessor of
  the next stops behind the last that is not greater (`BehindIs`). For the middle, `m` has gone
  half as far as `n` (`MiddleIs`). Both loops, and the way back, end because a row has no more
  elements than there are (`RowFits`).
* `HkyTimesProofs!TypeCorrect`, `StablePublication`, `TimesAgree`, `ReadersRight`, for every
  ring of at least two slots and any number of texts, updaters and readers. The invariant
  says where the holder of the lock is in its work and what the pointers look like there
  (all at the slot; all one behind it; those before `k` at it and the others behind); that
  every slot holds a moment the clock showed or has had its second cleared; and that a reader
  that is in time is `lag` or `lag + 1` steps behind the slot. TLC has checked that invariant
  too.
* `HkyArithmeticProofs!EarlierIsSooner`, `EarlierTransitive`, for a counter of any width: the test
  of `hky_rbtree_insert_timer_value` agrees with the time left to two timers, now or at any
  other moment from which they are within half the range of each other, and is transitive
  among them. This is what the trees of `HkyTimer` rest on. The argument is that a
  difference is right up to whole turns of the counter (`UntilTurns`), and that no turn fits
  into the bounds.
* `HkyArithmeticProofs!NextDecimalExact`, `NextHexExact`: the tests in front of a
  multiplication are exact, whatever the largest number of the type. `GmtimeFollowsCalendar`:
  the date that `hky_gmtime` computes for a day is followed, on the next day, by the date that
  the calendar says, for every day; it starts on 1 January 1970 and stays at the end of 9999.
  The argument counts years from March, so that a leap day is the last day of a year: the
  guess of the year is right or one too large, and the correction that follows mends it.
  `ZoneFits`: the pages of a zone lie inside it and behind their structures, and one page at
  most is lost to the alignment.

TLC has checked the inductive invariants of `HkyCycleProofs`, `HkySyslogProofs`,
`HkySocketsProofs` and `HkyContainersProofs` as well, on the instances of the runs
`cycle_sockets`, `cycle_retire`, `logs`, `io` and `containers`, except `Traced` and `Meant`, which ask for functions it
cannot enumerate (it checks `EachLogReached` itself), and `LInv`, which it checks as the refinement
`QueuesRight`.

Only model-checked:

* `Balanced`, `WalkInOrder` and the refinement `QueueSpec` of `HkyTimer`, which stands on the
  recursive operators of `HkyRbtree`: no theorem can be stated over those. What is proved of
  timers is the order that the tree rests on.
* `TokenRight` of `HkyConfReader`, and `NumbersRight`, `FormatBounded`, `CodecsInvert`,
  `OrdersSound`, `AddressesRight`, `DatesRight` and `SetUpRight` of `HkyText`. Each compares two
  definitions that go over a text of any length in different ways, many of them by folds or
  recursion; the library's induction theorems cannot be instantiated here. Where a recursive
  function has an interval as its domain, `NatSetInduction` of `HkyOrder` takes their place, as
  for the words of a directive and the sort of a queue; the steps of numbers, the calendar and
  the zone are proved on their own in `HkyArithmeticProofs`.
* Everything that is live (`RetiredFreed`, `ReloadEnds`, `Completes`, `Terminates`): liveness under
  fairness is out of the prover's reach.

`SkippedAreTired` is proved and
checked by no run: with blocks enough for it the pool is too large.

## Plan

Items 1 to 9 are done, in this order, most important first.

1. `HkyArena`, `HkyPool`, `HkyPoolProofs`: everything else lives in pools.
2. `HkyService`, `HkyCycle`: the reload, the server's core logic.
3. `HkyTimes`, `HkyTimesProofs`.
4. `HkyByteStream`, `HkyChain`, `HkyConnIO`: chains over a connection whose kernel takes any
   part of a write.
5. `HkyRbtree`, `HkyMsec`, `HkyTimerQueue`, `HkyTimer`, and the order of moments.
6. `HkyConfReader`: the token reader over its buffer and `hky_conf_parse`.
7. `HkyLog`, `HkySyslog`: the sorted chain and its swap of the head, the busy flag,
   reconnects and cleanups.
8. `HkyDatagram`, `HkySockets`, `HkyContainers`, `HkyText` and what they are made of.
9. `HkyArithmeticProofs`, `HkyCycleProofs`, `HkySyslogProofs`, `HkySocketsProofs`,
   `HkyContainersProofs`.
10. The numbers of log files over retired cycles, which needs `HkyCycle` and `HkySyslog` in one
    model.

## Not modelled

* The shared memory mutex and the allocator of a zone: the tree has `hky_shmtx_create`,
  `hky_shmtx_destroy` and `hky_slab_init`, and none of the functions that use what these set up.
* The module table, CPU information, `hky_darwin_init` and the reads of limits in
  `hky_posix_init`: each walks a static table or reads the platform once.
* `hky_save_argv`, `hky_pstrdup`, `hky_sort`, `hky_memcpy` and the tables of the check sums.
  `main` calls its parts one after the other and never calls `hky_process_options`; that
  function is modelled on its own.
* The Solaris form of the title, and the part of `hky_udp_unix_sendmsg_chain` that fails at
  a pending end under kqueue.
* A clock that is set back, under `HkyTimer`: all timers then wait for as long as it was set
  back (`hky_current_msec`, line 67 of `hky_times.c`), and nothing in the code reacts to it.
* The event loop, the process loop and the modules of the server, which are not in the tree.
