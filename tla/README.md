# shadowc in TLA+

shadowc is a small C++ shadowsocks proxy in the making: an epoll event loop, an
asynchronous DNS resolver that lives on it, the first lines of a TCP relay, a
stream cipher wrapper, a `main()` that so far reads its command line, and the
stand-alone program the resolver was written from. This directory models all of
these, checks them with TLC and proves their most important properties with TLAPS.

## The system

| Part | State | Operations | Modelled in |
|---|---|---|---|
| `EventLoop` (`lib/eventloop.cpp`) | epoll descriptor, `fd_handler_map` from descriptor numbers to handler pointers | `add`, `remove`, `run` | `EventLoop` |
| `DNSResolver` (`lib/asyncdns.cpp`) | `dns_socket`, pointer to the loop, `hostname_to_cb`, `hostname_status_map` | `create_dns_socket`, `add_to_loop`, `resolve`, `close`, destructor, `handle_event` → `handle_data` → `call_callback` | `DNSResolver`, `LookupService` |
| DNS wire format (same file) | buffers on the stack | `change_to_dns_name_format`, `send_req`'s query, `parse_response`, `read_name` | `DnsMessage` |
| `TCPRelay` (`lib/tcprelay.cpp`) | listening socket, loop pointer | constructor, `add_to_loop`, `handle_event` (accept) | `TCPRelay` |
| `Cryptor`, `OpenSSLCrypto` (`lib/cryptor.cpp`, `lib/crypto/`) | cipher contexts, IVs, `iv_sent` | constructor, destructor, `encrypt`, `decrypt` | `Cryptor`, `ByteStream` |
| `server` (`src/src/server.cpp`) on `cxxopts.hpp` | `argc`, `argv`, the map of options, their values and counts, the iterator over positional options | `add_options`, `parse_positional`, `parse`, `operator[]`; `main` | `CommandLine`, `Programs` |
| `dns.c` | `dns_servers`, the buffer, three arrays of records | `get_dns_servers`, `ngethostbyname`, `ReadName`, `ChangetoDnsNameFormat`; `main` | `DnsPrototype`, `Programs` |
| `utils` | – | `fcntl`, a read of `/dev/urandom` | not modelled |

How they interact. The process has one thread. `EventLoop::run` collects up to
64 events with `epoll_wait` and calls, one after the other, `handle_event` of
the handler it finds in `fd_handler_map` under the event's descriptor number.
A resolver registers itself (`this`) under the number of its UDP socket, edge
triggered; `handle_event` reads one datagram, parses it, and calls the
application's callbacks for the name of the first A record; those callbacks may
call any operation of any resolver before they return. Descriptor numbers are
shared by everything: the loop's map, the resolvers' memory of their sockets,
the kernel, and the events of a batch that has been collected but not handled.

What is hard here, although there is only one thread:

* application code runs in the middle of `call_callback`'s iteration, and
  between the collection of an event and its handling;
* the four tables that hold a descriptor number (kernel, epoll set,
  `fd_handler_map`, `dns_socket`) are updated by different operations, some of
  which fail silently or forget one of them;
* numbers are reused as soon as they are free;
* edge-triggered events, queued datagrams, spurious wake-ups, socket errors;
* replies come twice (two servers get the same query), in any order, late, or
  not at all;
* the wire format is built and taken apart byte by byte, with one reader that
  runs through compressed names and through records read in different ways;
* the option parser compacts the array it is reading, and two pieces of code move
  its index;
* a cipher stream is cut anywhere, both ends may speak first, and one object
  serves both directions.

What makes the parts correct, in a line each: the loop's map and the epoll set
agree and no event of a batch is lost, whatever handlers do; a resolver's callbacks are
called in order, at most once, with an address of their name, and none is
dropped; a resolver keeps the socket it has, and a closed one is silent; a
lookup whose reply comes is answered; a query names its host, fits its array, and
a reply is read as it was sent; a relay keeps its socket and accepts what waits;
what one end encrypts the other gets, in order; a program sees of its command
line what was written there, and of what stands in front of `--` no argument is lost
or read twice. `PROJECT.json` lists the hazards line by line, with the properties that
cover each.

## The modules

`EventLoop` - the loop over a model of the kernel. The kernel is one record
(open descriptors, a generation per number, input queues, pending errors, the
epoll interest set, which entries are edge-triggered, the ready list), every
system call is an operator on records, and a piece of sequential code is their
composition. `at` is what the thread executes: `main` before `run()`, the
`loop`, a `handler`, `stopped` (`run()` returned, or the process exited), `undefined` (the program did
something the language leaves undefined; nothing is said of it afterwards).
`EpollWait` fills `batch`, `Dispatch` is one turn of the `for` loop with its
`find()`, `Add` and `Remove` are the operations, `ClientStep` is any client: at
most one system call and one call on the loop. `batch` is a set because the
order of events in the array is the kernel's.

`DNSResolver` - `EXTENDS EventLoop`; several resolvers, the application, the name
servers. Each public operation is one action. An event is `HandleEvent`
(`ErrorEvent`, `DataEvent`, `EmptyEvent`), and `call_callback` is a loop of steps
held in `frame`, one per callback, so that application calls interleave with
it. The status kept in `hostname_status_map` is a set of names: its only value
is 0 and nothing in the code reads it. A `sendto` from `resolve()` adds to
`inflight`, which replies take from. `EmptyEvent` models what the code does when
`recvfrom` fails: its result is ignored and an uninitialised buffer is parsed,
so the step may see an old datagram, nothing, or undefined behaviour. `Allowed`
switches what the application, the network and the stack may do.
`asked`, `answer` and `closed` are history.

`LookupService` - the abstract specification of the resolver: per name, a queue
of waiting calls, answered in order with an address of that name.
`DNSResolver` implements it under `waiting <- Waitings`: while `call_callback` is
at element i of a vector those behind it wait, otherwise the whole vector does.

`DnsMessage` - the wire format. Bytes matter here and only here: where the
terminator is written, what a pointer is, how far the reader moves. A query is
written into an array of `Room` bytes, whose old contents are any byte of `Junk`.
The server side is written from RFC 1035 and external to the code. It reads a name
label by label (a length of at most 63) up to a zero or a pointer (a byte from 192
on); a pointer in the question can only lead in front of it, into the header, which
is why a query has one here (`QueryHeader`, with the process id as constant `Pid`). What
it makes of a query is `Understanding`. It answers a
query it understands with addresses, an alias and the address behind it, a
record of a type whose rdata is not a name, and with authority and additional
sections, every name written out or compressed in every way, into the question
or into the rdata of another record. Loops are sequences of their turns: `ReadByte` is a
turn of the first loop of `read_name` (bytes and pointers), `MoveLabel` one of its
second, `ParseRecord` one of the loop of `parse_response`. A record was read
`AsMeant` if its owner, type and, unless the type is another one than the code
knows, its rdata are the server's.

`DnsPrototype` - `EXTENDS DnsMessage`; `dns.c` against the same servers. It differs
where the program does: the conversion of the host works label by label behind an
appended dot, all three sections are read by one reader (`ReadRecords`,
`ReadAuthorities`), authority records
always as names, and what is printed is kept in `printed`. Both a failed `sendto`
and a failed `recvfrom` are only reported, so `ReceiveFails` has the program read
back its own query.

`TCPRelay` - `EXTENDS EventLoop`; several relays. The constructor is `GetAddrInfo`,
a `TryAddress` per address (a socket that cannot be bound is left open, and the last
one stays, bound or not) and `Listen`; `HandleEvent` is the accept handler. A
listening socket's queue holds connections; `accept()` takes one and a descriptor
number, which nothing gives back.

`CommandLine` - `Options` of `cxxopts.hpp` and the `main` that uses it. `Declare` is
one call of `add_options()`'s object, `Plain`, `Flag`, `EndOfFlags` and
`EndOfArguments` one turn of the first loop of `parse()`, `Defaults` the second loop,
`Remaining` a turn of the third, `Finish` the end, `Report` what `main` does with
the result. An exception is a final `stage`, as nothing catches any. The texts
of arguments are atoms: the constants say what `option_matcher` makes of each
and which are read as an int. What the arguments mean is defined a second
time below the specification, from their places alone (`Role`, `FlagsOf`, `ValueAt`),
and the properties compare the two.

`Programs` - a behaviour is one run of one of the executables that end by
themselves: `server`, `dns`, or one lookup of `test_asyncdns` seen as messages. They
share nothing; the module is there to check them under one specification.

`ByteStream` - the abstract promise of a cipher pair: each end gets a prefix of
what the other gave.

`Cryptor` - the `Cryptor` objects of the two ends and the connection between
them. `Encrypt` puts the vector in front of the first text; `Decrypt(p, n)` is
given the next n bytes, for any n; `GetDecipher` is what `get_cipher` does for the
decrypting side. libcrypto is a keystream named by its vector: a byte is
decrypted only at the place where it was encrypted. `FirstRead` says how many
bytes the first call of `decrypt` has at least; `given` and `got` are history.

`MCEventLoop`, `MCDNSResolver`, `MCDnsMessage`, `MCPrograms`, `MCTCPRelay`, `MCCryptor`
hold the instances. Definitions
marked "Mutant of" are plausible mistakes, used to show that each property can
fail; no specification uses them.

## The runs

| Run | Instance | Shows |
|---|---|---|
| `loop` | 2 numbers, 1 handler, batches of two events | types; whatever epoll watches is open and has a handler |
| `service` | 1 resolver, 2 names (one sometimes an alias), 3 calls; replies duplicated or spoilt, queries malformed | implements `LookupService`; when a name's callbacks are through none is left out |
| `lifecycle` | 3 resolvers on 3 numbers, batches of three; close and delete | sockets stay owned, closed resolvers are silent, an empty read means a stale event, and each event of a batch is handed to its handler or skipped because there is none |
| `misuse` | the same with use after `close()` and socket errors | still implements `LookupService`, still a legal client of the loop, whose entries are under the resolvers' own numbers |
| `live` | 2 resolvers, one name each, 3 calls, no loss | a lookup whose reply is on its way is answered |
| `programs` | hosts of up to 5 characters and one of 29 for an array of 48 bytes, 2 aliases, 7 values of the stray byte, every compression; command lines of up to 3 or 4 arguments for `server` and for other sets of options | a query is one for another name only if the stray byte is 192, is the right one if it is zero, and fits up to 19 characters less than the array has; answers are read as sent, all sections printed as sent; the parser ends, overwrites no argument it has not read, keeps in order and without gaps what it cannot use in front of `--`, and `main` gets what the flags say |
| `relay` | 2 relays, 2 connections, 4 numbers, 2 addresses to try | relays keep their own sockets, are legal clients of the loop, and a waiting connection is accepted or given up while there are numbers and its relay has not failed |
| `cryptor` | vector of 2 bytes, 3 bytes of text each way | implements `ByteStream`; everything arrives |
| `stuck_reply`, `error_reuse`, `alias`, `terminator` | see Findings | a statement of the repository that the code does not keep |

Bounds and why they are enough. Three resolvers on two numbers are the fewest
where one resolver closes a second whose number a third then gets while an event
for the second waits in the batch; `lifecycle` has a third number, as an event is lost
only in a batch of three: one whose handler removes the second, the one skipped, and
one behind it. Three calls are the fewest with one callback
running, one behind it and one added from within. `MaxGen` = 2 lets a number be
reused once, which is what makes an event stale. `MaxEvents` = 1, 2 or 3 makes
batches of more than one event, or full ones, (64 in the source); a receive buffer of 1, 2 or 4 datagrams
(`MaxInput`) overflows in the first two and never does in the runs that claim an
answer. Names of five characters give one to three labels and final dots; the name of
29 is the longest whose query, terminator and all, fits into an array of 48 bytes
(`Room`, 128 in the source, where that is 109: the limit moves with the array). The stray
byte is each kind of byte there is: zero, a length that leads into, to or past what
follows, neither a length nor a pointer (64), a pointer into the header (192) and one
past it (193). `Pid` is 258 in `programs`, whose bytes 1 and 2 are read as a label, and 5 in
`terminator`, whose first byte ends the name at once. A
record of another type comes last in its section and in the message: the code
misreads whatever follows one, so nothing could be said of it. Two records of a
section are the fewest where the second depends on how the first was read, and a
name server with its address the fewest where a name points into a record that
points into the question. Three arguments are the fewest with a flag, its value and
something behind them, four with two to keep around a flag; the options declared
are those of `server`, and sets with bool, implicit, default, vector and
positional options, a name declared twice, one not declared, and one without a
long name.
Four numbers for two relays and two connections are enough to accept both and
too few once a bind has failed. In `cryptor` a vector of two bytes and texts of three can be cut
behind the vector, inside the text and between calls, with `FirstRead` = 2: the
first chunk holds the vector, which cryptor.cpp:111 takes for granted. With
`FirstRead` = 1 the same run shows `Garbage` in `got`: the vector is read past the
end of the chunk and every byte after it is out of place. A caller has to see
to it; no caller exists yet. Symmetry is used for resolvers, numbers and calls in runs that check safety only.
Deadlock is not checked: the application need not call anything and a loop with
no events waits, as the program does.

Fairness. `DNSResolver`'s `FairSpec` is weakly fair to the loop, to handlers
and to callbacks: a single thread that is not blocked goes on; so is
`TCPRelay`'s, constructor included, and `CommandLine`'s parser. `Cryptor`'s `FairSpec` has each
end read what has come. `DNSResolver`'s also assumes that a reply in flight arrives; the run
`live` is about replies that come, since the code never sends a query again.
Nothing obliges the application to call the API.

## Findings

* `stuck_reply`: the socket is registered edge-triggered but `handle_event` reads
  one datagram per event (asyncdns.cpp:276). Two replies queued before
  `epoll_wait` returns give one event; the second lookup waits until something
  else arrives, perhaps for ever. With two servers answering one name this goes
  unnoticed, the leftover being a duplicate.
* `error_reuse`: on `EPOLLERR` the socket is closed but stays in the loop's map
  (asyncdns.cpp:267-271). `EventLoop::add` does not replace an entry, so the next
  resolver that gets the number is not registered, against the comment at
  asyncdns.cpp:246.
* `alias`: `call_callback` gets the owner of the first A record. Behind a CNAME
  that is the canonical name, for which nobody waits.
* `terminator`: `*++dns = '\0'` (asyncdns.cpp:187) leaves one uninitialised byte
  between name and terminator. A zero there does no harm and almost any other byte has the
  query dropped; but 192 makes a compression pointer of itself and the
  terminator, which leads to offset 0, the header. The name then ends where the query
  says, and goes on with what the header holds: the process id and the flags, read
  as labels (a process id whose low half is below 256 begins with a zero and adds none). `programs` shows that this is
  the only way to another name. Such a pointer is formally one to a prior place of the
  message; a server may also refuse it.

## The proofs

`EventLoopProofs`, `DNSResolverProofs`, `TCPRelayProofs`, `CryptorProofs`,
`CommandLineProofs`, `NameProofs` and `ReplyProofs` hold for every set of
descriptors, handlers, resolvers, relays, names, calls, datagrams, bytes and
command lines, every batch size and every bound, from the named assumptions of the
modules and those of the theorem.

`Recursion` is what the last three stand on. The library's induction theorems take a
predicate or an operator as a parameter and cannot be instantiated by the provers
at hand, so induction is stated for a set of numbers or of finite sets (`Induction`,
`SetInduction`), and recursion for a function of steps. `NatRecursion`,
`SetRecursion` and `UpRecursion` show that a function defined by recursion exists: over
the numbers, over a finite set by a choice of its next element, and over places
that only move up. That is what gives `f[x] == ... f[y] ...`, a `CHOOSE` over
functions, its defining equation. `FoldBySteps` turns a fold over a sequence into
the values g[0], ..., g[n] after each of its elements. The loops that read a reply may
follow a pointer anywhere, so the model has them turn by turn, and the recursion is
over the number of turns.

* `LoopTypeCorrect`, `InterestIsHandled`, `EventsAreKept`. The invariant is `InterestHasHandler`
  with `LoopTypeOK`. The part "is open" is needed for the induction: `add` puts a
  handler in the map before or without epoll's consent, and `close()` drops the
  registration with the file, so no order of calls leaves a watched number
  without an entry. `EventsAreKept` is an action property: `EpollWait` starts from an empty
  batch, and a turn of `Dispatch` takes one event out of it, having looked its descriptor up
  in the map of that moment (`BatchStep`).
* `TypeCorrect`. `TypeOK` is not inductive alone: the step from one callback to
  the next reads the vector at `frame.i + 1`. The invariant is `TypeOK` with
  `FrameInVector`: while callbacks are called and the resolver lives, its name
  has a vector, the iteration is inside it, and the address is one of that name.
* `ClientsOfTheLoop`: every step of `DNSResolver` is a step of `LoopSpec` or a
  stutter, so `InterestIsHandled` and `EventsAreKept` carry over (`ResolversAreHandled`).
* `ResolversServe`: `DNSResolver` implements `LookupService`. Appending from
  within a callback appends to the part that still waits (`RestOfAppend`), the
  next callback is its head (`RestHeadTail`), and `clear()` at the end drops
  nothing because by then nothing waits. Deleting a resolver abandons its calls.
* `RegisteredCorrect`: an entry of the loop's map is always under the resolver's
  present number; inductive with the types, misuse and errors included.
* `SocketsAreOwned`, `ClosedStaySilent` assume `Disciplined`: no use after
  `close()` and no socket errors, which the run `error_reuse` shows to be needed.
  The invariant is `Ownership`: `SocketsApart` (sockets of resolvers in use are
  open and distinct, and the map leads only to such resolvers) makes the socket
  given to a resolver fresh for the map as well.
* `EmptyReadsAreStale` assumes `Disciplined` and `KeepsData` (no queued datagram
  fails its checksum). `EventInv`: an event of the batch, or the one about to be
  handled, is of an earlier file of its number, or its file is closed, or there is
  something to read; no number is in the batch twice or also being handled, so
  nobody else takes what there is. `Ownership` excludes the closed file when the
  event is dispatched.
* `EveryWaiterServed` assumes nothing of the application. `NobodyForgotten`: a call
  of a living resolver that has no address stands in the vector of its name, behind
  the element `call_callback` is at if it is going through that vector. So when
  `clear()` is reached there is nobody left in it.
* `RelaysAreClients`: the steps of `TCPRelay` are steps of `LoopSpec` as well, so
  the same holds for relays (`RelaysAreHandled`). `RelaysKeepSockets`
  needs `SocketInv`: sockets are open and apart also while a constructor is
  trying addresses, a relay in the loop is past its constructor, and the
  map and the event being handled know nothing but the sockets of relays in
  the loop. So the entry `add` wants to make is always free, and the branch
  of `handle_event` for other descriptors is never taken.
* `UnreadStaysIntact`: `ParserInv` says that 1 <= `nextKeep` <= `current` <= `argc` and
  that `argv` from `current` on is as it was given, from the first declaration
  until `argc` is cut. The step that writes `argv[nextKeep]` writes at a place
  already read, and the one that moves `current` by two has seen that there is an
  argument to take; hence the loop's `current != argc` is never jumped over.
* `ParserTypeCorrect`. `ParserTypeOK` is inductive only with `TypeInv`: what an
  option's value is depends on the option it is stored under, and the proof follows
  `ParseNames` through the letters of a group such as `-abc`. The constants' assumption,
  `CommandLineAssumption`, is about declarations and the table of texts only.
* `OthersKeptInOrder`: `KeptInv` says, before each argument is read, that the one in front of
  it does not ask for it as a value nor end the flags (`RoleHere`); that the arguments kept so
  far are the last of those in front of it that are neither flags nor values, all of them
  where there are no positional options; and that once one was kept no
  positional option is left, so that the next one cannot be taken away behind
  it (`KeptSuffix`). `Role` recurs over the arguments, hence `Recursion`. Nothing is said of what
  stands behind `--`: `parse()` leaves none of it in `argv`, and drops what no positional
  option takes (cxxopts.hpp:1232-1241).
* `ConfigIsAsGiven`: `EntriesInv` (until an exception, the map has for every name the
  first option declared with it, and only such) and `ConfigInv` (an option's value is
  what the last of its flags read so far gave it, nothing if there was none, in
  which case its count is 0; the defaults then fill exactly those) carry
  `ConfigAsGiven` to the end. Two facts about the model came out of the attempt and
  are now in it: an empty text given to an option that has an implicit value counts as
  that value, and an option that is positional under another of its names is
  positional.
* `QueriesFit`, `OnlyThePointer`, `OnlyTheByte`, `PrototypeAsksForHost`. Both conversions
  are followed character by character (`PutByCharacters`, `ConvertByCharacters`) with
  an invariant each: what k characters have written is the labels so far, each
  behind its length, with the last label still open (`PutSoFar`, `ConvertSoFar`). At
  the end the buffer holds the labels (`LaidOut`); the place behind them is
  `Behind(s)`, the terminator there or, in `change_to_dns_name_format`, one place later.
  `strlen` ends the query at the first zero, which is at one of the two (`QueryAsks`). A
  server reads label by label (`ReadThrough`) and comes to `Behind(s)` with the labels of the
  host. A zero there ends the name where the query says it ends (`Understands`). Any
  other byte below 192 makes the name run into or past the five bytes that follow, and
  none of the ways through them ends it in the right place; one from 192 on ends it there, in a
  pointer to (d - 192) * 256 (`Misunderstands`), which is in the header only for 192 (`SpoiltByByte`).
  The step invariant is each property with `host \in Hosts`.
  The last three theorems assume `ProperHosts`: labels of 1 to 63 characters, at most 253
  in all, as RFC 1035 has names. Without it they are false: for `a..b` the query's
  name ends at the empty label and is one for `a`, and no server reads the length of a longer
  label as one. The two about `send_req` also assume `RoomForHosts`, that the array
  has room for the names; the hosts of the run `programs` satisfy both, up to the last byte.
  `QueriesFit` assumes neither.
* `CryptorsStream`: a pair of Cryptors implements `ByteStream`, assuming
  `VectorUncut` (`FirstRead` >= `IvLen`). The invariant relates the two ends of each
  direction: the sender's keystream stands at the length of its text (`Sender`),
  the reader's is the same keystream at the length of what was handed out
  (`Reader`), and what lies between them is the stretch of the stream from the one
  place to the other (`Between`, `Stretch`). Lemmas join, cut and extend stretches,
  so that every way of cutting the stream is covered without induction over it.
  `TypeCorrect` there follows from the same invariant.

* `RepliesAreRead`, `RepliesArePrinted`. The invariant is `ReplyIsRead`: a query that waits
  was made for the host, and from `Serve` on the reply is one whose reading, by
  `parse_response` and by `ngethostbyname`, gives what the server meant (`ReadRight`); then what
  was read is, and what is printed. Only the step `Serve` is hard; the argument has
  three layers.
  A name: in the bytes of a message stands a text, with a zero or a pointer behind
  it (`Stands`). `read_name`'s first loop takes the text, follows the pointer to what is
  `Spelled` there, by way of further pointers or not,
  and stops at the zero after no more turns than the message has bytes (`RawInFull`,
  `RawByPointer`), and `count` is the length of what stands at the place itself; its second
  loop is followed label by label (`MovesByTurns`, `Moved`) and turns the labels
  into the dotted string (`ToDottedIs`). Together: `ReadsName`, for each of the server's
  `Encodings`.
  A record: what a turn of the loop gives is the record that was meant, and the reader
  is behind it (`ParseIs`; `AddressIsRead`, `NameIsRead`), except behind a record of
  another type (`OtherIsRead`), where nothing is said of the reader.
  A reply: a query that the server answers is the labels it reads and one zero, with nothing
  in them that looks like a pointer (`MadeIsQuestion`, from `LabelsStand`), so the records begin where the code thinks, and the
  question is a place names may point to; each of the server's answers, with each
  of its other sections, is then laid out record by record (`AnswersRead`, `ExtrasRead`).
  The hypotheses, all true of the instance of `programs`: `LabelsFit` (a host has at most
  255 characters and no label of more than 63, as RFC 1035 has it; `label_len` wraps at
  256, and a length of 192 or more reads as a pointer), `RoomForHosts`, and `ProperAliases` (the names a
  server answers with have labels, of 1 to 63 bytes each, none of which is 192 or more,
  which `read_name` would take for a pointer even inside a label). Empty labels in a host
  are allowed: its query is answered for the labels in front of them or dropped.

Only model-checked: liveness (`ReplyServesLookup`, `ConnectionIsAccepted`,
`EverythingArrives`, `ParseEnds`), which is out of the prover's reach like everything about ENABLED. Every other property of a passing run is stated by
a theorem. What the server side itself does is not proved against anything: `Encodings`,
`Answers` and `Extras` are the definition of a server that follows RFC 1035, within at
most two records of a section.

## Plan

1. `EventLoop` and its proofs - done.
2. `LookupService`, `DNSResolver`, the refinement and ownership proofs - done.
3. `DnsMessage` with other record types and the array's bound, `DnsPrototype` - done.
4. `AllWaitersServed` and `EmptyReadIsStale` as theorems - done.
5. `TCPRelay`, a second kind of client of `EventLoop`, and its proofs - done for the
   code there is. Relays and resolvers on one loop meet only through `LoopSpec`, which
   both are proved to keep to.
6. `ByteStream` and `Cryptor` with the refinement proof - done.
7. `CommandLine` and its proofs, `Programs` - done.
8. `Recursion` and `NameProofs`: the queries of both programs - done.
9. `read_name` turn by turn, its string for every encoding of a name, and `ReplyProofs`:
   the replies, record by record - done. With it every property of the runs but liveness
   is proved.
10. Left: sections of more than two records, for which `RecordTurns` would have to give
   way to an invariant of the loops, and the stages of the relay when the code has them.

## Not modelled

`epoll_create1` failing (the process exits), libcrypto calls that fail,
`TCPRelayHandler` (a constructor that nothing calls), `EINTR` (the loop just asks again),
logging, `inet_pton` on the two fixed servers, IPv6, replies cut short or made up by
a server that does not follow RFC 1035, what a server says to a query whose name goes on in
the header (if it does not refuse it, that there is no such name), the heap (bytes written or read one place
outside a block), the arrays of 20 records and 100 characters in `dns.c`, the relay
stages that `tcprelay.cpp` only names in a comment, `utils` (pure I/O: that sockets
do not block is built into the step that reads an empty queue), the tests. Of
`cxxopts.hpp`: the help text and its layout, which no program here asks for, and the
regular expressions, whose verdict on each text is given as a table.
