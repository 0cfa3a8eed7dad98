------------------------------ MODULE EventLoop ------------------------------
(***************************************************************************)
(* The event loop of include/eventloop.hpp and lib/eventloop.cpp, over the *)
(* part of the kernel it talks to: the descriptor table, the input queue   *)
(* and error flag of every socket, and one epoll instance.                 *)
(*                                                                         *)
(* The kernel is a record and every system call an operator from records   *)
(* to records, so that a piece of sequential code that makes several calls *)
(* is their composition and one atomic step of this single-threaded        *)
(* program.  The loop's clients are arbitrary here: between two events any *)
(* code may call the kernel and the loop in any order.                     *)
(***************************************************************************)
EXTENDS Integers, FiniteSets, Sequences

CONSTANTS
  Fds,        \* descriptor numbers the kernel can hand out (0 is not one)
  BadFd,      \* the -1 that a failed socket() returns
  Handlers,   \* EventHandler objects
  Items,      \* what a socket can queue: datagrams, connections
  NULL,       \* no handler, no event
  MaxEvents,  \* size of the array given to epoll_wait, 64 in the source
  MaxInput,   \* a socket's receive buffer; what does not fit is dropped
  MaxGen      \* bound: how often one descriptor number is handed out

ASSUME EventLoopAssumption ==
  /\ BadFd \notin Fds
  /\ NULL \notin Handlers
  /\ MaxEvents \in Nat \ {0}
  /\ MaxInput \in Nat \ {0}
  /\ MaxGen \in Nat

VARIABLES
  kernel,          \* the kernel's tables
  fd_handler_map,  \* the loop's std::map, NULL where it has no entry
  at,              \* what the only thread is executing
  batch,           \* events returned by epoll_wait and not yet looked at
  current          \* the event being handled and its handler

loopVars == <<kernel, fd_handler_map, at, batch, current>>

FdKeys == Fds \cup {BadFd}

Modes == {"EPOLLET", "level"}

Kernel == [open     : SUBSET Fds,
           gen      : [Fds -> Nat],       \* which file the number stands for
           input    : [Fds -> Seq(Items)],
           error    : SUBSET Fds,         \* pending socket error
           interest : SUBSET Fds,         \* registered with epoll
           edge     : SUBSET Fds,         \* registered edge-triggered
           ready    : SUBSET Fds]         \* the epoll ready list

Event == [fd : Fds, gen : Nat, error : BOOLEAN]

Running == [fd : Fds, gen : Nat, error : BOOLEAN, handler : Handlers]

At == {"main", "loop", "handler", "stopped", "undefined"}

LoopTypeOK ==
  /\ kernel \in Kernel
  /\ fd_handler_map \in [FdKeys -> Handlers \cup {NULL}]
  /\ at \in At
  /\ batch \in SUBSET Event
  /\ current \in Running \cup {NULL}
  /\ at = "handler" => current \in Running

-----------------------------------------------------------------------------
(* The kernel. *)

Free(k) == {fd \in Fds \ k.open : k.gen[fd] < MaxGen}

\* socket(): the number is free and now stands for a new file.
Socket(k, fd) ==
  [k EXCEPT !.open = @ \cup {fd}, !.gen[fd] = @ + 1]

\* close(): the file goes, and with it its epoll registration.
Close(k, fd) ==
  IF fd \in k.open
  THEN [k EXCEPT !.open = @ \ {fd}, !.input[fd] = <<>>, !.error = @ \ {fd},
                 !.interest = @ \ {fd}, !.edge = @ \ {fd}, !.ready = @ \ {fd}]
  ELSE k

\* recvfrom(): takes one item; the queue is not empty.
Take(k, fd) == [k EXCEPT !.input[fd] = Tail(@)]

\* accept(): the connection taken from the queue gets a number.
Accept(k, fd, conn) == Socket(Take(k, fd), conn)

\* What reports a pending error clears it.
ClearError(k, fd) == [k EXCEPT !.error = @ \ {fd}]

Readable(k, fd) == k.input[fd] # <<>> \/ fd \in k.error

\* epoll_ctl(EPOLL_CTL_ADD): EBADF on a closed number, EEXIST on a
\* registered one; otherwise a file that is ready is at once on the list.
EpollAdd(k, fd, mode) ==
  IF fd \in k.open \ k.interest
  THEN [k EXCEPT !.interest = @ \cup {fd},
                 !.edge  = IF mode = "EPOLLET" THEN @ \cup {fd} ELSE @,
                 !.ready = IF Readable(k, fd) THEN @ \cup {fd} ELSE @]
  ELSE k

EpollDel(k, fd) ==
  [k EXCEPT !.interest = @ \ {fd}, !.edge = @ \ {fd}, !.ready = @ \ {fd}]

\* What comes in puts a registered socket on the ready list, even one that
\* was there before: that is the edge of an edge-triggered descriptor.
Wake(k, fd) == [k EXCEPT !.ready = IF fd \in k.interest THEN @ \cup {fd} ELSE @]

Enqueue(k, fd, x) ==
  IF Len(k.input[fd]) < MaxInput
  THEN [Wake(k, fd) EXCEPT !.input[fd] = Append(@, x)]
  ELSE k

Raise(k, fd) == [Wake(k, fd) EXCEPT !.error = @ \cup {fd}]

\* One call on the kernel by a piece of code, none included.
Syscalls(k) ==
  {k} \cup {Socket(k, fd) : fd \in Free(k)}
      \cup {Close(k, fd) : fd \in Fds}
      \cup {ClearError(k, fd) : fd \in Fds}
      \cup {Take(k, fd) : fd \in {f \in Fds : k.input[f] # <<>>}}
      \cup {Accept(k, fd, conn) : fd \in {f \in Fds : k.input[f] # <<>>}, conn \in Free(k)}

-----------------------------------------------------------------------------
(* The loop's own operations; k is the kernel at the time of the call. *)

LoopInit ==
  /\ kernel = [open |-> {}, gen |-> [fd \in Fds |-> 0],
               input |-> [fd \in Fds |-> <<>>], error |-> {},
               interest |-> {}, edge |-> {}, ready |-> {}]
  /\ fd_handler_map = [fd \in FdKeys |-> NULL]
  /\ at = "main"
  /\ batch = {}
  /\ current = NULL

\* EventLoop::add: a failed epoll_ctl is only logged, and std::map::insert
\* leaves an entry that is already there alone.
Add(k, fd, mode, h) ==
  /\ kernel' = EpollAdd(k, fd, mode)
  /\ fd_handler_map' = [fd_handler_map EXCEPT ![fd] = IF @ = NULL THEN h ELSE @]

\* Mutant of Remove: the map entry goes, the epoll registration stays.
RemoveEntryOnly(k, fd) ==
  /\ kernel' = k
  /\ fd_handler_map' = [fd_handler_map EXCEPT ![fd] = NULL]

\* EventLoop::remove
Remove(k, fd) ==
  /\ kernel' = EpollDel(k, fd)
  /\ fd_handler_map' = [fd_handler_map EXCEPT ![fd] = NULL]

Run ==
  /\ at = "main"
  /\ at' = "loop"
  /\ UNCHANGED <<kernel, fd_handler_map, batch, current>>

Hot == {fd \in kernel.ready : Readable(kernel, fd)}

\* epoll_wait returns: at most MaxEvents of the descriptors that are ready.
\* An edge-triggered one leaves the ready list, a level-triggered one stays.
EpollWait ==
  /\ at = "loop" /\ batch = {}
  /\ \E S \in SUBSET Hot :
       /\ S # {}
       /\ Cardinality(S) <= MaxEvents
       /\ S = Hot \/ Cardinality(S) = MaxEvents
       /\ batch' = {[fd |-> fd, gen |-> kernel.gen[fd],
                     error |-> fd \in kernel.error] : fd \in S}
       /\ kernel' = [kernel EXCEPT !.ready = @ \ (S \cap kernel.edge)]
  /\ UNCHANGED <<fd_handler_map, at, current>>

\* epoll_wait fails with anything but EINTR: run() returns -1.
EpollFail ==
  /\ at = "loop" /\ batch = {}
  /\ at' = "stopped"
  /\ UNCHANGED <<kernel, fd_handler_map, batch, current>>

\* Mutant of Dispatch: what find() returned is not compared with end().
DispatchUnchecked(e) ==
  /\ at = "loop" /\ e \in batch
  /\ batch' = batch \ {e}
  /\ at' = "handler"
  /\ current' = [fd |-> e.fd, gen |-> e.gen, error |-> e.error,
                 handler |-> fd_handler_map[e.fd]]
  /\ UNCHANGED <<kernel, fd_handler_map>>

\* Mutant of Dispatch: "break" for "continue", and the events behind the one
\* without a handler are forgotten.
DispatchBreaks(e) ==
  /\ at = "loop" /\ e \in batch
  /\ IF fd_handler_map[e.fd] = NULL
     THEN batch' = {} /\ UNCHANGED <<at, current>>
     ELSE /\ at' = "handler"
          /\ batch' = batch \ {e}
          /\ current' = [fd |-> e.fd, gen |-> e.gen, error |-> e.error,
                         handler |-> fd_handler_map[e.fd]]
  /\ UNCHANGED <<kernel, fd_handler_map>>

\* Mutant of Dispatch: an event is handed to its handler over and over.
DispatchRepeats(e) ==
  /\ at = "loop" /\ e \in batch
  /\ batch' \in {batch, batch \ {e}}
  /\ IF fd_handler_map[e.fd] = NULL
     THEN UNCHANGED <<at, current>>
     ELSE /\ at' = "handler"
          /\ current' = [fd |-> e.fd, gen |-> e.gen, error |-> e.error,
                         handler |-> fd_handler_map[e.fd]]
  /\ UNCHANGED <<kernel, fd_handler_map>>

\* One turn of the for loop: the handler is looked up now, not when the
\* event was collected, and an event without one is skipped.
Dispatch(e) ==
  /\ at = "loop" /\ e \in batch
  /\ batch' = batch \ {e}
  /\ IF fd_handler_map[e.fd] = NULL
     THEN UNCHANGED <<at, current>>
     ELSE /\ at' = "handler"
          /\ current' = [fd |-> e.fd, gen |-> e.gen, error |-> e.error,
                         handler |-> fd_handler_map[e.fd]]
  /\ UNCHANGED <<kernel, fd_handler_map>>

\* How a step of client code ends: it goes on, handle_event returns, the
\* process exits, or the program does something the language leaves undefined,
\* after which nothing is said of it.
Stay == UNCHANGED <<at, current>>
Return == at' = "loop" /\ current' = NULL
Exit == at' = "stopped" /\ current' = NULL
Undefined == at' = "undefined" /\ current' = NULL

-----------------------------------------------------------------------------
(* Arbitrary clients and an arbitrary network. *)

\* A step of client code: at most one system call, then at most one call on
\* the loop.
ClientStep ==
  /\ at \in {"main", "handler"}
  /\ \E k \in Syscalls(kernel) :
       \/ kernel' = k /\ UNCHANGED fd_handler_map
       \/ \E fd \in FdKeys, m \in Modes, h \in Handlers : Add(k, fd, m, h)
       \/ \E fd \in FdKeys : Remove(k, fd)
  /\ \/ Stay
     \/ at = "handler" /\ Return
     \/ Exit
     \/ Undefined
  /\ UNCHANGED batch

HandlerReturns ==
  /\ at = "handler"
  /\ Return
  /\ UNCHANGED <<kernel, fd_handler_map, batch>>

Arrive(fd, x) ==
  /\ fd \in kernel.open
  /\ kernel' = Enqueue(kernel, fd, x)
  /\ UNCHANGED <<fd_handler_map, at, batch, current>>

\* A queued datagram turns out to be damaged and the kernel drops it.
Spoil(fd) ==
  /\ kernel.input[fd] # <<>>
  /\ kernel' = Take(kernel, fd)
  /\ UNCHANGED <<fd_handler_map, at, batch, current>>

SocketError(fd) ==
  /\ fd \in kernel.open
  /\ kernel' = Raise(kernel, fd)
  /\ UNCHANGED <<fd_handler_map, at, batch, current>>

Network == \E fd \in Fds : \/ \E x \in Items : Arrive(fd, x)
                           \/ Spoil(fd)
                           \/ SocketError(fd)

LoopNext ==
  \/ Run
  \/ EpollWait
  \/ EpollFail
  \/ \E e \in batch : Dispatch(e)
  \/ ClientStep
  \/ HandlerReturns
  \/ Network

LoopSpec == LoopInit /\ [][LoopNext]_loopVars

-----------------------------------------------------------------------------
(* What the loop promises to any client. *)

\* Whatever is registered with epoll is open and has an entry in
\* fd_handler_map: add and remove keep the two tables together under any
\* order of calls, so run() fails to find a handler only for an event that
\* was collected before the descriptor was removed or closed.
InterestHasHandler ==
  \A fd \in kernel.interest : fd \in kernel.open /\ fd_handler_map[fd] # NULL

\* run() has returned, or the program has died.
Halted == at \in {"stopped", "undefined"}

\* The step hands the event to the handler that the map has for its descriptor.
IsHandled(e) ==
  /\ fd_handler_map[e.fd] # NULL
  /\ at' = "handler"
  /\ current' = [fd |-> e.fd, gen |-> e.gen, error |-> e.error,
                 handler |-> fd_handler_map[e.fd]]

\* The step passes over the event, for which there is no handler (any more).
IsSkipped(e) == fd_handler_map[e.fd] = NULL /\ UNCHANGED current

\* No event that epoll_wait returned is lost: it leaves the batch only when it
\* is handed to the handler its descriptor has at that time, or because at its
\* turn there is none.  Neither the events before it, those of removed
\* descriptors included, nor what their handlers do to the loop's map and to
\* the descriptors ends the for loop early.
NoEventIsLost ==
  [][\A e \in batch : e \in batch' \/ IsHandled(e) \/ IsSkipped(e)]_loopVars
=============================================================================
