------------------------------- MODULE TCPRelay -------------------------------
(***************************************************************************)
(* TCPRelay of include/tcprelay.hpp and lib/tcprelay.cpp as far as it is   *)
(* written: relays that listen and accept, on one event loop.  The queue   *)
(* of a listening socket holds the connections to be accepted; nothing in  *)
(* the code closes or even keeps an accepted one.                          *)
(***************************************************************************)
EXTENDS EventLoop

CONSTANTS
  Relays,       \* TCPRelay objects, EventHandlers of the loop
  MaxAddresses  \* bound: addresses in the list of getaddrinfo

ASSUME TCPRelayAssumption ==
  /\ Relays \subseteq Handlers
  /\ MaxAddresses \in Nat \ {0}
  /\ NULL \notin FdKeys

VARIABLES
  server_socket,  \* [Relays -> descriptor, NULL before the constructor's loop]
  constructing,   \* the relay whose constructor is running, NULL if none is
  addresses,      \* how many of its addresses are still to be tried
  bound,          \* relays whose socket has the address they were given
  relay_loop      \* [Relays -> the pointer to the loop is set]

relayVars == <<server_socket, constructing, addresses, bound, relay_loop>>
vars == <<loopVars, relayVars>>

Constructed(r) == server_socket[r] # NULL /\ constructing # r

TypeOK ==
  /\ LoopTypeOK
  /\ server_socket \in [Relays -> FdKeys \cup {NULL}]
  /\ \A r \in Relays : Constructed(r) => server_socket[r] # BadFd
  /\ constructing \in Relays \cup {NULL}
  /\ addresses \in 0 .. MaxAddresses
  /\ bound \in SUBSET Relays
  /\ relay_loop \in [Relays -> BOOLEAN]

Init ==
  /\ LoopInit
  /\ server_socket = [r \in Relays |-> NULL]
  /\ constructing = NULL /\ addresses = 0
  /\ bound = {}
  /\ relay_loop = [r \in Relays |-> FALSE]

-----------------------------------------------------------------------------
(* The constructor. *)

\* getaddrinfo() fails, which ends the process, or finds some addresses.
GetAddrInfo(r) ==
  /\ at = "main" /\ constructing = NULL
  /\ server_socket[r] = NULL
  /\ \/ Exit /\ UNCHANGED relayVars
     \/ /\ Stay
        /\ constructing' = r
        /\ addresses' \in 1 .. MaxAddresses
        /\ UNCHANGED <<server_socket, bound, relay_loop>>
  /\ UNCHANGED <<kernel, fd_handler_map, batch>>

\* One turn of the loop over the addresses: a socket that cannot be bound is
\* left open, and the last one stays in server_socket, bound or not.
TryAddress(r) ==
  /\ at = "main" /\ constructing = r /\ addresses > 0
  /\ \/ /\ server_socket' = [server_socket EXCEPT ![r] = BadFd]
        /\ addresses' = addresses - 1
        /\ UNCHANGED <<kernel, bound>>
     \/ \E fd \in Free(kernel) :
          /\ kernel' = Socket(kernel, fd)
          /\ server_socket' = [server_socket EXCEPT ![r] = fd]
          /\ \/ addresses' = 0 /\ bound' = bound \cup {r}
             \/ addresses' = addresses - 1 /\ UNCHANGED bound
  /\ Stay
  /\ UNCHANGED <<fd_handler_map, batch, constructing, relay_loop>>

\* Mutant of Listen: the result of listen() is not looked at.
ListenUnchecked(r) ==
  /\ at = "main" /\ constructing = r /\ addresses = 0
  /\ Stay /\ constructing' = NULL
  /\ UNCHANGED <<kernel, fd_handler_map, batch, server_socket, addresses, bound, relay_loop>>

\* listen() fails on -1 and may fail on any socket, for an address in use,
\* which aborts the process; one that was never bound gets a port from the
\* kernel.
Listen(r) ==
  /\ at = "main" /\ constructing = r /\ addresses = 0
  /\ \/ Exit /\ UNCHANGED constructing
     \/ server_socket[r] # BadFd /\ Stay /\ constructing' = NULL
  /\ UNCHANGED <<kernel, fd_handler_map, batch, server_socket, addresses, bound, relay_loop>>

-----------------------------------------------------------------------------

\* Mutant of AddToLoop: edge-triggered, as the resolver does it.
AddToLoopEdge(r) ==
  /\ at = "main" /\ constructing = NULL
  /\ Constructed(r) /\ ~relay_loop[r]
  /\ Add(kernel, server_socket[r], "EPOLLET", r)
  /\ relay_loop' = [relay_loop EXCEPT ![r] = TRUE]
  /\ Stay
  /\ UNCHANGED <<batch, server_socket, constructing, addresses, bound>>

\* add_to_loop; nothing sets closed, and a second call only logs.
AddToLoop(r) ==
  /\ at = "main" /\ constructing = NULL
  /\ Constructed(r) /\ ~relay_loop[r]
  /\ Add(kernel, server_socket[r], "level", r)
  /\ relay_loop' = [relay_loop EXCEPT ![r] = TRUE]
  /\ Stay
  /\ UNCHANGED <<batch, server_socket, constructing, addresses, bound>>

\* Mutant of Accepts: the connection is registered with epoll, but not with
\* the loop.
AcceptsWatching(k, fd) ==
  IF k.input[fd] = <<>> \/ Free(k) = {} THEN {k}
  ELSE {EpollAdd(Accept(k, fd, conn), conn, "level") : conn \in Free(k)}

\* accept(): EAGAIN on an empty queue; EMFILE where no number is free, which
\* leaves the connection in the queue.
Accepts(k, fd) ==
  IF k.input[fd] = <<>> \/ Free(k) = {} THEN {k}
  ELSE {Accept(k, fd, conn) : conn \in Free(k)}

\* Mutant of HandleEvent: the relay closes its socket on an error, as the
\* resolver does, and has nothing that opens another.
HandleEventCloses(r) ==
  /\ at = "handler" /\ current.handler = r
  /\ kernel' \in IF current.fd # server_socket[r] THEN {kernel}
                 ELSE IF current.error THEN {Close(kernel, current.fd)}
                 ELSE Accepts(kernel, current.fd)
  /\ Return
  /\ UNCHANGED <<fd_handler_map, batch, relayVars>>

\* handle_event.  An error is only logged, which does not clear it;
\* fd_to_handlers is empty, so events of other descriptors do nothing.
HandleEvent(r) ==
  /\ at = "handler" /\ current.handler = r
  /\ kernel' \in IF current.fd = server_socket[r] /\ ~current.error
                 THEN Accepts(kernel, current.fd) ELSE {kernel}
  /\ Return
  /\ UNCHANGED <<fd_handler_map, batch, relayVars>>

Queued(r, c) ==
  /\ Constructed(r)
  /\ \E i \in DOMAIN kernel.input[server_socket[r]] : kernel.input[server_socket[r]][i] = c

\* A client connects to the address the relay was given.
Connect(r, c) ==
  /\ r \in bound /\ Constructed(r)
  /\ \A q \in Relays : ~Queued(q, c)
  /\ Arrive(server_socket[r], c)
  /\ UNCHANGED relayVars

\* A connection is given up before it is accepted, or the socket fails.
Mishap(r) ==
  /\ r \in bound /\ Constructed(r)
  /\ Spoil(server_socket[r]) \/ SocketError(server_socket[r])
  /\ UNCHANGED relayVars

LoopStep ==
  /\ (constructing = NULL /\ Run) \/ EpollWait \/ EpollFail \/ \E e \in batch : Dispatch(e)
  /\ UNCHANGED relayVars

Next ==
  \/ \E r \in Relays : \/ GetAddrInfo(r) \/ TryAddress(r) \/ Listen(r)
                       \/ AddToLoop(r) \/ HandleEvent(r)
                       \/ Mishap(r)
                       \/ \E c \in Items : Connect(r, c)
  \/ LoopStep

Spec == Init /\ [][Next]_vars

\* The thread goes on while it is not blocked: a constructor that was begun,
\* run(), its for loop and the handlers.
FairSpec ==
  /\ Spec
  /\ WF_vars(LoopStep)
  /\ \A r \in Relays : WF_vars(TryAddress(r) \/ Listen(r) \/ HandleEvent(r))

-----------------------------------------------------------------------------

\* Relays are legal clients of the event loop.
ImplementsLoop == LoopSpec

\* The relays on one loop are kept apart: a relay whose constructor is through
\* has an open socket of its own, and once it is in the loop the loop watches
\* that socket and leads to that relay, whatever addresses were tried in vain,
\* whoever fails and however many connections took their numbers from the same
\* table.  So no relay ever sees an event of a socket that is not its own.
RelayHasItsSocket ==
  /\ \A r \in Relays : Constructed(r) =>
       LET fd == server_socket[r]
       IN /\ fd \in kernel.open
          /\ \A q \in Relays \ {r} : server_socket[q] # fd
          /\ relay_loop[r] => fd \in kernel.interest /\ fd_handler_map[fd] = r
  /\ current # NULL =>
       current.handler \in Relays /\ current.fd = server_socket[current.handler]

\* A connection that waits at a registered relay is accepted or given up, for
\* as long as there is a descriptor for it and the relay's own socket has not
\* failed: one accept() per event is enough because the socket is registered
\* level-triggered, and a relay whose error nobody clears, reported for ever,
\* does not keep the other one from its connections.
ConnectionIsAccepted ==
  \A r \in Relays, c \in Items :
    (relay_loop[r] /\ Queued(r, c))
      ~> (\/ ~Queued(r, c)
         \/ Free(kernel) = {}
         \/ server_socket[r] \in kernel.error
         \/ Halted)
=============================================================================
