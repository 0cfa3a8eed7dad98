---------------------------- MODULE TCPRelayProofs ----------------------------
(***************************************************************************)
(* TCP relays are legal clients of the event loop and keep their sockets   *)
(* apart, for any number of relays, addresses, connections and descriptor  *)
(* numbers.                                                                *)
(***************************************************************************)
EXTENDS TCPRelay, EventLoopProofs

-----------------------------------------------------------------------------
(* Clients of the loop. *)

LEMMA AcceptCalls ==
  ASSUME TypeOK, NEW fd \in Fds, NEW k \in Accepts(kernel, fd)
  PROVE  k \in Syscalls(kernel)
BY SystemCalls DEF Accepts

\* The constructor, add_to_loop and handle_event are steps of a client; the
\* rest are the loop's own steps and the network's.
LEMMA LoopView == TypeOK /\ [Next]_vars => [LoopNext]_loopVars
<1>. SUFFICES ASSUME TypeOK, [Next]_vars PROVE [LoopNext]_loopVars
  OBVIOUS
<1>a. kernel \in Syscalls(kernel)
  BY SystemCalls
<1>1. ASSUME NEW r \in Relays, GetAddrInfo(r) PROVE ClientStep
  BY <1>1, <1>a, ClientCalls DEF GetAddrInfo
<1>2. ASSUME NEW r \in Relays, TryAddress(r) PROVE ClientStep
  <2>1. kernel' = kernel \/ \E fd \in Free(kernel) : kernel' = Socket(kernel, fd)
    BY <1>2 DEF TryAddress
  <2>2. kernel' \in Syscalls(kernel)
    BY <2>1, SystemCalls
  <2>. QED BY <1>2, <2>2, ClientCalls DEF TryAddress
<1>3. ASSUME NEW r \in Relays, Listen(r) PROVE ClientStep
  BY <1>3, <1>a, ClientCalls DEF Listen
<1>4. ASSUME NEW r \in Relays, AddToLoop(r) PROVE ClientStep
  <2>1. server_socket[r] \in FdKeys /\ "level" \in Modes /\ r \in Handlers
    BY <1>4, TCPRelayAssumption DEF AddToLoop, Constructed, TypeOK, Modes
  <2>. QED BY <1>4, <1>a, <2>1, ClientCalls DEF AddToLoop
<1>5. ASSUME NEW r \in Relays, HandleEvent(r) PROVE ClientStep
  <2>1. at = "handler" /\ current.fd \in Fds
    BY <1>5 DEF HandleEvent, TypeOK, LoopTypeOK, Running
  <2>2. kernel' \in Syscalls(kernel)
    BY <1>5, <1>a, <2>1, AcceptCalls DEF HandleEvent
  <2>. QED BY <1>5, <2>1, <2>2, ClientCalls DEF HandleEvent
<1>6. ASSUME NEW r \in Relays, Mishap(r) \/ \E c \in Items : Connect(r, c)
      PROVE  Network
  <2>1. server_socket[r] \in Fds
    BY <1>6 DEF Mishap, Connect, Constructed, TypeOK, FdKeys
  <2>. QED BY <1>6, <2>1 DEF Mishap, Connect, Network
<1>7. CASE LoopStep
  BY <1>7 DEF LoopStep, LoopNext
<1>8. CASE UNCHANGED vars
  BY <1>8 DEF vars
<1>. QED BY <1>1, <1>2, <1>3, <1>4, <1>5, <1>6, <1>7, <1>8 DEF Next, LoopNext

LEMMA TypeInit == Init => TypeOK
BY LoopTypeInit, TCPRelayAssumption DEF Init, TypeOK, Constructed

LEMMA TypeStep == TypeOK /\ [Next]_vars => TypeOK'
<1>. SUFFICES ASSUME TypeOK, [Next]_vars PROVE TypeOK'
  OBVIOUS
<1>1. LoopTypeOK'
  BY LoopView, LoopTypeStep DEF TypeOK
<1>. USE DEF TypeOK, Constructed
<1>2. ASSUME NEW r \in Relays, GetAddrInfo(r) PROVE TypeOK'
  BY <1>1, <1>2, EventLoopAssumption, TCPRelayAssumption DEF GetAddrInfo, relayVars
<1>3. ASSUME NEW r \in Relays, TryAddress(r) PROVE TypeOK'
  <2>1. PICK s \in FdKeys : server_socket' = [server_socket EXCEPT ![r] = s]
    BY <1>3 DEF TryAddress, FdKeys, Free
  <2>2. /\ addresses' \in 0 .. MaxAddresses
        /\ bound' \in SUBSET Relays
        /\ constructing' = r /\ relay_loop' = relay_loop /\ constructing = r
    BY <1>3, TCPRelayAssumption DEF TryAddress
  <2>. QED BY <1>1, <2>1, <2>2
<1>4. ASSUME NEW r \in Relays, Listen(r) PROVE TypeOK'
  BY <1>1, <1>4 DEF Listen
<1>5. ASSUME NEW r \in Relays, AddToLoop(r) PROVE TypeOK'
  BY <1>1, <1>5 DEF AddToLoop
<1>6. CASE UNCHANGED relayVars
  BY <1>1, <1>6 DEF relayVars
<1>. QED BY <1>2, <1>3, <1>4, <1>5, <1>6
     DEF Next, HandleEvent, Mishap, Connect, LoopStep, vars

\* The relays' variables keep their types, and a relay whose constructor is
\* through never has the -1 of a failed socket() for its socket.
THEOREM TypeCorrect == Spec => []TypeOK
BY TypeInit, TypeStep, PTL DEF Spec

\* Relays are legal clients of the event loop.
THEOREM RelaysAreClients == Spec => ImplementsLoop
<1>1. Init => LoopInit
  BY DEF Init
<1>. QED BY <1>1, LoopView, TypeCorrect, PTL DEF Spec, ImplementsLoop, LoopSpec

\* So what the loop promises to any client holds for them.
COROLLARY RelaysAreHandled == Spec => []InterestHasHandler /\ NoEventIsLost
BY RelaysAreClients, InterestIsHandled, EventsAreKept, PTL DEF ImplementsLoop

-----------------------------------------------------------------------------
(* Every relay keeps its socket. *)

\* Sockets are open and nobody else's, also those of a constructor under way.
SocketsApart ==
  /\ \A r \in Relays : server_socket[r] \in Fds => server_socket[r] \in kernel.open
  /\ \A r, q \in Relays : server_socket[r] \in Fds /\ server_socket[q] = server_socket[r] => q = r

\* A relay is in the loop with a finished constructor, watched and found.
InLoop ==
  \A r \in Relays : relay_loop[r] =>
    /\ Constructed(r)
    /\ server_socket[r] \in kernel.interest
    /\ fd_handler_map[server_socket[r]] = r

IsRelaysSocket(fd, h) == h \in Relays /\ relay_loop[h] /\ server_socket[h] = fd

\* The map and the event being handled know nothing but relays in the loop.
OnlyRelays ==
  /\ \A fd \in FdKeys : fd_handler_map[fd] # NULL => IsRelaysSocket(fd, fd_handler_map[fd])
  /\ current # NULL => IsRelaysSocket(current.fd, current.handler)

SocketInv == SocketsApart /\ InLoop /\ OnlyRelays

LEMMA SocketInvInit == Init => SocketInv
BY TCPRelayAssumption
DEF Init, LoopInit, SocketInv, SocketsApart, InLoop, OnlyRelays, FdKeys

\* Nothing in this program closes or removes a descriptor.
LEMMA KernelGrows ==
  ASSUME TypeOK, [Next]_vars
  PROVE  kernel.open \subseteq kernel'.open /\ kernel.interest \subseteq kernel'.interest
<1>. kernel \in Kernel
  BY DEF TypeOK, LoopTypeOK
<1>1. ASSUME NEW r \in Relays, TryAddress(r)
      PROVE  kernel.open \subseteq kernel'.open /\ kernel.interest \subseteq kernel'.interest
  BY <1>1 DEF TryAddress, Socket, Kernel
<1>2. ASSUME NEW r \in Relays, AddToLoop(r)
      PROVE  kernel.open \subseteq kernel'.open /\ kernel.interest \subseteq kernel'.interest
  BY <1>2 DEF AddToLoop, Add, EpollAdd, Kernel
<1>3. ASSUME NEW r \in Relays, HandleEvent(r)
      PROVE  kernel.open \subseteq kernel'.open /\ kernel.interest \subseteq kernel'.interest
  <2>1. \A fd, conn \in Fds :
          LET k == Accept(kernel, fd, conn)
          IN k.open = kernel.open \cup {conn} /\ k.interest = kernel.interest
    BY DEF Accept, Take, Socket, Kernel
  <2>2. current.fd \in Fds
    BY <1>3 DEF HandleEvent, TypeOK, LoopTypeOK, Running
  <2>3. kernel' = kernel \/ \E conn \in Fds : kernel' = Accept(kernel, current.fd, conn)
    BY <1>3 DEF HandleEvent, Accepts, Free
  <2>. QED BY <2>1, <2>2, <2>3
<1>4. ASSUME NEW fd, Spoil(fd) \/ SocketError(fd) \/ \E c \in Items : Arrive(fd, c)
      PROVE  kernel.open \subseteq kernel'.open /\ kernel.interest \subseteq kernel'.interest
  BY <1>4 DEF Spoil, SocketError, Arrive, Enqueue, Take, Raise, Wake, Kernel
<1>5. CASE LoopStep
  <2>1. CASE EpollWait
    BY <2>1 DEF EpollWait, Kernel
  <2>. QED BY <1>5, <2>1 DEF LoopStep, Run, EpollFail, Dispatch
<1>6. CASE UNCHANGED kernel
  BY <1>6
<1>. QED BY <1>1, <1>2, <1>3, <1>4, <1>5, <1>6
     DEF Next, GetAddrInfo, Listen, Mishap, Connect, vars, loopVars

\* Steps that leave the relays and the map alone.
LEMMA SocketInvFrame ==
  ASSUME TypeOK, SocketInv, [Next]_vars,
         UNCHANGED <<server_socket, constructing, relay_loop, fd_handler_map>>,
         current' = NULL \/ current' = current
  PROVE  SocketInv'
<1>1. kernel.open \subseteq kernel'.open /\ kernel.interest \subseteq kernel'.interest
  BY KernelGrows
<1>2. SocketsApart'
  BY <1>1 DEF SocketInv, SocketsApart
<1>3. InLoop'
  BY <1>1 DEF SocketInv, InLoop, Constructed
<1>4. OnlyRelays'
  BY DEF SocketInv, OnlyRelays, IsRelaysSocket
<1>. QED BY <1>2, <1>3, <1>4 DEF SocketInv

LEMMA SocketInvStep == TypeOK /\ SocketInv /\ [Next]_vars => SocketInv'
<1>. SUFFICES ASSUME TypeOK, SocketInv, [Next]_vars PROVE SocketInv'
  OBVIOUS
<1>1. kernel.open \subseteq kernel'.open /\ kernel.interest \subseteq kernel'.interest
  BY KernelGrows
<1>2. ASSUME NEW r \in Relays, GetAddrInfo(r) PROVE SocketInv'
  <2>1. server_socket[r] = NULL /\ ~relay_loop[r]
    BY <1>2 DEF GetAddrInfo, SocketInv, InLoop, Constructed
  <2>2. UNCHANGED <<kernel, fd_handler_map, server_socket, relay_loop>>
        /\ (constructing' = r \/ constructing' = constructing)
        /\ (current' = NULL \/ current' = current)
    BY <1>2 DEF GetAddrInfo, relayVars, Exit, Stay
  <2>3. SocketsApart' /\ OnlyRelays'
    BY <2>2 DEF SocketInv, SocketsApart, OnlyRelays, IsRelaysSocket
  <2>4. InLoop'
    BY <2>1, <2>2 DEF SocketInv, InLoop, Constructed
  <2>. QED BY <2>3, <2>4 DEF SocketInv
<1>3. ASSUME NEW r \in Relays, TryAddress(r) PROVE SocketInv'
  <2>1. PICK s \in FdKeys :
          /\ server_socket' = [server_socket EXCEPT ![r] = s]
          /\ s \in Fds => s \notin kernel.open /\ s \in kernel'.open
    <3>1. CASE server_socket' = [server_socket EXCEPT ![r] = BadFd]
      BY <3>1, EventLoopAssumption DEF FdKeys
    <3>2. ASSUME NEW fd \in Free(kernel), kernel' = Socket(kernel, fd),
                 server_socket' = [server_socket EXCEPT ![r] = fd]
          PROVE  \E s \in FdKeys :
                   /\ server_socket' = [server_socket EXCEPT ![r] = s]
                   /\ s \in Fds => s \notin kernel.open /\ s \in kernel'.open
      <4>1. fd \in FdKeys /\ fd \notin kernel.open
        BY DEF Free, FdKeys
      <4>2. fd \in kernel'.open
        BY <3>2 DEF Socket, TypeOK, LoopTypeOK, Kernel
      <4>. QED BY <3>2, <4>1, <4>2
    <3>. QED BY <1>3, <3>1, <3>2 DEF TryAddress
  <2>2. /\ constructing = r
        /\ UNCHANGED <<constructing, relay_loop, fd_handler_map, current>>
    BY <1>3 DEF TryAddress, Stay
  <2>3. /\ server_socket'[r] = s
        /\ \A q \in Relays \ {r} : server_socket'[q] = server_socket[q]
    BY <2>1 DEF TypeOK
  <2>4. ~relay_loop[r]
    BY <2>2 DEF SocketInv, InLoop, Constructed
  <2>5. SocketsApart'
    BY <1>1, <2>1, <2>3 DEF SocketInv, SocketsApart
  <2>6. InLoop'
    BY <1>1, <2>2, <2>3, <2>4 DEF SocketInv, InLoop, Constructed
  <2>7. OnlyRelays'
    BY <2>2, <2>3, <2>4 DEF SocketInv, OnlyRelays, IsRelaysSocket
  <2>. QED BY <2>5, <2>6, <2>7 DEF SocketInv
<1>4. ASSUME NEW r \in Relays, Listen(r) PROVE SocketInv'
  <2>1. /\ UNCHANGED <<kernel, fd_handler_map, server_socket, relay_loop>>
        /\ constructing' = NULL \/ constructing' = constructing
        /\ current' = NULL \/ current' = current
    BY <1>4 DEF Listen, Exit, Stay
  <2>2. SocketsApart' /\ OnlyRelays'
    BY <2>1 DEF SocketInv, SocketsApart, OnlyRelays, IsRelaysSocket
  <2>3. InLoop'
    BY <2>1, EventLoopAssumption, TCPRelayAssumption DEF SocketInv, InLoop, Constructed
  <2>. QED BY <2>2, <2>3 DEF SocketInv
<1>5. ASSUME NEW r \in Relays, AddToLoop(r) PROVE SocketInv'
  <2>. DEFINE fd == server_socket[r]
  <2>1. /\ fd \in Fds /\ fd \in kernel.open /\ Constructed(r) /\ ~relay_loop[r]
    BY <1>5 DEF AddToLoop, Constructed, TypeOK, FdKeys, SocketInv, SocketsApart
  <2>2. fd_handler_map[fd] = NULL
    BY <2>1 DEF SocketInv, SocketsApart, OnlyRelays, IsRelaysSocket, FdKeys
  <2>3. /\ UNCHANGED <<server_socket, constructing, current>>
        /\ relay_loop' = [relay_loop EXCEPT ![r] = TRUE]
        /\ fd_handler_map' = [fd_handler_map EXCEPT ![fd] = r]
        /\ kernel' = EpollAdd(kernel, fd, "level")
    BY <1>5, <2>2 DEF AddToLoop, Add, Stay, TypeOK, LoopTypeOK
  <2>4. fd \in kernel'.interest
    BY <2>1, <2>3 DEF EpollAdd, TypeOK, LoopTypeOK, Kernel
  <2>5. /\ relay_loop'[r] /\ \A q \in Relays \ {r} : relay_loop'[q] = relay_loop[q]
        /\ fd_handler_map'[fd] = r
        /\ \A f \in FdKeys \ {fd} : fd_handler_map'[f] = fd_handler_map[f]
    BY <2>1, <2>3 DEF TypeOK, LoopTypeOK, FdKeys
  <2>6. \A q \in Relays \ {r} : relay_loop[q] => server_socket[q] \in FdKeys \ {fd}
    BY <2>1 DEF SocketInv, SocketsApart, InLoop, Constructed, TypeOK
  <2>7. SocketsApart'
    BY <1>1, <2>3 DEF SocketInv, SocketsApart
  <2>8. InLoop'
    BY <1>1, <2>1, <2>3, <2>4, <2>5, <2>6 DEF SocketInv, InLoop, Constructed
  <2>9. OnlyRelays'
    BY <2>3, <2>5, <2>1 DEF SocketInv, OnlyRelays, IsRelaysSocket
  <2>. QED BY <2>7, <2>8, <2>9 DEF SocketInv
<1>6. ASSUME NEW r \in Relays, HandleEvent(r) PROVE SocketInv'
  BY <1>6, SocketInvFrame DEF HandleEvent, Return, relayVars
<1>7. ASSUME NEW r \in Relays, Mishap(r) \/ \E c \in Items : Connect(r, c)
      PROVE  SocketInv'
  BY <1>7, SocketInvFrame DEF Mishap, Connect, Spoil, SocketError, Arrive, relayVars
<1>8. ASSUME NEW e \in batch, Dispatch(e), UNCHANGED relayVars PROVE SocketInv'
  <2>1. e.fd \in FdKeys
    BY DEF TypeOK, LoopTypeOK, Event, FdKeys
  <2>2. CASE fd_handler_map[e.fd] = NULL
    BY <1>8, <2>2, SocketInvFrame DEF Dispatch, relayVars
  <2>3. CASE fd_handler_map[e.fd] # NULL
    <3>1. IsRelaysSocket(e.fd, fd_handler_map[e.fd])
      BY <2>1, <2>3 DEF SocketInv, OnlyRelays
    <3>2. /\ UNCHANGED <<kernel, fd_handler_map, server_socket, constructing, relay_loop>>
          /\ current'.fd = e.fd /\ current'.handler = fd_handler_map[e.fd]
      BY <1>8, <2>3 DEF Dispatch, relayVars
    <3>3. SocketsApart' /\ InLoop'
      BY <3>2 DEF SocketInv, SocketsApart, InLoop, Constructed
    <3>4. OnlyRelays'
      BY <3>1, <3>2 DEF SocketInv, OnlyRelays, IsRelaysSocket
    <3>. QED BY <3>3, <3>4 DEF SocketInv
  <2>. QED BY <2>2, <2>3
<1>9. ASSUME Run \/ EpollWait \/ EpollFail, UNCHANGED relayVars PROVE SocketInv'
  BY <1>9, SocketInvFrame DEF Run, EpollWait, EpollFail, relayVars
<1>10. CASE UNCHANGED vars
  BY <1>10, SocketInvFrame DEF vars, loopVars, relayVars
<1>. QED BY <1>2, <1>3, <1>4, <1>5, <1>6, <1>7, <1>8, <1>9, <1>10 DEF Next, LoopStep

\* Every relay whose constructor is through has an open socket of its own,
\* which the loop watches and leads to it once it is registered; no relay is
\* ever run for a descriptor that is not its socket.
THEOREM RelaysKeepSockets == Spec => []RelayHasItsSocket
<1>1. TypeOK /\ SocketInv => RelayHasItsSocket
  BY DEF TypeOK, SocketInv, SocketsApart, InLoop, OnlyRelays, IsRelaysSocket,
         Constructed, RelayHasItsSocket, FdKeys
<1>. QED BY <1>1, SocketInvInit, SocketInvStep, TypeCorrect, PTL DEF Spec
=============================================================================
