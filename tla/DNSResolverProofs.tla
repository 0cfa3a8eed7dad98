-------------------------- MODULE DNSResolverProofs --------------------------
(***************************************************************************)
(* What the resolvers do for every number of them, of descriptors, names,  *)
(* calls and servers: they are legal clients of the event loop, implement  *)
(* the lookup service and, used as they should be, keep their sockets.     *)
(***************************************************************************)
EXTENDS DNSResolver, EventLoopProofs, SequenceTheorems

USE EventLoopAssumption, DNSResolverAssumption

LEMMA SocketResults ==
  ASSUME TypeOK, NEW r \in Resolvers, NEW o \in SocketOutcomes(r)
  PROVE  o[1] \in FdKeys /\ o[2] \in Syscalls(kernel)
BY SystemCalls DEF TypeOK, SocketOutcomes, FdKeys, Free

\* Whatever call_callback does, handle_event goes on or returns.
LEMMA HandleDataSteps ==
  ASSUME NEW r, NEW d, HandleData(r, d)
  PROVE  Stay \/ Return
BY DEF HandleData, CallCallback, BeginCallbacks, EndCallbacks, NothingCalled

\* What the application and the handlers do are steps of a client; the rest
\* are the loop's own steps and the network's.
LEMMA NextSteps ==
  ASSUME TypeOK, [Next]_vars
  PROVE  ClientStep \/ LoopStep \/ NameServers \/ Mishap \/ UNCHANGED loopVars
<1>a. kernel \in Syscalls(kernel)
  BY SystemCalls
<1>1. ASSUME NEW r \in Resolvers, CreateDnsSocket(r) PROVE ClientStep
  <2>1. PICK o \in SocketOutcomes(r) : kernel' = o[2]
    BY <1>1 DEF CreateDnsSocket
  <2>2. o[2] \in Syscalls(kernel)
    BY SocketResults
  <2>. QED BY <1>1, <2>1, <2>2, ClientCalls DEF CreateDnsSocket, CanCall, Stay
<1>2. ASSUME NEW r \in Resolvers, AddToLoop(r) PROVE ClientStep
  <2>1. PICK o \in SocketOutcomes(r) : Add(o[2], o[1], "EPOLLET", r)
    BY <1>2 DEF AddToLoop
  <2>2. o[1] \in FdKeys /\ o[2] \in Syscalls(kernel)
    BY SocketResults
  <2>3. "EPOLLET" \in Modes /\ r \in Handlers
    BY DEF Modes
  <2>. QED BY <1>2, <2>1, <2>2, <2>3, ClientCalls DEF AddToLoop, CanCall, Stay
<1>3. ASSUME NEW r \in Resolvers, NEW h \in Hosts, NEW c \in Calls, Resolve(r, h, c)
      PROVE  ClientStep
  BY <1>3, <1>a, ClientCalls DEF Resolve, CanCall
<1>4. ASSUME NEW r \in Resolvers, CloseResolver(r) PROVE ClientStep
  <2>. DEFINE fd == dns_socket[r]
              k  == Close(kernel, fd)
  <2>1. fd \in FdKeys
    BY <1>4 DEF CloseResolver, TypeOK
  <2>2. k \in Syscalls(kernel)
    BY <2>1, <1>a, SystemCalls DEF Close, FdKeys, TypeOK, LoopTypeOK, Kernel
  <2>3. \/ kernel' = k /\ UNCHANGED fd_handler_map
        \/ Remove(k, fd)
    BY <1>4 DEF CloseResolver
  <2>. QED BY <1>4, <2>1, <2>2, <2>3, ClientCalls DEF CloseResolver, CanCall, Stay
<1>5. ASSUME NEW r \in Resolvers, Delete(r) PROVE UNCHANGED loopVars
  BY <1>5 DEF Delete
<1>6. ASSUME HandleEvent PROVE ClientStep
  <2>1. PICK r \in Resolvers :
          /\ Handling(r)
          /\ \/ Undefined /\ UNCHANGED <<kernel, fd_handler_map, batch, resolverVars>>
             \/ Return /\ UNCHANGED <<kernel, fd_handler_map, batch, resolverVars>>
             \/ ErrorEvent(r)
             \/ DataEvent(r)
             \/ EmptyEvent(r)
    BY <1>6 DEF HandleEvent
  <2>2. at = "handler" /\ current.fd \in Fds
    BY <2>1 DEF Handling, TypeOK, LoopTypeOK, Running
  <2>3. CASE (Undefined \/ Return) /\ UNCHANGED <<kernel, fd_handler_map, batch, resolverVars>>
    BY <2>2, <2>3, <1>a, ClientCalls
  <2>4. CASE ErrorEvent(r)
    <3>1. Close(kernel, current.fd) \in Syscalls(kernel)
      BY <2>2, SystemCalls
    <3>. QED BY <2>2, <2>4, <3>1, ClientCalls DEF ErrorEvent
  <2>5. CASE DataEvent(r)
    <3>2. Take(kernel, current.fd) \in Syscalls(kernel)
      BY <2>2, <2>5, SystemCalls DEF DataEvent, Receives
    <3>. QED BY <2>2, <2>5, <3>2, HandleDataSteps, ClientCalls DEF DataEvent
  <2>6. CASE EmptyEvent(r)
    <3>1. ClearError(kernel, current.fd) \in Syscalls(kernel)
      BY <2>2, SystemCalls
    <3>2. Stay \/ Return \/ Undefined
      BY <2>6, HandleDataSteps DEF EmptyEvent
    <3>. QED BY <2>2, <2>6, <3>1, <3>2, ClientCalls DEF EmptyEvent
  <2>. QED BY <2>1, <2>3, <2>4, <2>5, <2>6
<1>7. CASE CallbackReturns
  BY <1>7, <1>a, ClientCalls DEF CallbackReturns, EndCallbacks
<1>8. CASE UNCHANGED vars
  BY <1>8 DEF vars
<1>. QED
  BY <1>1, <1>2, <1>3, <1>4, <1>5, <1>6, <1>7, <1>8 DEF Next, Application

LEMMA LoopView ==
  TypeOK /\ [Next]_vars => [LoopNext]_loopVars
<1>. SUFFICES ASSUME TypeOK, [Next]_vars PROVE [LoopNext]_loopVars
  OBVIOUS
<1>1. CASE ClientStep \/ UNCHANGED loopVars
  BY <1>1 DEF LoopNext
<1>2. CASE LoopStep
  BY <1>2 DEF LoopStep, LoopNext
<1>3. CASE NameServers
  <2>1. PICK fd \in Fds, h \in Hosts : \E d \in Answers[h] : Arrive(fd, d)
    BY <1>3 DEF NameServers, Reply, DuplicateReply
  <2>2. \E d \in Items : Arrive(fd, d)
    BY <2>1
  <2>. QED BY <2>2 DEF Network, LoopNext
<1>4. CASE Mishap
  BY <1>4 DEF Mishap, Network, LoopNext
<1>. QED BY <1>1, <1>2, <1>3, <1>4, NextSteps

-----------------------------------------------------------------------------
(* Type correctness. *)

LEMMA CallbacksType ==
  ASSUME TypeOK, NEW r \in Resolvers, NEW h \in Hosts
  PROVE  Callbacks(r, h) \in Seq(Calls)
BY DEF TypeOK, Callbacks

\* The part of TypeOK about the maps of callbacks.
VectorsOK(m) ==
  /\ DOMAIN m = Resolvers
  /\ \A r \in Resolvers : /\ DOMAIN m[r] \subseteq Hosts
                          /\ m[r] \in [DOMAIN m[r] -> Seq(Calls)]

LEMMA CallbackMaps ==
  ASSUME TypeOK, NEW r \in Resolvers, NEW h \in Hosts
  PROVE  /\ \A v \in Seq(Calls) :
              VectorsOK([hostname_to_cb EXCEPT ![r] = Put(@, h, v)])
         /\ VectorsOK([hostname_to_cb EXCEPT ![r] = [g \in {} |-> <<>>]])
         /\ h \in DOMAIN hostname_to_cb[r] =>
              VectorsOK([hostname_to_cb EXCEPT ![r][h] = <<>>])
<1>1. VectorsOK(hostname_to_cb)
  BY DEF TypeOK, VectorsOK
<1>2. ASSUME NEW v \in Seq(Calls)
      PROVE  VectorsOK([hostname_to_cb EXCEPT ![r] = Put(@, h, v)])
  <2>1. /\ DOMAIN Put(hostname_to_cb[r], h, v) \subseteq Hosts
        /\ Put(hostname_to_cb[r], h, v)
             \in [DOMAIN Put(hostname_to_cb[r], h, v) -> Seq(Calls)]
    BY <1>1 DEF VectorsOK, Put
  <2>. QED BY <1>1, <2>1 DEF VectorsOK
<1>3. VectorsOK([hostname_to_cb EXCEPT ![r] = [g \in {} |-> <<>>]])
  BY <1>1 DEF VectorsOK
<1>4. ASSUME h \in DOMAIN hostname_to_cb[r]
      PROVE  VectorsOK([hostname_to_cb EXCEPT ![r][h] = <<>>])
  <2>1. <<>> \in Seq(Calls)
    OBVIOUS
  <2>2. [hostname_to_cb[r] EXCEPT ![h] = <<>>]
          \in [DOMAIN hostname_to_cb[r] -> Seq(Calls)]
    BY <1>1, <1>4, <2>1 DEF VectorsOK
  <2>. QED BY <1>1, <2>2 DEF VectorsOK
<1>. QED BY <1>2, <1>3, <1>4

LEMMA TypeInit == Init => TypeOK
BY LoopTypeInit DEF Init, TypeOK, Quiet

\* The variables that the steps of call_callback and handle_data change.
CallbackTypeOK ==
  /\ VectorsOK(hostname_to_cb)
  /\ hostname_status_map \in [Resolvers -> SUBSET Hosts]
  /\ frame \in Frame \cup {NULL}
  /\ answer \in [Calls -> Addrs \cup {NULL}]

LEMMA EndCallbacksType ==
  ASSUME TypeOK, NEW r \in Resolvers, NEW h \in DOMAIN hostname_to_cb[r],
         EndCallbacks(r, h)
  PROVE  CallbackTypeOK'
<1>1. h \in Hosts
  BY DEF TypeOK
<1>2. VectorsOK(hostname_to_cb')
  BY <1>1, CallbackMaps DEF EndCallbacks
<1>. QED BY <1>1, <1>2 DEF EndCallbacks, CallbackTypeOK, TypeOK

LEMMA HandleDataType ==
  ASSUME TypeOK, NEW r \in Resolvers, NEW d \in Items \cup {<<>>}, HandleData(r, d)
  PROVE  CallbackTypeOK'
<1>1. CASE NothingCalled
  BY <1>1 DEF NothingCalled, CallbackTypeOK, TypeOK, VectorsOK
<1>2. ASSUME NEW i \in FirstA(d), CallCallback(r, d[i].name, d[i].ip)
      PROVE  CallbackTypeOK'
  <2>. DEFINE h == d[i].name
              a == d[i].ip
  <2>1. i \in DOMAIN d /\ d[i].type = "A" /\ d \in Seq(Record)
    BY DEF FirstA, ARecords
  <2>2. h \in Hosts /\ a \in Addrs
    BY <2>1 DEF Record
  <2>3. CASE h \in DOMAIN hostname_to_cb[r] /\ BeginCallbacks(r, h, a)
             /\ hostname_to_cb[r][h] # <<>>
    <3>1. frame' \in Frame
      BY <2>2, <2>3 DEF BeginCallbacks, Frame
    <3>2. hostname_to_cb[r][h] \in Seq(Calls)
      BY <2>3 DEF TypeOK
    <3>. QED BY <2>2, <2>3, <3>1, <3>2 DEF BeginCallbacks, CallbackTypeOK, TypeOK, VectorsOK
  <2>4. CASE h \in DOMAIN hostname_to_cb[r] /\ EndCallbacks(r, h)
    BY <2>4, EndCallbacksType
  <2>. QED BY <1>1, <1>2, <2>3, <2>4 DEF CallCallback
<1>. QED BY <1>1, <1>2 DEF HandleData

LEMMA TypeStep == TypeOK /\ FrameInVector /\ [Next]_vars => TypeOK'
<1>. SUFFICES ASSUME TypeOK, FrameInVector, [Next]_vars PROVE TypeOK'
  OBVIOUS
<1>a. LoopTypeOK'
  BY LoopView, LoopTypeStep DEF TypeOK
<1>b. Quiet \in [Hosts -> Nat]
  BY DEF Quiet
<1>c. VectorsOK(hostname_to_cb)
  BY DEF TypeOK, VectorsOK
<1>1. ASSUME NEW r \in Resolvers, CreateDnsSocket(r) PROVE TypeOK'
  BY <1>1, <1>a, SocketResults DEF CreateDnsSocket, TypeOK
<1>2. ASSUME NEW r \in Resolvers, AddToLoop(r) PROVE TypeOK'
  BY <1>2, <1>a, SocketResults DEF AddToLoop, TypeOK
<1>3. ASSUME NEW r \in Resolvers, NEW h \in Hosts, NEW c \in Calls, Resolve(r, h, c)
      PROVE  TypeOK'
  <2>1. Append(Callbacks(r, h), c) \in Seq(Calls)
    BY CallbacksType
  <2>2. VectorsOK(hostname_to_cb')
    BY <1>3, <2>1, CallbackMaps DEF Resolve
  <2>3. inflight' \in [Fds -> [Hosts -> Nat]]
    <3>1. CASE UNCHANGED inflight
      BY <3>1 DEF TypeOK
    <3>2. CASE /\ dns_socket[r] \in kernel.open
               /\ inflight' = [inflight EXCEPT ![dns_socket[r]][h] = @ + NumServers]
      <4>1. dns_socket[r] \in Fds
        BY <3>2 DEF TypeOK, LoopTypeOK, Kernel
      <4>2. inflight[dns_socket[r]][h] + NumServers \in Nat
        BY <4>1 DEF TypeOK
      <4>. QED BY <3>2, <4>1, <4>2 DEF TypeOK
    <3>. QED BY <1>3, <3>1, <3>2 DEF Resolve, SendReq
  <2>. QED BY <1>3, <1>a, <2>2, <2>3 DEF Resolve, TypeOK, VectorsOK
<1>4. ASSUME NEW r \in Resolvers, CloseResolver(r) PROVE TypeOK'
  BY <1>4, <1>a, <1>b DEF CloseResolver, Hangup, TypeOK
<1>5. ASSUME NEW r \in Resolvers, Delete(r) PROVE TypeOK'
  <2>1. VectorsOK(hostname_to_cb')
    BY <1>5, <1>c DEF Delete, VectorsOK
  <2>. QED BY <1>5, <1>a, <2>1 DEF Delete, TypeOK, VectorsOK
<1>6. ASSUME HandleEvent PROVE TypeOK'
  <2>1. PICK r \in Resolvers :
          /\ Handling(r)
          /\ \/ UNCHANGED <<kernel, fd_handler_map, batch, resolverVars>>
             \/ ErrorEvent(r)
             \/ DataEvent(r)
             \/ EmptyEvent(r)
    BY <1>6 DEF HandleEvent
  <2>2. CASE UNCHANGED <<kernel, fd_handler_map, batch, resolverVars>>
    BY <2>2, <1>a DEF resolverVars, TypeOK
  <2>3. CASE ErrorEvent(r)
    BY <2>3, <1>a, <1>b DEF ErrorEvent, Hangup, apiState, TypeOK
  <2>4. CASE DataEvent(r)
    <3>1. current.fd \in Fds /\ kernel.input[current.fd] \in Seq(Items)
      BY <2>1 DEF Handling, TypeOK, LoopTypeOK, Running, Kernel
    <3>2. Head(kernel.input[current.fd]) \in Items
      BY <2>4, <3>1 DEF DataEvent, Receives
    <3>3. CallbackTypeOK'
      BY <2>4, <3>2, HandleDataType DEF DataEvent
    <3>. QED BY <2>4, <3>3, <1>a DEF DataEvent, apiState, TypeOK, CallbackTypeOK, VectorsOK
  <2>5. CASE EmptyEvent(r)
    <3>1. CallbackTypeOK'
      <4>1. CASE \E d \in Items \cup {<<>>} : HandleData(r, d)
        BY <4>1, HandleDataType
      <4>2. CASE UNCHANGED <<hostname_to_cb, hostname_status_map, frame, answer>>
        BY <4>2, <1>c DEF CallbackTypeOK, TypeOK
      <4>. QED BY <2>5, <4>1, <4>2 DEF EmptyEvent
    <3>. QED BY <2>5, <3>1, <1>a DEF EmptyEvent, apiState, TypeOK, CallbackTypeOK, VectorsOK
  <2>. QED BY <2>1, <2>2, <2>3, <2>4, <2>5
<1>7. CASE LoopStep \/ Mishap \/ UNCHANGED vars
  BY <1>7, <1>a DEF LoopStep, Mishap, vars, resolverVars, TypeOK
<1>8. CASE NameServers
  <2>1. PICK fd \in Fds, h \in Hosts, d \in Items :
           Reply(fd, h, d) \/ DuplicateReply(fd, h, d)
    BY <1>8 DEF NameServers
  <2>2. CASE Reply(fd, h, d)
    <3>1. inflight' \in [Fds -> [Hosts -> Nat]]
      <4>1. inflight[fd][h] - 1 \in Nat
        BY <2>2 DEF Reply, TypeOK
      <4>. QED BY <2>2, <4>1 DEF Reply, TypeOK
    <3>. QED BY <2>2, <3>1, <1>a DEF Reply, apiState, TypeOK
  <2>3. CASE DuplicateReply(fd, h, d)
    BY <2>3, <1>a DEF DuplicateReply, resolverVars, TypeOK
  <2>. QED BY <2>1, <2>2, <2>3
<1>9. CASE CallbackReturns
  <2>. DEFINE r == frame.r
              h == frame.host
              v == hostname_to_cb[r][h]
  <2>1. frame \in Frame /\ r \in Resolvers /\ h \in Hosts /\ frame.i \in Nat
    BY <1>9 DEF CallbackReturns, TypeOK, Frame
  <2>2. CASE UNCHANGED <<hostname_to_cb, hostname_status_map, frame, answer>>
    BY <1>9, <2>2, <1>a DEF CallbackReturns, apiState, TypeOK
  <2>3. CASE /\ r \in alive
             /\ frame.i < Len(v)
             /\ frame' = [frame EXCEPT !.i = @ + 1]
             /\ answer' = [answer EXCEPT ![v[frame.i + 1]] = frame.ip]
             /\ UNCHANGED <<hostname_to_cb, hostname_status_map>>
    <3>1. frame' \in Frame /\ frame.ip \in Addrs
      BY <2>1, <2>3 DEF Frame
    <3>. QED BY <1>9, <2>3, <3>1, <1>a DEF CallbackReturns, apiState, TypeOK
  <2>4. CASE r \in alive /\ EndCallbacks(r, h)
    <3>1. CallbackTypeOK'
      BY <1>9, <2>1, <2>4, EndCallbacksType DEF FrameInVector, CallbackReturns
    <3>. QED BY <1>9, <3>1, <1>a DEF CallbackReturns, apiState, TypeOK, CallbackTypeOK, VectorsOK
  <2>. QED BY <1>9, <2>2, <2>3, <2>4 DEF CallbackReturns
<1>. QED
  BY <1>1, <1>2, <1>3, <1>4, <1>5, <1>6, <1>7, <1>8, <1>9 DEF Next, Application

\* Where a step leaves the frame alone, the vector it is in may only grow.
LEMMA FrameKept ==
  ASSUME FrameInVector, UNCHANGED frame,
         frame # NULL /\ frame.r \in alive' =>
           /\ frame.r \in alive
           /\ DOMAIN hostname_to_cb[frame.r] \subseteq DOMAIN hostname_to_cb'[frame.r]
           /\ frame.host \in DOMAIN hostname_to_cb[frame.r] =>
                frame.i <= Len(hostname_to_cb'[frame.r][frame.host])
  PROVE  FrameInVector'
BY DEF FrameInVector, Truth

\* An address in a record that is looked at is one of the record's name.
LEMMA RecordsAreTrue ==
  ASSUME NEW d \in Items \cup {<<>>}, NEW i \in FirstA(d)
  PROVE  d[i].name \in Hosts /\ d[i].ip \in Truth[d[i].name]
<1>1. d \in Items /\ i \in ARecords(d) /\ i \in DOMAIN d /\ d[i].type = "A"
  BY DEF FirstA, ARecords
<1>2. d[i].name \in Hosts
  BY <1>1 DEF Record
<1>. QED BY <1>1, <1>2 DEF Truth

LEMMA HandleDataFrame ==
  ASSUME TypeOK, FrameInVector, NEW r \in alive, NEW d \in Items \cup {<<>>},
         HandleData(r, d), UNCHANGED alive, frame = NULL
  PROVE  FrameInVector'
<1>0. r \in Resolvers
  BY DEF TypeOK
<1>1. CASE frame' = NULL
  BY <1>1 DEF FrameInVector
<1>2. ASSUME NEW i \in FirstA(d), d[i].name \in DOMAIN hostname_to_cb[r],
             hostname_to_cb[r][d[i].name] # <<>>,
             BeginCallbacks(r, d[i].name, d[i].ip)
      PROVE  FrameInVector'
  <2>1. d[i].ip \in Truth[d[i].name]
    BY RecordsAreTrue
  <2>2. hostname_to_cb[r][d[i].name] \in Seq(Calls)
    BY <1>0, <1>2 DEF TypeOK
  <2>3. 1 <= Len(hostname_to_cb[r][d[i].name])
    BY <1>2, <2>2
  <2>. QED BY <1>2, <2>1, <2>3 DEF BeginCallbacks, FrameInVector, Truth
<1>. QED BY <1>1, <1>2 DEF HandleData, CallCallback, NothingCalled, EndCallbacks

LEMMA FrameStep == TypeOK /\ FrameInVector /\ [Next]_vars => FrameInVector'
<1>. SUFFICES ASSUME TypeOK, FrameInVector, [Next]_vars PROVE FrameInVector'
  OBVIOUS
<1>0. frame # NULL => /\ frame \in Frame /\ frame.r \in Resolvers
                      /\ frame.host \in Hosts /\ frame.i \in Nat
  BY DEF TypeOK, Frame
<1>1. CASE UNCHANGED <<frame, alive, hostname_to_cb>>
  BY <1>1 DEF FrameInVector, Truth
<1>2. ASSUME NEW r \in Resolvers, NEW h \in Hosts, NEW c \in Calls, Resolve(r, h, c)
      PROVE  FrameInVector'
  <2>. DEFINE m == hostname_to_cb[r]
              m2 == Put(m, h, Append(Callbacks(r, h), c))
  <2>1. hostname_to_cb' = [hostname_to_cb EXCEPT ![r] = m2]
    BY <1>2 DEF Resolve
  <2>2. /\ DOMAIN m \subseteq DOMAIN m2
        /\ \A g \in DOMAIN m : Len(m[g]) <= Len(m2[g])
    <3>1. DOMAIN m2 = DOMAIN m \cup {h}
      BY DEF Put
    <3>2. ASSUME NEW g \in DOMAIN m PROVE Len(m[g]) <= Len(m2[g])
      <4>1. m[g] \in Seq(Calls)
        BY DEF TypeOK
      <4>2. CASE g = h
        <5>1. m2[g] = Append(m[g], c)
          BY <4>2, <3>2 DEF Put, Callbacks
        <5>. QED BY <4>1, <5>1
      <4>3. CASE g # h
        BY <4>1, <4>3, <3>2 DEF Put
      <4>. QED BY <4>2, <4>3
    <3>. QED BY <3>1, <3>2
  <2>3. frame # NULL /\ frame.r \in alive =>
          /\ DOMAIN hostname_to_cb[frame.r] \subseteq DOMAIN hostname_to_cb'[frame.r]
          /\ frame.i <= Len(hostname_to_cb'[frame.r][frame.host])
    <3>. SUFFICES ASSUME frame # NULL, frame.r \in alive
                  PROVE  /\ DOMAIN hostname_to_cb[frame.r]
                              \subseteq DOMAIN hostname_to_cb'[frame.r]
                         /\ frame.i <= Len(hostname_to_cb'[frame.r][frame.host])
      OBVIOUS
    <3>1. CASE frame.r # r
      BY <1>0, <2>1, <3>1 DEF FrameInVector, TypeOK
    <3>2. CASE frame.r = r
      <4>1. hostname_to_cb'[frame.r] = m2
        BY <2>1, <3>2 DEF TypeOK
      <4>2. frame.host \in DOMAIN m /\ frame.i <= Len(m[frame.host])
        BY <3>2 DEF FrameInVector
      <4>3. m[frame.host] \in Seq(Calls) /\ m2[frame.host] \in Seq(Calls)
        BY <4>2, CallbacksType DEF TypeOK, Put
      <4>4. Len(m[frame.host]) <= Len(m2[frame.host])
        BY <2>2, <4>2
      <4>5. frame.i <= Len(m2[frame.host])
        BY <1>0, <4>2, <4>3, <4>4
      <4>. QED BY <2>2, <3>2, <4>1, <4>5
    <3>. QED BY <3>1, <3>2
  <2>. QED BY <1>2, <2>3, FrameKept DEF Resolve
<1>3. ASSUME NEW r \in Resolvers, Delete(r) PROVE FrameInVector'
  BY <1>3, <1>0, FrameKept DEF Delete, FrameInVector, TypeOK
<1>4. ASSUME HandleEvent PROVE FrameInVector'
  <2>1. PICK r \in Resolvers :
          /\ Handling(r)
          /\ \/ UNCHANGED <<kernel, fd_handler_map, batch, resolverVars>>
             \/ ErrorEvent(r)
             \/ r \in alive /\ DataEvent(r)
             \/ r \in alive /\ EmptyEvent(r)
    BY <1>4 DEF HandleEvent
  <2>2. CASE UNCHANGED resolverVars \/ ErrorEvent(r)
    BY <2>2, <1>1 DEF resolverVars, ErrorEvent, apiState
  <2>3. CASE r \in alive /\ DataEvent(r)
    <3>1. current.fd \in Fds /\ kernel.input[current.fd] \in Seq(Items)
      BY <2>1 DEF Handling, TypeOK, LoopTypeOK, Running, Kernel
    <3>2. Head(kernel.input[current.fd]) \in Items
      BY <2>3, <3>1 DEF DataEvent, Receives
    <3>. QED BY <2>1, <2>3, <3>2, HandleDataFrame DEF DataEvent, apiState, Handling
  <2>4. CASE r \in alive /\ EmptyEvent(r)
    <3>1. CASE \E d \in Items \cup {<<>>} : HandleData(r, d)
      BY <2>1, <2>4, <3>1, HandleDataFrame DEF EmptyEvent, apiState, Handling
    <3>2. CASE UNCHANGED <<hostname_to_cb, hostname_status_map, frame, answer>>
      BY <2>4, <3>2, <1>1 DEF EmptyEvent, apiState
    <3>. QED BY <2>4, <3>1, <3>2 DEF EmptyEvent
  <2>. QED BY <2>1, <2>2, <2>3, <2>4
<1>5. CASE CallbackReturns
  <2>1. CASE UNCHANGED <<hostname_to_cb, hostname_status_map, frame, answer>>
    BY <1>5, <2>1, <1>1 DEF CallbackReturns, apiState
  <2>2. CASE /\ frame.r \in alive
             /\ frame.i < Len(hostname_to_cb[frame.r][frame.host])
             /\ frame' = [frame EXCEPT !.i = @ + 1]
             /\ UNCHANGED hostname_to_cb
    <3>1. frame # NULL /\ UNCHANGED alive
      BY <1>5 DEF CallbackReturns, apiState
    <3>2. /\ frame'.r = frame.r /\ frame'.host = frame.host /\ frame'.ip = frame.ip
          /\ frame'.i = frame.i + 1
      BY <2>2, <3>1, <1>0 DEF Frame
    <3>3. hostname_to_cb[frame.r][frame.host] \in Seq(Calls)
      BY <2>2, <3>1, <1>0 DEF FrameInVector, TypeOK
    <3>4. frame.i + 1 <= Len(hostname_to_cb[frame.r][frame.host])
      BY <2>2, <3>1, <3>3, <1>0
    <3>. QED BY <2>2, <3>1, <3>2, <3>4 DEF FrameInVector, Truth
  <2>3. CASE frame' = NULL
    BY <2>3 DEF FrameInVector
  <2>. QED BY <1>5, <2>1, <2>2, <2>3 DEF CallbackReturns, EndCallbacks
<1>6. CASE LoopStep \/ Mishap \/ NameServers \/ UNCHANGED vars
  BY <1>6, <1>1 DEF LoopStep, Mishap, NameServers, Reply, DuplicateReply, apiState,
                    vars, resolverVars
<1>7. ASSUME NEW r \in Resolvers, CreateDnsSocket(r) \/ AddToLoop(r) \/ CloseResolver(r)
      PROVE  FrameInVector'
  BY <1>7, <1>1 DEF CreateDnsSocket, AddToLoop, CloseResolver
<1>. QED BY <1>2, <1>3, <1>4, <1>5, <1>6, <1>7 DEF Next, Application

LEMMA TypeAndFrame == Spec => [](TypeOK /\ FrameInVector)
<1>1. Init => TypeOK /\ FrameInVector
  BY TypeInit DEF Init, FrameInVector
<1>2. TypeOK /\ FrameInVector /\ [Next]_vars => (TypeOK /\ FrameInVector)'
  BY TypeStep, FrameStep
<1>. QED BY <1>1, <1>2, PTL DEF Spec

\* The resolvers' variables keep their types.
THEOREM TypeCorrect == Spec => []TypeOK
BY TypeAndFrame, PTL

\* The resolvers are legal clients of the event loop.
THEOREM ClientsOfTheLoop == Spec => ImplementsLoop
<1>1. Init => LoopInit
  BY DEF Init
<1>2. TypeOK /\ [Next]_vars => [LoopNext]_loopVars
  BY LoopView
<1>. QED BY <1>1, <1>2, TypeCorrect, PTL DEF Spec, ImplementsLoop, LoopSpec

\* So what the loop promises to any client holds for them.
COROLLARY ResolversAreHandled == Spec => []InterestHasHandler /\ NoEventIsLost
BY ClientsOfTheLoop, InterestIsHandled, EventsAreKept, PTL DEF ImplementsLoop

-----------------------------------------------------------------------------
(* The resolvers implement the lookup service. *)

LEMMA RestOfAppend ==
  ASSUME NEW S, NEW s \in Seq(S), NEW e \in S, NEW i \in Nat, i <= Len(s)
  PROVE  SubSeq(Append(s, e), i + 1, Len(s) + 1) = Append(SubSeq(s, i + 1, Len(s)), e)
<1>. DEFINE t == Append(s, e)
            x == SubSeq(t, i + 1, Len(s) + 1)
            w == SubSeq(s, i + 1, Len(s))
            y == Append(w, e)
<1>1. /\ t \in Seq(S) /\ Len(t) = Len(s) + 1
      /\ \A j \in 1 .. Len(s) : t[j] = s[j]
      /\ t[Len(s) + 1] = e
  BY AppendProperties
<1>2. /\ x \in Seq(S) /\ Len(x) = Len(s) + 1 - i
      /\ \A j \in 1 .. Len(s) + 1 - i : x[j] = t[i + j]
  <2>1. \A j \in i + 1 .. Len(s) + 1 : t[j] \in S
    BY <1>1
  <2>. QED BY <2>1, SubSeqProperties
<1>3. /\ w \in Seq(S) /\ Len(w) = Len(s) - i
      /\ \A j \in 1 .. Len(s) - i : w[j] = s[i + j]
  <2>1. \A j \in i + 1 .. Len(s) : s[j] \in S
    OBVIOUS
  <2>. QED BY <2>1, SubSeqProperties
<1>4. /\ y \in Seq(S) /\ Len(y) = Len(w) + 1
      /\ \A j \in 1 .. Len(w) : y[j] = w[j]
      /\ y[Len(w) + 1] = e
  BY <1>3, AppendProperties
<1>5. ASSUME NEW j \in 1 .. Len(x) PROVE x[j] = y[j]
  <2>1. CASE j <= Len(s) - i
    BY <1>1, <1>2, <1>3, <1>4, <2>1
  <2>2. CASE j = Len(s) - i + 1
    BY <1>1, <1>2, <1>3, <1>4, <2>2
  <2>. QED BY <1>2, <2>1, <2>2
<1>6. Len(x) = Len(y)
  BY <1>2, <1>3, <1>4
<1>. HIDE DEF x, y
<1>7. x = y
  BY <1>2, <1>4, <1>5, <1>6, SeqEqual
<1>. QED BY <1>7 DEF x, y

LEMMA RestHeadTail ==
  ASSUME NEW S, NEW s \in Seq(S), NEW i \in Nat, i < Len(s)
  PROVE  /\ SubSeq(s, i + 1, Len(s)) # <<>>
         /\ Head(SubSeq(s, i + 1, Len(s))) = s[i + 1]
         /\ Tail(SubSeq(s, i + 1, Len(s))) = SubSeq(s, i + 2, Len(s))
<1>1. i + 1 \in 1 .. Len(s) /\ Len(s) \in i + 1 .. Len(s) /\ (i + 1) + 1 = i + 2
  OBVIOUS
<1>2. /\ Head(SubSeq(s, i + 1, Len(s))) = s[i + 1]
      /\ Tail(SubSeq(s, i + 1, Len(s))) = SubSeq(s, (i + 1) + 1, Len(s))
  BY <1>1, HeadTailOfSubSeq
<1>3. Len(SubSeq(s, i + 1, Len(s))) = Len(s) - i
  <2>1. \A j \in i + 1 .. Len(s) : s[j] \in S
    OBVIOUS
  <2>. QED BY <2>1, SubSeqProperties
<1>4. SubSeq(s, i + 1, Len(s)) # <<>>
  <2>1. Len(s) \in Nat /\ Len(s) - i # 0
    OBVIOUS
  <2>2. Len(<<>>) = 0
    OBVIOUS
  <2>. QED BY <1>3, <2>1, <2>2, Zenon
<1>5. SubSeq(s, (i + 1) + 1, Len(s)) = SubSeq(s, i + 2, Len(s))
  BY <1>1
<1>. QED BY <1>2, <1>4, <1>5

\* A change of what waits for one name of one resolver.
LEMMA OneVectorChanges ==
  ASSUME NEW r \in Resolvers, NEW h \in Hosts, NEW v,
         Waiting(r, h)' = v,
         \A s \in Resolvers, g \in Hosts : s # r \/ g # h =>
           Waiting(s, g)' = Waiting(s, g)
  PROVE  Waitings' = [Waitings EXCEPT ![r][h] = v]
BY DEF Waitings

LEMMA NothingChanges ==
  ASSUME \A s \in Resolvers, g \in Hosts : Waiting(s, g)' = Waiting(s, g),
         UNCHANGED <<asked, answer>>
  PROVE  UNCHANGED Service!serviceVars
BY DEF Waitings, Service!serviceVars

LEMMA SameVectors ==
  ASSUME UNCHANGED <<hostname_to_cb, frame, alive, asked, answer>>
  PROVE  UNCHANGED Service!serviceVars
BY NothingChanges DEF Waiting, InFrame, Callbacks

LEMMA ResolveAsks ==
  ASSUME TypeOK, FrameInVector, NEW r \in Resolvers, NEW h \in Hosts,
         NEW c \in Calls, Resolve(r, h, c)
  PROVE  Service!Ask(r, h, c)
<1>. DEFINE v == Callbacks(r, h)
<1>1. /\ r \in alive /\ UNCHANGED <<frame, alive>>
      /\ hostname_to_cb' = [hostname_to_cb EXCEPT ![r] = Put(@, h, Append(v, c))]
  BY DEF Resolve, CanCall
<1>2. Callbacks(r, h)' = Append(v, c)
  BY <1>1 DEF Callbacks, Put, TypeOK
<1>3. \A s \in Resolvers, g \in Hosts : s # r \/ g # h =>
         Callbacks(s, g)' = Callbacks(s, g)
  BY <1>1 DEF Callbacks, Put, TypeOK
<1>4. v \in Seq(Calls)
  BY CallbacksType
<1>5. Waiting(r, h)' = Append(Waiting(r, h), c)
  <2>1. CASE InFrame(r, h)
    <3>1. /\ hostname_to_cb[r][h] = v /\ frame.i <= Len(v)
          /\ frame.i \in Nat \ {0}
      BY <1>1, <2>1 DEF InFrame, FrameInVector, Callbacks, TypeOK, Frame
    <3>2. hostname_to_cb'[r][h] = Append(v, c)
      BY <1>1, <1>2 DEF Put, TypeOK
    <3>3. SubSeq(Append(v, c), frame.i + 1, Len(v) + 1)
            = Append(SubSeq(v, frame.i + 1, Len(v)), c)
      BY <1>4, <3>1, RestOfAppend
    <3>4. Len(Append(v, c)) = Len(v) + 1
      BY <1>4
    <3>5. InFrame(r, h)' /\ r \in alive'
      BY <1>1, <2>1 DEF InFrame
    <3>. QED BY <1>1, <2>1, <3>1, <3>2, <3>3, <3>4, <3>5 DEF Waiting
  <2>2. CASE ~InFrame(r, h)
    BY <1>1, <1>2, <2>2 DEF Waiting, InFrame
  <2>. QED BY <2>1, <2>2
<1>6. \A s \in Resolvers, g \in Hosts : s # r \/ g # h =>
        Waiting(s, g)' = Waiting(s, g)
  <2>. SUFFICES ASSUME NEW s \in Resolvers, NEW g \in Hosts, s # r \/ g # h
                PROVE  Waiting(s, g)' = Waiting(s, g)
    OBVIOUS
  <2>1. CASE InFrame(s, g) /\ s \in alive
    <3>1. g \in DOMAIN hostname_to_cb[s]
      BY <2>1 DEF InFrame, FrameInVector
    <3>2. hostname_to_cb'[s][g] = hostname_to_cb[s][g]
      BY <1>1, <3>1 DEF Put, TypeOK
    <3>3. InFrame(s, g)' /\ s \in alive' /\ frame'.i = frame.i
      BY <1>1, <2>1 DEF InFrame
    <3>. QED BY <2>1, <3>2, <3>3 DEF Waiting
  <2>2. CASE ~(InFrame(s, g) /\ s \in alive)
    BY <1>1, <1>3, <2>2 DEF Waiting, InFrame
  <2>. QED BY <2>1, <2>2
<1>7. Waitings' = [Waitings EXCEPT ![r][h] = Append(@, c)]
  <2>1. Waitings' = [Waitings EXCEPT ![r][h] = Append(Waiting(r, h), c)]
    BY <1>5, <1>6, OneVectorChanges
  <2>. QED BY <2>1 DEF Waitings
<1>. QED BY <1>7 DEF Resolve, Service!Ask

LEMMA DeleteAbandons ==
  ASSUME TypeOK, NEW r \in Resolvers, Delete(r)
  PROVE  Service!Abandon(r)
<1>1. \A g \in Hosts : Waiting(r, g)' = <<>>
  BY DEF Delete, Waiting, Callbacks, TypeOK
<1>2. \A s \in Resolvers \ {r}, g \in Hosts : Waiting(s, g)' = Waiting(s, g)
  BY DEF Delete, Waiting, InFrame, Callbacks, TypeOK
<1>3. Waitings' = [Waitings EXCEPT ![r] = [g \in Hosts |-> <<>>]]
  BY <1>1, <1>2 DEF Waitings
<1>. QED BY <1>3 DEF Delete, Service!Abandon

\* The next callback is called, the first one of a vector or a later one.
LEMMA CallAnswers ==
  ASSUME TypeOK, NEW r \in alive, NEW h \in Hosts, NEW a \in Truth[h],
         NEW i \in Nat,
         h \in DOMAIN hostname_to_cb[r],
         i < Len(hostname_to_cb[r][h]),
         Waiting(r, h) = SubSeq(hostname_to_cb[r][h], i + 1, Len(hostname_to_cb[r][h])),
         \A s \in Resolvers, g \in Hosts : InFrame(s, g) => s = r /\ g = h,
         frame' = [r |-> r, host |-> h, ip |-> a, i |-> i + 1],
         answer' = [answer EXCEPT ![hostname_to_cb[r][h][i + 1]] = a],
         UNCHANGED <<hostname_to_cb, alive, asked>>,
         frame' # NULL
  PROVE  Service!Answer(r, h, a)
<1>. DEFINE v == hostname_to_cb[r][h]
<1>0. r \in Resolvers /\ v \in Seq(Calls)
  BY DEF TypeOK
<1>1. /\ Waiting(r, h) # <<>>
      /\ Head(Waiting(r, h)) = v[i + 1]
      /\ Tail(Waiting(r, h)) = SubSeq(v, i + 2, Len(v))
  BY <1>0, RestHeadTail
<1>2. Waiting(r, h)' = SubSeq(v, i + 2, Len(v))
  <2>1. InFrame(r, h)' /\ r \in alive' /\ frame'.i = i + 1 /\ (i + 1) + 1 = i + 2
    BY DEF InFrame
  <2>. QED BY <2>1 DEF Waiting
<1>3. \A s \in Resolvers, g \in Hosts : s # r \/ g # h =>
        Waiting(s, g)' = Waiting(s, g)
  BY DEF Waiting, InFrame, Callbacks
<1>4. Waitings' = [Waitings EXCEPT ![r][h] = Tail(@)]
  <2>0. Waiting(r, h)' = Tail(Waiting(r, h))
    BY <1>1, <1>2
  <2>1. Waitings' = [Waitings EXCEPT ![r][h] = Tail(Waiting(r, h))]
    BY <1>0, <1>3, <2>0, OneVectorChanges
  <2>. QED BY <1>0, <2>1 DEF Waitings
<1>. QED BY <1>0, <1>1, <1>4 DEF Service!Answer, Waitings

\* Where no callback is being called, handle_data is a step of the service:
\* an answer, or nothing for it.
LEMMA HandleDataServes ==
  ASSUME TypeOK, NEW r \in alive, NEW d \in Items \cup {<<>>}, HandleData(r, d),
         frame = NULL, UNCHANGED <<alive, asked>>
  PROVE  [Service!Next]_(Service!serviceVars)
<1>0. r \in Resolvers
  BY DEF TypeOK
<1>1. CASE NothingCalled
  BY <1>1, SameVectors DEF NothingCalled
<1>2. ASSUME NEW i \in FirstA(d), d[i].name \in DOMAIN hostname_to_cb[r],
             hostname_to_cb[r][d[i].name] # <<>>,
             BeginCallbacks(r, d[i].name, d[i].ip)
      PROVE  Service!Next
  <2>. DEFINE h == d[i].name
              a == d[i].ip
              v == hostname_to_cb[r][h]
  <2>1. h \in Hosts /\ a \in Truth[h]
    BY RecordsAreTrue
  <2>2. v \in Seq(Calls)
    BY <1>0, <1>2 DEF TypeOK
  <2>3. 0 < Len(v) /\ Head(v) = v[0 + 1] /\ SubSeq(v, 0 + 1, Len(v)) = v
    BY <1>2, <2>2, SubSeqFull
  <2>4. Waiting(r, h) = SubSeq(v, 0 + 1, Len(v))
    BY <1>2, <2>3 DEF Waiting, InFrame, Callbacks
  <2>5. \A s \in Resolvers, g \in Hosts : ~InFrame(s, g)
    BY DEF InFrame
  <2>6. /\ frame' = [r |-> r, host |-> h, ip |-> a, i |-> 0 + 1]
        /\ answer' = [answer EXCEPT ![v[0 + 1]] = a]
        /\ UNCHANGED hostname_to_cb
    BY <1>2, <2>3 DEF BeginCallbacks
  <2>7. frame' # NULL
    <3>1. a \in Addrs
      BY DEF FirstA, ARecords, Record
    <3>. QED BY <1>0, <2>1, <2>6, <3>1 DEF Frame
  <2>8. Service!Answer(r, h, a)
    BY <1>2, <2>1, <2>3, <2>4, <2>5, <2>6, <2>7, CallAnswers
  <2>. QED BY <1>0, <2>1, <2>8 DEF Service!Next
<1>3. ASSUME NEW h \in DOMAIN hostname_to_cb[r], hostname_to_cb[r][h] = <<>>,
             EndCallbacks(r, h)
      PROVE  UNCHANGED Service!serviceVars
  <2>. DEFINE f == hostname_to_cb[r]
  <2>1. [f EXCEPT ![h] = <<>>] = f
    <3>1. f \in [DOMAIN f -> Seq(Calls)]
      BY <1>0 DEF TypeOK
    <3>. QED BY <1>3, <3>1
  <2>2. hostname_to_cb' = [hostname_to_cb EXCEPT ![r] = [f EXCEPT ![h] = <<>>]]
    BY <1>3 DEF EndCallbacks
  <2>3. \A s \in Resolvers : hostname_to_cb'[s] = hostname_to_cb[s]
    BY <1>0, <2>1, <2>2 DEF TypeOK
  <2>4. \A s \in Resolvers, g \in Hosts : Waiting(s, g)' = Waiting(s, g)
    BY <1>3, <2>3 DEF Waiting, InFrame, Callbacks, EndCallbacks
  <2>. QED BY <1>3, <2>4, NothingChanges DEF EndCallbacks
<1>. QED BY <1>1, <1>2, <1>3 DEF HandleData, CallCallback

LEMMA CallbackReturnsServes ==
  ASSUME TypeOK, FrameInVector, CallbackReturns
  PROVE  [Service!Next]_(Service!serviceVars)
<1>0. frame \in Frame /\ frame # NULL
  BY DEF CallbackReturns, TypeOK
<1>. SUFFICES ASSUME NEW r \in Resolvers, NEW h \in Hosts,
                     r = frame.r, h = frame.host
              PROVE  [Service!Next]_(Service!serviceVars)
  BY <1>0 DEF Frame
<1>. DEFINE v == hostname_to_cb[r][h]
<1>1. /\ frame \in Frame /\ frame # NULL
      /\ frame.i \in Nat
      /\ frame.ip \in Addrs /\ frame.ip \in Truth[h]
      /\ UNCHANGED <<alive, asked>>
  BY <1>0 DEF CallbackReturns, Frame, FrameInVector, apiState
<1>2. CASE UNCHANGED <<hostname_to_cb, hostname_status_map, frame, answer>>
  BY <1>1, <1>2, SameVectors
<1>3. CASE /\ r \in alive
           /\ frame.i < Len(v)
           /\ frame' = [frame EXCEPT !.i = @ + 1]
           /\ answer' = [answer EXCEPT ![v[frame.i + 1]] = frame.ip]
           /\ UNCHANGED hostname_to_cb
  <2>1. h \in DOMAIN hostname_to_cb[r]
    BY <1>1, <1>3 DEF FrameInVector
  <2>2. Waiting(r, h) = SubSeq(v, frame.i + 1, Len(v))
    BY <1>1, <1>3 DEF Waiting, InFrame
  <2>3. \A s \in Resolvers, g \in Hosts : InFrame(s, g) => s = r /\ g = h
    BY DEF InFrame
  <2>4. frame' = [r |-> r, host |-> h, ip |-> frame.ip, i |-> frame.i + 1]
    BY <1>1, <1>3 DEF Frame
  <2>5. frame' # NULL
    BY <1>1, <2>4 DEF Frame
  <2>6. Service!Answer(r, h, frame.ip)
    BY <1>1, <1>3, <2>1, <2>2, <2>3, <2>4, <2>5, CallAnswers
  <2>. QED BY <1>1, <2>6 DEF Service!Next
<1>4. CASE r \in alive /\ ~(frame.i < Len(v)) /\ EndCallbacks(r, h)
  <2>1. h \in DOMAIN hostname_to_cb[r] /\ v \in Seq(Calls)
    BY <1>1, <1>4 DEF FrameInVector, TypeOK
  <2>2. hostname_to_cb' = [hostname_to_cb EXCEPT ![r][h] = <<>>] /\ frame' = NULL
    BY <1>4 DEF EndCallbacks
  <2>3. Waiting(r, h) = <<>>
    <3>1. Waiting(r, h) = SubSeq(v, frame.i + 1, Len(v))
      BY <1>1, <1>4 DEF Waiting, InFrame
    <3>2. Len(v) < frame.i + 1 /\ Len(v) \in Int /\ frame.i + 1 \in Int
      BY <1>1, <1>4, <2>1
    <3>. QED BY <3>1, <3>2, SubSeqEmpty
  <2>4. Waiting(r, h)' = <<>>
    <3>1. ~InFrame(r, h)'
      BY <2>2 DEF InFrame
    <3>2. hostname_to_cb'[r] = [hostname_to_cb[r] EXCEPT ![h] = <<>>]
      BY <1>1, <2>2 DEF TypeOK
    <3>3. hostname_to_cb'[r][h] = <<>>
      BY <2>1, <3>2
    <3>4. Callbacks(r, h)' = <<>>
      BY <1>1, <3>3 DEF Callbacks
    <3>. QED BY <3>1, <3>4 DEF Waiting
  <2>5. \A s \in Resolvers, g \in Hosts : s # r \/ g # h =>
          Waiting(s, g)' = Waiting(s, g)
    <3>. SUFFICES ASSUME NEW s \in Resolvers, NEW g \in Hosts, s # r \/ g # h
                  PROVE  Waiting(s, g)' = Waiting(s, g)
      OBVIOUS
    <3>1. ~InFrame(s, g) /\ ~InFrame(s, g)'
      BY <2>2 DEF InFrame
    <3>2. Callbacks(s, g)' = Callbacks(s, g)
      BY <1>1, <2>1, <2>2 DEF Callbacks, TypeOK
    <3>. QED BY <3>1, <3>2 DEF Waiting
  <2>. QED BY <1>1, <1>4, <2>3, <2>4, <2>5, NothingChanges DEF EndCallbacks
<1>5. \/ UNCHANGED <<hostname_to_cb, hostname_status_map, frame, answer>>
      \/ /\ r \in alive
         /\ frame.i < Len(v)
         /\ frame' = [frame EXCEPT !.i = @ + 1]
         /\ answer' = [answer EXCEPT ![v[frame.i + 1]] = frame.ip]
         /\ UNCHANGED hostname_to_cb
      \/ r \in alive /\ ~(frame.i < Len(v)) /\ EndCallbacks(r, h)
  <2>1. CASE r \notin alive
    BY <2>1 DEF CallbackReturns
  <2>2. CASE r \in alive /\ frame.i < Len(v)
    BY <2>2 DEF CallbackReturns
  <2>3. CASE r \in alive /\ ~(frame.i < Len(v))
    BY <2>3 DEF CallbackReturns
  <2>. QED BY <2>1, <2>2, <2>3
<1>. QED BY <1>2, <1>3, <1>4, <1>5

LEMMA ServiceStep ==
  TypeOK /\ FrameInVector /\ [Next]_vars => [Service!Next]_(Service!serviceVars)
<1>. SUFFICES ASSUME TypeOK, FrameInVector, [Next]_vars
              PROVE  [Service!Next]_(Service!serviceVars)
  OBVIOUS
<1>1. CASE UNCHANGED <<hostname_to_cb, frame, alive, asked, answer>>
  BY <1>1, SameVectors
<1>2. ASSUME NEW r \in Resolvers, NEW h \in Hosts, NEW c \in Calls, Resolve(r, h, c)
      PROVE  Service!Next
  BY <1>2, ResolveAsks DEF Service!Next
<1>3. ASSUME NEW r \in Resolvers, Delete(r) PROVE Service!Next
  BY <1>3, DeleteAbandons DEF Service!Next
<1>4. CASE HandleEvent
  <2>1. PICK r \in Resolvers :
          /\ Handling(r)
          /\ \/ UNCHANGED <<kernel, fd_handler_map, batch, resolverVars>>
             \/ ErrorEvent(r)
             \/ r \in alive /\ DataEvent(r)
             \/ r \in alive /\ EmptyEvent(r)
    BY <1>4 DEF HandleEvent
  <2>2. CASE UNCHANGED resolverVars \/ ErrorEvent(r)
    BY <2>2, <1>1 DEF resolverVars, ErrorEvent, apiState
  <2>3. CASE r \in alive /\ DataEvent(r)
    <3>1. current.fd \in Fds /\ kernel.input[current.fd] \in Seq(Items)
      BY <2>1 DEF Handling, TypeOK, LoopTypeOK, Running, Kernel
    <3>2. Head(kernel.input[current.fd]) \in Items
      BY <2>3, <3>1 DEF DataEvent, Receives
    <3>. QED BY <2>1, <2>3, <3>2, HandleDataServes DEF DataEvent, apiState, Handling
  <2>4. CASE r \in alive /\ EmptyEvent(r)
    <3>1. CASE \E d \in Items \cup {<<>>} : HandleData(r, d)
      BY <2>1, <2>4, <3>1, HandleDataServes DEF EmptyEvent, apiState, Handling
    <3>2. CASE UNCHANGED <<hostname_to_cb, hostname_status_map, frame, answer>>
      BY <2>4, <3>2, <1>1 DEF EmptyEvent, apiState
    <3>. QED BY <2>4, <3>1, <3>2 DEF EmptyEvent
  <2>. QED BY <2>1, <2>2, <2>3, <2>4
<1>5. CASE CallbackReturns
  BY <1>5, CallbackReturnsServes
<1>6. CASE LoopStep \/ Mishap \/ NameServers \/ UNCHANGED vars
  BY <1>6, <1>1 DEF LoopStep, Mishap, NameServers, Reply, DuplicateReply, apiState,
                    vars, resolverVars
<1>7. ASSUME NEW r \in Resolvers, CreateDnsSocket(r) \/ AddToLoop(r) \/ CloseResolver(r)
      PROVE  UNCHANGED Service!serviceVars
  BY <1>7, <1>1, SameVectors DEF CreateDnsSocket, AddToLoop, CloseResolver
<1>. QED BY <1>2, <1>3, <1>4, <1>5, <1>6, <1>7 DEF Next, Application

\* However application code, name servers and descriptors are mixed up,
\* callbacks are called in order, at most once, for the name they were given
\* for, with an address of that name.
THEOREM ResolversServe == Spec => ServiceSpec
<1>1. Init => Service!Init
  BY DEF Init, Service!Init, Waitings, Waiting, InFrame, Callbacks
<1>2. TypeOK /\ FrameInVector /\ [Next]_vars => [Service!Next]_(Service!serviceVars)
  BY ServiceStep
<1>. QED BY <1>1, <1>2, TypeAndFrame, PTL DEF Spec, ServiceSpec, Service!Spec

-----------------------------------------------------------------------------
(***************************************************************************)
(* Nobody who waits is forgotten.  call_callback clears the vector when it *)
(* is through, whatever the callbacks have pushed on it meanwhile.         *)
(***************************************************************************)

\* The call stands in the vector of its name and, where call_callback goes
\* through that vector, behind the element it is at.
StandsIn(r, h, c) ==
  /\ h \in DOMAIN hostname_to_cb[r]
  /\ \E i \in DOMAIN hostname_to_cb[r][h] :
       hostname_to_cb[r][h][i] = c /\ (InFrame(r, h) => frame.i < i)

\* The inductive invariant: a call that has no address yet stands in a vector,
\* unless its resolver is gone.
NobodyForgotten ==
  \A c \in Calls, r \in alive, h \in Hosts :
    asked[c] = <<r, h>> /\ answer[c] = NULL => StandsIn(r, h, c)

LEMMA VectorTypes ==
  ASSUME TypeOK
  PROVE  /\ alive \subseteq Resolvers
         /\ \A r \in Resolvers : \A h \in DOMAIN hostname_to_cb[r] :
              hostname_to_cb[r][h] \in Seq(Calls) /\ h \in Hosts
         /\ frame # NULL => /\ frame \in Frame /\ frame.r \in Resolvers
                            /\ frame.host \in Hosts /\ frame.ip \in Addrs
                            /\ frame.i \in Nat
BY DEF TypeOK, Frame

LEMMA ResolveForgetsNobody ==
  ASSUME TypeOK, FrameInVector, NobodyForgotten,
         NEW r \in Resolvers, NEW h \in Hosts, NEW c \in Calls, Resolve(r, h, c)
  PROVE  NobodyForgotten'
<1>. DEFINE m == hostname_to_cb[r]
            v == Callbacks(r, h)
<1>1. /\ hostname_to_cb' = [hostname_to_cb EXCEPT ![r] = Put(m, h, Append(v, c))]
      /\ asked' = [asked EXCEPT ![c] = <<r, h>>]
      /\ UNCHANGED <<alive, frame, answer>>
  BY DEF Resolve
<1>2. v \in Seq(Calls) /\ (frame # NULL => frame.i \in Nat)
  BY VectorTypes DEF Callbacks
<1>3. \A s \in Resolvers, g \in Hosts :
        s # r \/ g # h =>
          /\ g \in DOMAIN hostname_to_cb'[s] <=> g \in DOMAIN hostname_to_cb[s]
          /\ g \in DOMAIN hostname_to_cb[s] => hostname_to_cb'[s][g] = hostname_to_cb[s][g]
  BY <1>1 DEF Put, TypeOK
<1>4. h \in DOMAIN hostname_to_cb'[r] /\ hostname_to_cb'[r][h] = Append(v, c)
  BY <1>1 DEF Put, TypeOK
<1>5. ASSUME NEW d \in Calls, NEW s \in alive', NEW g \in Hosts,
             asked'[d] = <<s, g>>, answer'[d] = NULL
      PROVE  StandsIn(s, g, d)'
  <2>1. s \in alive /\ s \in Resolvers
    BY <1>1, VectorTypes
  <2>2. CASE d = c
    \* The call is the last element of its vector.
    <3>1. s = r /\ g = h
      BY <1>1, <1>5, <2>2 DEF TypeOK
    <3>2. Len(v) + 1 \in DOMAIN Append(v, c) /\ Append(v, c)[Len(v) + 1] = c
      BY <1>2
    <3>3. InFrame(r, h) => frame.i < Len(v) + 1
      <4>. SUFFICES ASSUME InFrame(r, h) PROVE frame.i < Len(v) + 1
        OBVIOUS
      <4>1. frame.i <= Len(v)
        BY <2>1, <3>1 DEF FrameInVector, InFrame, Callbacks
      <4>. QED BY <1>2, <4>1 DEF InFrame
    <3>. HIDE DEF v
    <3>4. /\ h \in DOMAIN hostname_to_cb'[r]
          /\ \E i \in DOMAIN hostname_to_cb'[r][h] :
               hostname_to_cb'[r][h][i] = c /\ (InFrame(r, h) => frame.i < i)
      BY <1>4, <3>2, <3>3
    <3>. QED BY <1>1, <2>2, <3>1, <3>4 DEF StandsIn, InFrame
  <2>3. CASE d # c
    <3>1. asked[d] = <<s, g>> /\ answer[d] = NULL
      BY <1>1, <1>5, <2>3 DEF TypeOK
    <3>2. StandsIn(s, g, d)
      BY <2>1, <3>1 DEF NobodyForgotten
    <3>3. CASE s # r \/ g # h
      BY <1>1, <1>3, <2>1, <3>2, <3>3 DEF StandsIn, InFrame
    <3>4. CASE s = r /\ g = h
      <4>1. v = hostname_to_cb[r][h]
        BY <3>2, <3>4 DEF StandsIn, Callbacks
      <4>2. PICK i \in DOMAIN v : v[i] = d /\ (InFrame(r, h) => frame.i < i)
        BY <3>2, <3>4, <4>1 DEF StandsIn
      <4>3. i \in DOMAIN Append(v, c) /\ Append(v, c)[i] = d
        BY <1>2, <4>2
      <4>. QED BY <1>1, <1>4, <3>4, <4>2, <4>3 DEF StandsIn, InFrame
    <3>. QED BY <3>3, <3>4
  <2>. QED BY <2>2, <2>3
<1>. QED BY <1>5 DEF NobodyForgotten

\* What leaves vectors, calls and the iteration alone forgets nobody, and
\* neither does the end of a resolver, which nobody waits for any more.
LEMMA UntouchedVectors ==
  ASSUME NobodyForgotten, alive' \subseteq alive,
         \A r \in alive' : hostname_to_cb'[r] = hostname_to_cb[r],
         UNCHANGED <<frame, asked, answer>>
  PROVE  NobodyForgotten'
BY DEF NobodyForgotten, StandsIn, InFrame

\* Going to the next element, or to the first: that one gets its address.
LEMMA NextIsAnswered ==
  ASSUME TypeOK, NobodyForgotten, UNCHANGED <<alive, asked, hostname_to_cb>>,
         NEW r \in Resolvers, NEW h \in DOMAIN hostname_to_cb[r],
         NEW i \in 1 .. Len(hostname_to_cb[r][h]), NEW a \in Addrs,
         frame' # NULL, frame'.r = r, frame'.host = h, frame'.i = i,
         \/ frame = NULL /\ i = 1
         \/ InFrame(r, h) /\ i = frame.i + 1,
         answer' = [answer EXCEPT ![hostname_to_cb[r][h][i]] = a]
  PROVE  NobodyForgotten'
<1>. DEFINE v == hostname_to_cb[r][h]
<1>1. v \in Seq(Calls) /\ (frame # NULL => frame.i \in Nat)
  BY VectorTypes
<1>2. v[i] \in Calls /\ i \in Nat
  BY <1>1
<1>3. ASSUME NEW d \in Calls, NEW s \in alive', NEW g \in Hosts,
             asked'[d] = <<s, g>>, answer'[d] = NULL
      PROVE  StandsIn(s, g, d)'
  <2>1. answer[d] = NULL /\ d # v[i]
    BY <1>2, <1>3 DEF TypeOK
  <2>2. StandsIn(s, g, d)
    BY <1>3, <2>1 DEF NobodyForgotten
  <2>3. CASE s # r \/ g # h
    BY <2>2, <2>3 DEF StandsIn, InFrame
  <2>4. CASE s = r /\ g = h
    <3>1. PICK j \in DOMAIN v : v[j] = d /\ (InFrame(r, h) => frame.i < j)
      BY <2>2, <2>4 DEF StandsIn
    <3>2. j \in Nat \ {0} /\ j # i
      BY <1>1, <2>1, <3>1
    <3>3. i < j
      BY <1>1, <1>2, <3>1, <3>2 DEF InFrame
    <3>. QED BY <2>2, <2>4, <3>1, <3>3 DEF StandsIn, InFrame
  <2>. QED BY <2>3, <2>4
<1>. QED BY <1>3 DEF NobodyForgotten

\* clear() empties a vector in which nobody waits.
LEMMA NobodyLeft ==
  ASSUME TypeOK, NobodyForgotten, UNCHANGED <<alive, asked>>,
         NEW r \in Resolvers, NEW h \in DOMAIN hostname_to_cb[r],
         \/ frame = NULL /\ hostname_to_cb[r][h] = <<>>
         \/ InFrame(r, h) /\ ~(frame.i < Len(hostname_to_cb[r][h])),
         EndCallbacks(r, h)
  PROVE  /\ NobodyForgotten'
         /\ r \in alive => \A c \in Calls : asked[c] = <<r, h>> => answer[c] # NULL
<1>. DEFINE v == hostname_to_cb[r][h]
<1>1. v \in Seq(Calls) /\ h \in Hosts /\ (frame # NULL => frame.i \in Nat)
  BY VectorTypes
<1>2. \A c : ~StandsIn(r, h, c)
  <2>1. CASE frame = NULL /\ v = <<>>
    BY <2>1 DEF StandsIn
  <2>2. CASE InFrame(r, h) /\ ~(frame.i < Len(v))
    <3>1. frame.i \in Nat /\ DOMAIN v = 1 .. Len(v) /\ Len(v) \in Nat
      BY <1>1, <2>2 DEF InFrame
    <3>2. \A i \in DOMAIN v : ~(frame.i < i)
      BY <2>2, <3>1
    <3>. QED BY <2>2, <3>2 DEF StandsIn
  <2>. QED BY <2>1, <2>2
<1>3. r \in alive => \A c \in Calls : asked[c] = <<r, h>> => answer[c] # NULL
  BY <1>1, <1>2 DEF NobodyForgotten
<1>4. /\ hostname_to_cb' = [hostname_to_cb EXCEPT ![r][h] = <<>>]
      /\ frame' = NULL /\ answer' = answer
  BY DEF EndCallbacks
<1>5. ASSUME NEW d \in Calls, NEW s \in alive', NEW g \in Hosts,
             asked'[d] = <<s, g>>, answer'[d] = NULL
      PROVE  StandsIn(s, g, d)'
  <2>1. StandsIn(s, g, d) /\ s \in Resolvers
    BY <1>4, <1>5, VectorTypes DEF NobodyForgotten
  <2>2. s # r \/ g # h
    BY <1>2, <2>1
  <2>3. /\ g \in DOMAIN hostname_to_cb'[s]
        /\ hostname_to_cb'[s][g] = hostname_to_cb[s][g]
    BY <1>4, <2>1, <2>2 DEF StandsIn, TypeOK
  <2>. QED BY <1>4, <2>1, <2>3 DEF StandsIn, InFrame
<1>. QED BY <1>3, <1>5 DEF NobodyForgotten

LEMMA HandleDataForgetsNobody ==
  ASSUME TypeOK, NobodyForgotten, UNCHANGED <<alive, asked>>, frame = NULL,
         NEW r \in Resolvers, NEW d \in Items \cup {<<>>}, HandleData(r, d)
  PROVE  NobodyForgotten'
<1>1. CASE NothingCalled
  BY <1>1, UntouchedVectors DEF NothingCalled
<1>2. ASSUME NEW i \in FirstA(d), CallCallback(r, d[i].name, d[i].ip)
      PROVE  NobodyForgotten'
  <2>. DEFINE h == d[i].name
              v == hostname_to_cb[r][h]
  <2>1. d[i].ip \in Addrs /\ h \in Hosts
    <3>1. i \in DOMAIN d /\ d[i].type = "A" /\ d \in Seq(Record)
      BY DEF FirstA, ARecords
    <3>. QED BY <3>1 DEF Record
  <2>2. CASE h \in DOMAIN hostname_to_cb[r] /\ v # <<>> /\ BeginCallbacks(r, h, d[i].ip)
    <3>1. v \in Seq(Calls)
      BY <2>2, VectorTypes
    <3>2. 1 \in 1 .. Len(v) /\ Head(v) = v[1]
      BY <2>2, <3>1
    <3>3. frame' = [r |-> r, host |-> h, ip |-> d[i].ip, i |-> 1] /\ frame' # NULL
      <4>1. [r |-> r, host |-> h, ip |-> d[i].ip, i |-> 1] \in Frame
        BY <2>1 DEF Frame
      <4>. QED BY <2>2, <4>1 DEF BeginCallbacks
    <3>4. answer' = [answer EXCEPT ![v[1]] = d[i].ip] /\ UNCHANGED hostname_to_cb
      BY <2>2, <3>2 DEF BeginCallbacks
    <3>5. frame'.r = r /\ frame'.host = h /\ frame'.i = 1
      BY <3>3
    <3>6. h \in DOMAIN hostname_to_cb[r] /\ d[i].ip \in Addrs
      BY <2>1, <2>2
    <3>. HIDE DEF h
    <3>. QED BY <3>2, <3>3, <3>4, <3>5, <3>6, NextIsAnswered
  <2>3. CASE h \in DOMAIN hostname_to_cb[r] /\ v = <<>> /\ EndCallbacks(r, h)
    BY <2>3, NobodyLeft
  <2>. QED BY <1>1, <1>2, <2>2, <2>3 DEF CallCallback
<1>. QED BY <1>1, <1>2 DEF HandleData

LEMMA CallbackReturnForgetsNobody ==
  ASSUME TypeOK, FrameInVector, NobodyForgotten, CallbackReturns
  PROVE  /\ NobodyForgotten'
         /\ frame' = NULL =>
              \A c \in Calls : asked[c] = <<frame.r, frame.host>> => answer[c] # NULL
<1>. DEFINE r == frame.r
            h == frame.host
<1>1. /\ frame # NULL /\ frame \in Frame /\ UNCHANGED <<alive, asked>>
      /\ r \in Resolvers /\ h \in Hosts /\ frame.i \in Nat /\ frame.ip \in Addrs
  BY VectorTypes DEF CallbackReturns, apiState
<1>2. CASE r \notin alive
  BY <1>1, <1>2, UntouchedVectors DEF CallbackReturns
<1>3. CASE r \in alive
  <2>. DEFINE v == hostname_to_cb[r][h]
  <2>1. h \in DOMAIN hostname_to_cb[r] /\ v \in Seq(Calls) /\ InFrame(r, h)
    BY <1>1, <1>3, VectorTypes DEF FrameInVector, InFrame
  <2>2. CASE frame.i < Len(v)
    <3>1. /\ frame' = [frame EXCEPT !.i = @ + 1]
          /\ answer' = [answer EXCEPT ![v[frame.i + 1]] = frame.ip]
          /\ UNCHANGED hostname_to_cb
      BY <1>3, <2>2 DEF CallbackReturns
    <3>2. frame' \in Frame /\ frame' # NULL
      BY <1>1, <3>1 DEF Frame
    <3>3. frame'.r = r /\ frame'.host = h /\ frame'.i = frame.i + 1
      BY <1>1, <3>1 DEF Frame
    <3>4. PICK i \in 1 .. Len(v) : i = frame.i + 1
      <4>1. frame.i + 1 \in 1 .. Len(v)
        BY <1>1, <2>1, <2>2
      <4>. QED BY <4>1
    <3>5. /\ frame'.i = i /\ UNCHANGED <<alive, asked, hostname_to_cb>>
          /\ answer' = [answer EXCEPT ![hostname_to_cb[r][h][i]] = frame.ip]
      BY <1>1, <3>1, <3>3, <3>4
    <3>6. PICK a \in Addrs : a = frame.ip
      BY <1>1
    <3>. HIDE DEF r, h
    <3>. QED BY <1>1, <2>1, <3>2, <3>3, <3>4, <3>5, <3>6, NextIsAnswered
  <2>3. CASE ~(frame.i < Len(v))
    <3>1. EndCallbacks(r, h)
      BY <1>3, <2>3 DEF CallbackReturns
    <3>. HIDE DEF r, h
    <3>2. /\ NobodyForgotten'
          /\ \A c \in Calls : asked[c] = <<r, h>> => answer[c] # NULL
      BY <1>1, <1>3, <2>1, <2>3, <3>1, NobodyLeft
    <3>. QED BY <3>2 DEF r, h
  <2>. QED BY <2>2, <2>3
<1>. QED BY <1>2, <1>3

LEMMA WaiterStep ==
  ASSUME TypeOK, FrameInVector, NobodyForgotten, [Next]_vars
  PROVE  /\ NobodyForgotten'
         /\ frame # NULL /\ frame' = NULL =>
              \A c \in Calls : asked[c] = <<frame.r, frame.host>> => answer[c] # NULL
<1>1. CASE Application
  <2>1. frame' = frame
    BY <1>1 DEF Application, CreateDnsSocket, AddToLoop, Resolve, CloseResolver, Delete
  <2>2. ASSUME NEW r \in Resolvers, CreateDnsSocket(r) \/ AddToLoop(r) \/ CloseResolver(r)
        PROVE  NobodyForgotten'
    BY <2>2, UntouchedVectors DEF CreateDnsSocket, AddToLoop, CloseResolver
  <2>3. ASSUME NEW r \in Resolvers, Delete(r) PROVE NobodyForgotten'
    <3>1. \A s \in alive' : hostname_to_cb'[s] = hostname_to_cb[s]
      BY <2>3, VectorTypes DEF Delete, TypeOK
    <3>. QED BY <2>3, <3>1, UntouchedVectors DEF Delete
  <2>. QED BY <1>1, <2>1, <2>2, <2>3, ResolveForgetsNobody DEF Application
<1>2. CASE HandleEvent
  <2>1. PICK r \in Resolvers :
          /\ Handling(r)
          /\ UNCHANGED resolverVars \/ ErrorEvent(r) \/ DataEvent(r) \/ EmptyEvent(r)
    BY <1>2 DEF HandleEvent
  <2>2. frame = NULL
    BY <2>1 DEF Handling
  <2>3. CASE UNCHANGED resolverVars \/ ErrorEvent(r)
    BY <2>3, UntouchedVectors DEF resolverVars, ErrorEvent, apiState
  <2>4. CASE DataEvent(r)
    <3>1. kernel.input[current.fd] \in Seq(Items)
      BY <2>1 DEF Handling, TypeOK, LoopTypeOK, Running, Kernel
    <3>2. Head(kernel.input[current.fd]) \in Items
      BY <2>4, <3>1 DEF DataEvent, Receives
    <3>. QED BY <2>2, <2>4, <3>2, HandleDataForgetsNobody DEF DataEvent, apiState
  <2>5. CASE EmptyEvent(r)
    <3>1. CASE \E d \in Items \cup {<<>>} : HandleData(r, d)
      BY <2>2, <2>5, <3>1, HandleDataForgetsNobody DEF EmptyEvent, apiState
    <3>2. CASE UNCHANGED <<hostname_to_cb, frame, answer>>
      BY <2>5, <3>2, UntouchedVectors DEF EmptyEvent, apiState
    <3>. QED BY <2>5, <3>1, <3>2 DEF EmptyEvent
  <2>. QED BY <2>1, <2>2, <2>3, <2>4, <2>5
<1>3. CASE CallbackReturns
  BY <1>3, CallbackReturnForgetsNobody
<1>4. CASE LoopStep \/ NameServers \/ Mishap \/ UNCHANGED vars
  <2>1. UNCHANGED <<hostname_to_cb, frame, alive, asked, answer>>
    BY <1>4 DEF LoopStep, NameServers, Reply, DuplicateReply, Mishap, apiState,
                vars, resolverVars
  <2>. QED BY <2>1, UntouchedVectors
<1>. QED BY <1>1, <1>2, <1>3, <1>4 DEF Next

\* When call_callback is through with a name, every callback registered for it
\* has been given an address, those included that other callbacks registered on
\* the way, whatever else the application, the network and the kernel do.
THEOREM EveryWaiterServed == Spec => AllWaitersServed
<1>1. Init => NobodyForgotten
  <2>1. \A r \in Resolvers, h \in Hosts : <<r, h>> # NULL
    BY AskedAssumption
  <2>. QED BY <2>1 DEF Init, NobodyForgotten
<1>2. TypeOK /\ FrameInVector /\ NobodyForgotten /\ [Next]_vars => NobodyForgotten'
  BY WaiterStep
<1>3. TypeOK /\ FrameInVector /\ NobodyForgotten /\ [Next]_vars =>
        [frame # NULL /\ frame' = NULL =>
           \A c \in Calls : asked[c] = <<frame.r, frame.host>> => answer[c] # NULL]_vars
  BY WaiterStep
<1>. QED BY <1>1, <1>2, <1>3, TypeAndFrame, PTL DEF Spec, AllWaitersServed

-----------------------------------------------------------------------------
(***************************************************************************)
(* Who owns which descriptor.  The loop knows a resolver by a number and a *)
(* resolver remembers that number for ever, while close() and the kernel   *)
(* give numbers back and hand them out again.  For every number of         *)
(* resolvers and descriptors: an entry of fd_handler_map is always one of  *)
(* the resolver's own number, and where nobody uses a resolver it has      *)
(* closed and no socket fails, every resolver keeps the socket it has.     *)
(***************************************************************************)
\* No resolver is used after close() and the kernel reports no errors.
Disciplined == Allowed \cap {"after close", "error"} = {}

\* The state of the sockets; most steps leave it alone.
sockets == <<kernel.open, kernel.interest, fd_handler_map, dns_socket, loop, closed>>

\* Only four operations touch the sockets: the events do not, unless one
\* reports an error, and neither does the network.
LEMMA SocketSteps ==
  ASSUME TypeOK, [Next]_vars
  PROVE  \/ UNCHANGED sockets
         \/ \E r \in Resolvers : CreateDnsSocket(r) \/ AddToLoop(r) \/ CloseResolver(r)
         \/ /\ \E r \in Resolvers : Handling(r) /\ ErrorEvent(r)
            /\ UNCHANGED <<fd_handler_map, dns_socket, loop, closed>>
<1>1. ASSUME NEW k, NEW fd \in Fds, kernel' = k,
             \/ k = Take(kernel, fd) \/ k = ClearError(kernel, fd)
             \/ k = Raise(kernel, fd) \/ \E x \in Items : k = Enqueue(kernel, fd, x),
             UNCHANGED <<fd_handler_map, dns_socket, loop, closed>>
      PROVE  UNCHANGED sockets
  BY <1>1 DEF Take, ClearError, Raise, Enqueue, Wake, sockets, TypeOK, LoopTypeOK, Kernel
<1>2. ASSUME NEW r \in Resolvers, Delete(r) PROVE UNCHANGED sockets
  BY <1>2 DEF Delete, loopVars, sockets
<1>3. ASSUME NEW r \in Resolvers, NEW h \in Hosts, NEW c \in Calls, Resolve(r, h, c)
      PROVE  UNCHANGED sockets
  BY <1>3 DEF Resolve, sockets
<1>4. CASE CallbackReturns
  BY <1>4 DEF CallbackReturns, apiState, sockets
<1>5. CASE HandleEvent
  <2>1. PICK r \in Resolvers :
          /\ Handling(r)
          /\ \/ UNCHANGED <<kernel, fd_handler_map, batch, resolverVars>>
             \/ ErrorEvent(r)
             \/ DataEvent(r)
             \/ EmptyEvent(r)
    BY <1>5 DEF HandleEvent
  <2>2. current.fd \in Fds
    BY <2>1 DEF Handling, TypeOK, LoopTypeOK, Running
  <2>3. CASE UNCHANGED <<kernel, fd_handler_map, batch, resolverVars>>
    BY <2>3 DEF resolverVars, sockets
  <2>4. CASE ErrorEvent(r)
    BY <2>1, <2>4 DEF ErrorEvent, apiState
  <2>5. CASE DataEvent(r) \/ EmptyEvent(r)
    BY <1>1, <2>2, <2>5 DEF DataEvent, EmptyEvent, apiState
  <2>. QED BY <2>1, <2>3, <2>4, <2>5
<1>6. CASE LoopStep
  <2>1. CASE EpollWait
    BY <1>6, <2>1 DEF LoopStep, EpollWait, resolverVars, sockets, TypeOK, LoopTypeOK, Kernel
  <2>2. CASE ~EpollWait
    BY <1>6, <2>2 DEF LoopStep, Run, EpollFail, Dispatch, resolverVars, sockets
  <2>. QED BY <2>1, <2>2
<1>7. CASE NameServers
  <2>1. PICK fd \in Fds, d \in Items :
          Arrive(fd, d) /\ UNCHANGED <<dns_socket, loop, closed>>
    BY <1>7 DEF NameServers, Reply, DuplicateReply, apiState, resolverVars
  <2>. QED BY <1>1, <2>1 DEF Arrive
<1>8. CASE Mishap
  BY <1>1, <1>8 DEF Mishap, Spoil, SocketError, resolverVars
<1>9. CASE UNCHANGED vars
  BY <1>9 DEF vars, loopVars, resolverVars, sockets
<1>. QED BY <1>2, <1>3, <1>4, <1>5, <1>6, <1>7, <1>8, <1>9 DEF Next, Application

-----------------------------------------------------------------------------
(* Registered under its own number. *)

LEMMA RegisteredStep ==
  TypeOK /\ RegisteredUnderOwnSocket /\ [Next]_vars => RegisteredUnderOwnSocket'
<1>. SUFFICES ASSUME TypeOK, RegisteredUnderOwnSocket, [Next]_vars
              PROVE  RegisteredUnderOwnSocket'
  OBVIOUS
<1>1. CASE UNCHANGED <<fd_handler_map, dns_socket, loop>>
  BY <1>1 DEF RegisteredUnderOwnSocket
<1>2. ASSUME NEW r \in Resolvers, CreateDnsSocket(r) PROVE RegisteredUnderOwnSocket'
  \* A resolver that has no socket yet has no entry either.
  <2>1. \A s \in Resolvers, fd \in FdKeys :
          fd_handler_map[fd] = s => dns_socket'[s] = dns_socket[s]
    <3>1. PICK o \in SocketOutcomes(r) : dns_socket' = [dns_socket EXCEPT ![r] = o[1]]
      BY <1>2 DEF CreateDnsSocket
    <3>2. dns_socket[r] # NoSocket => o[1] = dns_socket[r]
      BY DEF SocketOutcomes
    <3>3. \A fd \in FdKeys : fd_handler_map[fd] = r => dns_socket[r] # NoSocket
      BY DEF RegisteredUnderOwnSocket
    <3>. QED BY <3>1, <3>2, <3>3 DEF TypeOK
  <2>. QED BY <1>2, <2>1 DEF CreateDnsSocket, RegisteredUnderOwnSocket
<1>3. ASSUME NEW r \in Resolvers, AddToLoop(r) PROVE RegisteredUnderOwnSocket'
  \* r has no entry, and gets at most the one of its own number.
  <2>1. PICK o \in SocketOutcomes(r) :
          /\ dns_socket' = [dns_socket EXCEPT ![r] = o[1]]
          /\ Add(o[2], o[1], "EPOLLET", r)
          /\ loop' = [loop EXCEPT ![r] = TRUE]
          /\ ~loop[r]
    BY <1>3 DEF AddToLoop
  <2>2. \A fd \in FdKeys : fd_handler_map[fd] # r
    BY <2>1 DEF RegisteredUnderOwnSocket
  <2>3. \A fd \in FdKeys :
          fd_handler_map'[fd] = fd_handler_map[fd] \/ (fd = o[1] /\ fd_handler_map'[fd] = r)
    BY <2>1 DEF Add, TypeOK, LoopTypeOK
  <2>. QED BY <2>1, <2>2, <2>3 DEF RegisteredUnderOwnSocket, TypeOK
<1>4. ASSUME NEW r \in Resolvers, CloseResolver(r) PROVE RegisteredUnderOwnSocket'
  <2>1. \A fd \in FdKeys : fd_handler_map'[fd] \in {fd_handler_map[fd], NULL}
    BY <1>4 DEF CloseResolver, Remove, TypeOK, LoopTypeOK
  <2>2. NULL \notin Resolvers
    OBVIOUS
  <2>. QED BY <1>4, <2>1, <2>2 DEF CloseResolver, RegisteredUnderOwnSocket
<1>. QED BY <1>1, <1>2, <1>3, <1>4, SocketSteps DEF sockets

\* Whatever is called in whatever order, the loop knows a resolver only by
\* the number the resolver has, so handle_event never mistakes an event.
THEOREM RegisteredCorrect == Spec => []RegisteredUnderOwnSocket
<1>1. Init => RegisteredUnderOwnSocket
  BY DEF Init, LoopInit, RegisteredUnderOwnSocket
<1>. QED BY <1>1, RegisteredStep, TypeCorrect, PTL DEF Spec
-----------------------------------------------------------------------------
(* Owned by one resolver. *)

\* The inductive invariant.  That a resolver's socket is registered says
\* nothing of the next step unless sockets are also open and distinct, and
\* no entry is left behind for a number that may be handed out again.
Ownership ==
  /\ RegisteredUnderOwnSocket
  /\ SocketsApart
  /\ NoErrors
  /\ OwnsItsSocket
  /\ ClosedIsSilent
  /\ \A r \in Resolvers : loop[r] => dns_socket[r] # NoSocket

\* No system call and no call on the loop raises an error.
LEMMA CallsRaiseNothing ==
  ASSUME TypeOK, kernel.error = {}, NEW k \in Syscalls(kernel)
  PROVE  /\ k.error = {}
         /\ \A fd \in FdKeys, m \in Modes : EpollAdd(k, fd, m).error = {}
         /\ \A fd \in FdKeys : EpollDel(k, fd).error = {}
<1>1. k.error = {}
  <2>. kernel \in Kernel
    BY DEF TypeOK, LoopTypeOK
  <2>1. \A fd \in Fds : /\ Socket(kernel, fd).error = {}
                        /\ ClearError(kernel, fd).error = {}
                        /\ Take(kernel, fd).error = {}
    BY DEF Socket, ClearError, Take, Kernel
  <2>2. \A fd \in Fds : Close(kernel, fd).error = {}
    BY DEF Close, Kernel
  <2>3. \A fd \in Fds, conn \in Fds : Accept(kernel, fd, conn).error = {}
    BY DEF Accept, Take, Socket, Kernel
  <2>. QED BY <2>1, <2>2, <2>3 DEF Syscalls, Free
<1>2. /\ \A fd \in FdKeys, m \in Modes : EpollAdd(k, fd, m).error = k.error
      /\ \A fd \in FdKeys : EpollDel(k, fd).error = k.error
  <2>1. k \in Kernel
    BY SyscallsKeepInterest DEF TypeOK, LoopTypeOK
  <2>. QED BY <2>1 DEF EpollAdd, EpollDel, Kernel
<1>. QED BY <1>1, <1>2

LEMMA NoErrorsStep ==
  ASSUME Disciplined, TypeOK, NoErrors, [Next]_vars
  PROVE  NoErrors'
<1>. USE DEF NoErrors
<1>1. CASE Mishap
  BY <1>1 DEF Mishap, Disciplined, Spoil, Take, TypeOK, LoopTypeOK, Kernel
<1>2. CASE NameServers
  <2>1. PICK fd \in Fds, d \in Items : Arrive(fd, d)
    BY <1>2 DEF NameServers, Reply, DuplicateReply
  <2>. QED BY <2>1 DEF Arrive, Enqueue, Wake, TypeOK, LoopTypeOK, Kernel
<1>3. CASE LoopStep
  <2>1. CASE EpollWait
    <3>1. PICK S \in SUBSET Hot :
            /\ batch' = {[fd |-> fd, gen |-> kernel.gen[fd],
                          error |-> fd \in kernel.error] : fd \in S}
            /\ kernel' = [kernel EXCEPT !.ready = @ \ (S \cap kernel.edge)]
      BY <2>1 DEF EpollWait
    <3>2. kernel'.error = {}
      BY <3>1 DEF TypeOK, LoopTypeOK, Kernel
    <3>3. ASSUME NEW e \in batch' PROVE ~e.error
      <4>1. PICK fd \in S : e = [fd |-> fd, gen |-> kernel.gen[fd],
                                 error |-> fd \in kernel.error]
        BY <3>1
      <4>2. e.error = (fd \in kernel.error)
        BY <4>1
      <4>. QED BY <4>2
    <3>. QED BY <2>1, <3>2, <3>3 DEF EpollWait
  <2>2. CASE \E e \in batch : Dispatch(e)
    BY <2>2 DEF Dispatch
  <2>. QED BY <1>3, <2>1, <2>2 DEF LoopStep, Run, EpollFail
<1>4. CASE ClientStep
  BY <1>4, CallsRaiseNothing DEF ClientStep, Add, Remove, Stay, Return, Exit, Undefined
<1>5. CASE UNCHANGED loopVars
  BY <1>5 DEF loopVars
<1>. QED BY <1>1, <1>2, <1>3, <1>4, <1>5, NextSteps

\* The socket that create_dns_socket gives to a resolver that is in use is
\* open, not another's, and not in the loop's map for anybody else.
LEMMA GoodSocket ==
  ASSUME TypeOK, RegisteredUnderOwnSocket, SocketsApart,
         NEW r \in Resolvers, r \notin closed,
         NEW o \in SocketOutcomes(r)
  PROVE  /\ o[1] \in FdKeys
         /\ o[1] \in Fds => /\ o[1] \in o[2].open
                            /\ \A s \in Resolvers \ closed : dns_socket[s] = o[1] => s = r
                            /\ fd_handler_map[o[1]] \in {r, NULL}
         /\ kernel.open \subseteq o[2].open
         /\ kernel.interest = o[2].interest
         /\ dns_socket[r] # NoSocket => o[1] = dns_socket[r]
<1>1. CASE dns_socket[r] # NoSocket
  <2>1. o[1] = dns_socket[r] /\ o[2] = kernel /\ o[1] \in FdKeys
    BY <1>1 DEF SocketOutcomes, TypeOK
  <2>2. \A s \in Resolvers \ closed : o[1] \in Fds /\ dns_socket[s] = o[1] => s = r
    BY <2>1 DEF SocketsApart
  <2>3. o[1] \in Fds => fd_handler_map[o[1]] \in {r, NULL}
    BY <2>1, <2>2 DEF SocketsApart, RegisteredUnderOwnSocket
  <2>. QED BY <2>1, <2>2, <2>3 DEF SocketsApart
<1>2. CASE dns_socket[r] = NoSocket /\ o = <<BadFd, kernel>>
  BY <1>2 DEF FdKeys
<1>3. ASSUME dns_socket[r] = NoSocket, NEW fd \in Free(kernel),
             o = <<fd, Socket(kernel, fd)>>
      PROVE  /\ o[1] \in Fds
             /\ o[1] \in o[2].open
             /\ \A s \in Resolvers \ closed : dns_socket[s] # o[1]
             /\ fd_handler_map[o[1]] = NULL
             /\ kernel.open \subseteq o[2].open
             /\ kernel.interest = o[2].interest
  <2>1. fd \in Fds /\ fd \notin kernel.open
    BY DEF Free
  <2>2. \A s \in Resolvers \ closed : dns_socket[s] # fd
    BY <2>1 DEF SocketsApart
  <2>3. fd_handler_map[fd] = NULL
    BY <2>1, <2>2 DEF SocketsApart, RegisteredUnderOwnSocket, FdKeys
  <2>4. /\ o[2].open = kernel.open \cup {fd}
        /\ o[2].interest = kernel.interest
    BY <1>3 DEF Socket, TypeOK, LoopTypeOK, Kernel
  <2>. QED BY <1>3, <2>1, <2>2, <2>3, <2>4
<1>. QED BY <1>1, <1>2, <1>3 DEF SocketOutcomes, FdKeys

LEMMA CreateOwns ==
  ASSUME Disciplined, TypeOK, Ownership, NEW r \in Resolvers, CreateDnsSocket(r)
  PROVE  SocketsApart' /\ OwnsItsSocket'
<1>1. r \notin closed
  BY DEF CreateDnsSocket, CanCall, Disciplined
<1>2. PICK o \in SocketOutcomes(r) :
        dns_socket' = [dns_socket EXCEPT ![r] = o[1]] /\ kernel' = o[2]
  BY DEF CreateDnsSocket
<1>3. UNCHANGED <<fd_handler_map, loop, closed>>
  BY DEF CreateDnsSocket
<1>4. SocketsApart'
  BY <1>1, <1>2, <1>3, GoodSocket DEF Ownership, SocketsApart, TypeOK
<1>5. OwnsItsSocket'
  <2>. SUFFICES ASSUME NEW s \in Resolvers,
                       loop'[s], s \notin closed', dns_socket'[s] \in Fds
                PROVE  /\ dns_socket'[s] \in kernel'.interest
                       /\ fd_handler_map'[dns_socket'[s]] = s
    BY DEF OwnsItsSocket
  <2>1. dns_socket[s] # NoSocket
    BY <1>3 DEF Ownership
  <2>2. dns_socket'[s] = dns_socket[s]
    BY <1>1, <1>2, <2>1, GoodSocket DEF Ownership, TypeOK
  <2>3. kernel'.interest = kernel.interest
    BY <1>1, <1>2, GoodSocket DEF Ownership
  <2>. QED BY <1>3, <2>2, <2>3 DEF Ownership, OwnsItsSocket
<1>. QED BY <1>4, <1>5

LEMMA AddOwns ==
  ASSUME Disciplined, TypeOK, Ownership, NEW r \in Resolvers, AddToLoop(r)
  PROVE  SocketsApart' /\ OwnsItsSocket'
<1>1. r \notin closed
  BY DEF AddToLoop, CanCall, Disciplined
<1>2. PICK o \in SocketOutcomes(r) :
        /\ dns_socket' = [dns_socket EXCEPT ![r] = o[1]]
        /\ Add(o[2], o[1], "EPOLLET", r)
  BY DEF AddToLoop
<1>3. UNCHANGED closed /\ loop' = [loop EXCEPT ![r] = TRUE] /\ ~loop[r]
  BY DEF AddToLoop
<1>4. o[1] \in FdKeys /\ o[2] \in Kernel
  BY <1>1, SocketResults, SyscallsKeepInterest DEF TypeOK, LoopTypeOK
<1>5. /\ kernel'.open = o[2].open
      /\ o[2].interest \subseteq kernel'.interest
      /\ o[1] \in o[2].open => o[1] \in kernel'.interest
  BY <1>2, <1>4 DEF Add, EpollAdd, Kernel
<1>6. \A fd \in FdKeys :
        fd_handler_map'[fd] = IF fd = o[1] /\ fd_handler_map[fd] = NULL
                              THEN r ELSE fd_handler_map[fd]
  BY <1>2, <1>4 DEF Add, TypeOK, LoopTypeOK
<1>7. SocketsApart'
  <2>1. \A s \in Resolvers \ closed : s # r => dns_socket'[s] = dns_socket[s]
    BY <1>2 DEF TypeOK
  <2>2. dns_socket'[r] = o[1]
    BY <1>2 DEF TypeOK
  <2>3. \A s \in Resolvers \ closed' : dns_socket'[s] \in Fds => dns_socket'[s] \in kernel'.open
    BY <1>1, <1>3, <1>5, <2>1, <2>2, GoodSocket DEF Ownership, SocketsApart
  <2>4. \A s, t \in Resolvers \ closed' :
          dns_socket'[s] \in Fds /\ dns_socket'[s] = dns_socket'[t] => s = t
    BY <1>1, <1>3, <2>1, <2>2, GoodSocket DEF Ownership, SocketsApart
  <2>5. \A fd \in FdKeys : fd_handler_map'[fd] \in (Resolvers \ closed') \cup {NULL}
    BY <1>1, <1>3, <1>6 DEF Ownership, SocketsApart
  <2>. QED BY <2>3, <2>4, <2>5 DEF SocketsApart
<1>8. OwnsItsSocket'
  <2>. SUFFICES ASSUME NEW s \in Resolvers,
                       loop'[s], s \notin closed', dns_socket'[s] \in Fds
                PROVE  /\ dns_socket'[s] \in kernel'.interest
                       /\ fd_handler_map'[dns_socket'[s]] = s
    BY DEF OwnsItsSocket
  <2>1. CASE s = r
    BY <1>1, <1>2, <1>5, <1>6, <2>1, GoodSocket DEF Ownership, TypeOK, FdKeys
  <2>2. CASE s # r
    <3>1. dns_socket'[s] = dns_socket[s] /\ loop[s] /\ s \notin closed
      BY <1>2, <1>3, <2>2 DEF TypeOK
    <3>2. /\ dns_socket[s] \in kernel.interest
          /\ fd_handler_map[dns_socket[s]] = s
      BY <3>1 DEF Ownership, OwnsItsSocket
    <3>3. s # NULL
      OBVIOUS
    <3>. QED BY <1>1, <1>5, <1>6, <3>1, <3>2, <3>3, GoodSocket DEF Ownership, FdKeys
  <2>. QED BY <2>1, <2>2
<1>. QED BY <1>7, <1>8

\* close() takes away the socket, the registration and the entry of the
\* resolver that is closed, and of no other.
LEMMA CloseOwns ==
  ASSUME Disciplined, TypeOK, Ownership, NEW r \in Resolvers, CloseResolver(r)
  PROVE  SocketsApart' /\ OwnsItsSocket'
<1>. DEFINE fd == dns_socket[r]
<1>1. r \notin closed /\ fd \in FdKeys
  BY DEF CloseResolver, CanCall, Disciplined, TypeOK
<1>2. closed' = closed \cup {r} /\ UNCHANGED <<dns_socket, loop>>
  BY DEF CloseResolver
<1>3. /\ kernel.open \ {fd} \subseteq kernel'.open
      /\ kernel.interest \ {fd} \subseteq kernel'.interest
  <2>. DEFINE k == Close(kernel, fd)
  <2>1. /\ kernel.open \ {fd} \subseteq k.open
        /\ kernel.interest \ {fd} \subseteq k.interest
    BY DEF Close, TypeOK, LoopTypeOK, Kernel
  <2>2. k \in Kernel
    <3>1. kernel \in Kernel
      BY DEF TypeOK, LoopTypeOK
    <3>2. CASE fd \in Fds
      BY <3>1, <3>2, KernelCalls
    <3>3. CASE fd \notin Fds
      BY <3>1, <3>3 DEF Close, Kernel
    <3>. QED BY <3>2, <3>3
  <2>3. EpollDel(k, fd).open = k.open /\ EpollDel(k, fd).interest = k.interest \ {fd}
    BY <2>2 DEF EpollDel, Kernel
  <2>4. kernel' = k \/ kernel' = EpollDel(k, fd)
    BY DEF CloseResolver, Remove
  <2>. HIDE DEF k
  <2>. QED BY <2>1, <2>3, <2>4
<1>4. \A f \in FdKeys \ {fd} : fd_handler_map'[f] = fd_handler_map[f]
  BY DEF CloseResolver, Remove, TypeOK, LoopTypeOK
<1>5. fd_handler_map'[fd] \in (Resolvers \ closed') \cup {NULL}
  <2>1. CASE loop[r]
    BY <1>1, <2>1 DEF CloseResolver, Remove, TypeOK, LoopTypeOK
  <2>2. CASE ~loop[r]
    <3>1. fd_handler_map'[fd] = fd_handler_map[fd]
      BY <2>2 DEF CloseResolver
    <3>2. fd_handler_map[fd] # r
      BY <1>1, <2>2 DEF Ownership, RegisteredUnderOwnSocket
    <3>. QED BY <1>1, <1>2, <3>1, <3>2 DEF Ownership, SocketsApart
  <2>. QED BY <2>1, <2>2
<1>6. \A f \in FdKeys \ {fd} : fd_handler_map[f] # r
  BY DEF Ownership, RegisteredUnderOwnSocket
<1>7. \A s \in Resolvers \ closed' :
        s # r /\ s \notin closed /\ (dns_socket[s] \in Fds => dns_socket[s] # fd)
  BY <1>1, <1>2 DEF Ownership, SocketsApart
<1>8. SocketsApart'
  BY <1>1, <1>2, <1>3, <1>4, <1>5, <1>6, <1>7 DEF Ownership, SocketsApart
<1>9. OwnsItsSocket'
  <2>. SUFFICES ASSUME NEW s \in Resolvers \ closed',
                       loop[s], dns_socket[s] \in Fds
                PROVE  /\ dns_socket[s] \in kernel'.interest
                       /\ fd_handler_map'[dns_socket[s]] = s
    BY <1>2 DEF OwnsItsSocket
  <2>1. dns_socket[s] \in FdKeys \ {fd} /\ s \notin closed
    BY <1>7 DEF FdKeys
  <2>. QED BY <1>3, <1>4, <2>1 DEF Ownership, OwnsItsSocket
<1>. QED BY <1>8, <1>9

\* Handlers come from the map when an event is dispatched, and no resolver is
\* closed between that and handle_event.
LEMMA ClosedStep ==
  ASSUME TypeOK, FrameInVector, Ownership, [Next]_vars
  PROVE  ClosedIsSilent'
<1>. USE DEF Ownership, ClosedIsSilent
<1>1. CASE LoopStep
  <2>1. ASSUME NEW e \in batch, Dispatch(e), at' = "handler"
        PROVE  current'.handler \in Resolvers \ closed
    <3>1. e.fd \in FdKeys
      BY DEF TypeOK, LoopTypeOK, Event, FdKeys
    <3>. QED BY <2>1, <3>1 DEF Dispatch, SocketsApart
  <2>. QED BY <1>1, <2>1 DEF LoopStep, Run, EpollWait, EpollFail, resolverVars
<1>2. CASE NameServers \/ Mishap \/ UNCHANGED vars
  BY <1>2 DEF NameServers, Reply, DuplicateReply, Arrive, Mishap, Spoil, SocketError,
              apiState, resolverVars, vars, loopVars
<1>3. CASE Application
  BY <1>3 DEF Application, CreateDnsSocket, AddToLoop, Resolve, CloseResolver, Delete,
              CanCall, Stay, Undefined, loopVars
<1>4. CASE HandleEvent
  <2>1. ASSUME NEW r, NEW h, NEW a, CallCallback(r, h, a)
        PROVE  at' = "loop" \/ frame' = [r |-> r, host |-> h, ip |-> a, i |-> 1]
    BY <2>1 DEF CallCallback, BeginCallbacks, EndCallbacks, NothingCalled, Return
  <2>2. PICK r \in Resolvers :
          /\ Handling(r)
          /\ \/ at' \in {"loop", "undefined"}
             \/ \E d \in Items \cup {<<>>} : \E i \in FirstA(d) :
                  CallCallback(r, d[i].name, d[i].ip)
    <3>1. PICK r \in Resolvers :
            /\ Handling(r)
            /\ Undefined \/ Return \/ ErrorEvent(r) \/ DataEvent(r) \/ EmptyEvent(r)
      BY <1>4 DEF HandleEvent
    <3>2. kernel.input[current.fd] # <<>> => Head(kernel.input[current.fd]) \in Items
      <4>1. kernel.input[current.fd] \in Seq(Items)
        BY <3>1 DEF Handling, TypeOK, LoopTypeOK, Running, Kernel
      <4>. QED BY <4>1
    <3>3. CASE Undefined \/ Return \/ ErrorEvent(r)
      BY <3>1, <3>3 DEF ErrorEvent, Return, Undefined
    <3>4. ASSUME NEW d \in Items \cup {<<>>}, HandleData(r, d)
          PROVE  at' = "loop" \/ \E i \in FirstA(d) : CallCallback(r, d[i].name, d[i].ip)
      BY <3>4 DEF HandleData, NothingCalled, Return
    <3>5. CASE DataEvent(r)
      BY <3>1, <3>2, <3>4, <3>5 DEF DataEvent, Receives
    <3>6. CASE EmptyEvent(r)
      BY <3>1, <3>4, <3>6 DEF EmptyEvent, Undefined
    <3>. QED BY <3>1, <3>3, <3>5, <3>6
  <2>3. ASSUME NEW d \in Items \cup {<<>>}, NEW i \in FirstA(d)
        PROVE  [r |-> r, host |-> d[i].name, ip |-> d[i].ip, i |-> 1] \in Frame
    <3>1. i \in DOMAIN d /\ d[i].type = "A" /\ d \in Seq(Record)
      BY DEF FirstA, ARecords
    <3>. QED BY <3>1 DEF Record, Frame
  <2>. QED BY <2>1, <2>2, <2>3
<1>5. CASE CallbackReturns
  <2>1. [frame EXCEPT !.i = @ + 1] # NULL
    <3>1. frame \in Frame
      BY <1>5 DEF CallbackReturns, TypeOK
    <3>2. [frame EXCEPT !.i = @ + 1] \in Frame
      BY <3>1 DEF Frame
    <3>. QED BY <3>2
  <2>2. at' \in {"loop", "undefined"} \/ frame' = [frame EXCEPT !.i = @ + 1]
    <3>1. CASE frame.r \notin alive
      BY <1>5, <3>1 DEF CallbackReturns, Undefined
    <3>2. CASE frame.r \in alive
      BY <1>5, <3>2 DEF CallbackReturns, EndCallbacks, Return
    <3>. QED BY <3>1, <3>2
  <2>. QED BY <2>1, <2>2
<1>. QED BY <1>1, <1>2, <1>3, <1>4, <1>5 DEF Next

LEMMA OwnershipStep ==
  ASSUME Disciplined, TypeOK, FrameInVector, Ownership, [Next]_vars
  PROVE  Ownership'
<1>1. RegisteredUnderOwnSocket'
  BY RegisteredStep DEF Ownership
<1>2. NoErrors' /\ ClosedIsSilent'
  BY NoErrorsStep, ClosedStep DEF Ownership
<1>3. SocketsApart' /\ OwnsItsSocket'
  <2>1. CASE UNCHANGED sockets
    BY <2>1 DEF sockets, Ownership, SocketsApart, OwnsItsSocket
  <2>2. CASE \E r \in Resolvers : CreateDnsSocket(r) \/ AddToLoop(r) \/ CloseResolver(r)
    BY <2>2, CreateOwns, AddOwns, CloseOwns
  <2>3. CASE \E r \in Resolvers : Handling(r) /\ ErrorEvent(r)
    BY <2>3 DEF Handling, ErrorEvent, Ownership, NoErrors
  <2>. QED BY <2>1, <2>2, <2>3, SocketSteps
<1>4. \A r \in Resolvers : loop'[r] => dns_socket'[r] # NoSocket
  <2>1. CASE UNCHANGED <<dns_socket, loop>>
    BY <2>1 DEF Ownership
  <2>2. ASSUME NEW r \in Resolvers, CreateDnsSocket(r) \/ AddToLoop(r)
        PROVE  \A s \in Resolvers : loop'[s] => dns_socket'[s] # NoSocket
    <3>1. PICK o \in SocketOutcomes(r) : dns_socket' = [dns_socket EXCEPT ![r] = o[1]]
      BY <2>2 DEF CreateDnsSocket, AddToLoop
    <3>2. o[1] \in FdKeys
      BY SocketResults
    <3>3. \A s \in Resolvers : s # r => (loop'[s] = loop[s])
      BY <2>2 DEF CreateDnsSocket, AddToLoop, TypeOK
    <3>. QED BY <3>1, <3>2, <3>3 DEF Ownership, TypeOK
  <2>3. ASSUME NEW r \in Resolvers, CloseResolver(r) PROVE UNCHANGED <<dns_socket, loop>>
    BY <2>3 DEF CloseResolver
  <2>. QED BY <2>1, <2>2, <2>3, SocketSteps DEF sockets
<1>. QED BY <1>1, <1>2, <1>3, <1>4 DEF Ownership

LEMMA OwnershipHolds == Disciplined => (Spec => []Ownership)
<1>1. Init => Ownership
  <2>. SUFFICES ASSUME Init PROVE Ownership
    OBVIOUS
  <2>1. /\ fd_handler_map = [fd \in FdKeys |-> NULL] /\ at = "main" /\ batch = {}
        /\ kernel.error = {}
        /\ \A r \in Resolvers : ~loop[r] /\ dns_socket[r] = NoSocket
        /\ NoSocket \notin Fds
    BY DEF Init, LoopInit, FdKeys
  <2>2. SocketsApart
    BY <2>1 DEF SocketsApart
  <2>. QED
    BY <2>1, <2>2
    DEF Ownership, RegisteredUnderOwnSocket, NoErrors, OwnsItsSocket, ClosedIsSilent
<1>2. Disciplined /\ TypeOK /\ FrameInVector /\ Ownership /\ [Next]_vars => Ownership'
  BY OwnershipStep
<1>. SUFFICES ASSUME Disciplined PROVE Spec => []Ownership
  OBVIOUS
<1>3. TypeOK /\ FrameInVector /\ Ownership /\ [Next]_vars => Ownership'
  BY <1>2
<1>. QED BY <1>1, <1>3, TypeAndFrame, PTL DEF Spec

\* Used with discipline, a resolver in the loop has its socket open,
\* registered and leading to itself, although others close theirs and the
\* kernel hands the numbers out again.
THEOREM SocketsAreOwned == Disciplined => (Spec => []OwnsItsSocket)
<1>1. Ownership => OwnsItsSocket
  BY DEF Ownership
<1>. QED BY <1>1, OwnershipHolds, PTL

\* Used with discipline, a resolver that was closed is not run again, not even
\* for an event that was collected before.
THEOREM ClosedStaySilent == Disciplined => (Spec => []ClosedIsSilent)
<1>1. Ownership => ClosedIsSilent
  BY DEF Ownership
<1>. QED BY <1>1, OwnershipHolds, PTL

-----------------------------------------------------------------------------
(***************************************************************************)
(* What an event is worth when its handler runs.  Between epoll_wait and   *)
(* recvfrom lie the handlers of other events of the batch, which close     *)
(* sockets and open new ones under the same numbers.                       *)
(***************************************************************************)

\* What the kernel queued for a socket stays readable.
KeepsData == "spoil" \notin Allowed

\* The event is one of an earlier file of that number, or its file is closed,
\* or there is something to read.
Worthy(k, e) ==
  \/ e.gen < k.gen[e.fd]
  \/ e.gen = k.gen[e.fd] /\ (e.fd \in k.open => k.input[e.fd] # <<>>)

\* The inductive invariant: every event is good for one read, which no other
\* event, waiting or handled, takes from it.
EventInv ==
  /\ \A e \in batch : Worthy(kernel, e)
  /\ \A e, f \in batch : e.fd = f.fd => e = f
  /\ at = "handler" => \A e \in batch : e.fd # current.fd
  /\ at = "handler" /\ frame = NULL => Worthy(kernel, current) /\ current.fd \in kernel.open

\* No call takes the worth from an event, but for a read from its socket.
LEMMA CallsKeepWorth ==
  ASSUME NEW k \in Kernel, NEW e, e.fd \in Fds, e.gen \in Nat, Worthy(k, e),
         NEW fd \in FdKeys
  PROVE  /\ fd \in Free(k) => Worthy(Socket(k, fd), e)
         /\ Worthy(Close(k, fd), e)
         /\ Worthy(ClearError(k, fd), e)
         /\ Worthy(EpollAdd(k, fd, "EPOLLET"), e)
         /\ Worthy(EpollDel(k, fd), e)
         /\ fd # e.fd => Worthy(Take(k, fd), e)
         /\ \A d \in Items : Worthy(Enqueue(k, fd, d), e)
<1>. k.gen[e.fd] \in Nat
  BY DEF Kernel
<1>1. fd \in Free(k) => Worthy(Socket(k, fd), e)
  BY DEF Worthy, Socket, Free, Kernel
<1>2. Worthy(Close(k, fd), e)
  BY DEF Worthy, Close, Kernel
<1>3. Worthy(ClearError(k, fd), e)
  BY DEF Worthy, ClearError, Kernel
<1>4. Worthy(EpollAdd(k, fd, "EPOLLET"), e) /\ Worthy(EpollDel(k, fd), e)
  BY DEF Worthy, EpollAdd, EpollDel, Kernel
<1>5. fd # e.fd => Worthy(Take(k, fd), e)
  BY DEF Worthy, Take, Kernel
<1>6. ASSUME NEW d \in Items PROVE Worthy(Enqueue(k, fd, d), e)
  <2>1. k.input[e.fd] \in Seq(Items)
    BY DEF Kernel
  <2>2. Append(k.input[e.fd], d) # <<>>
    BY <2>1
  <2>. QED BY <2>2 DEF Worthy, Enqueue, Wake, Kernel
<1>. QED BY <1>1, <1>2, <1>3, <1>4, <1>5, <1>6

LEMMA EventTypes ==
  ASSUME TypeOK
  PROVE  /\ kernel \in Kernel
         /\ \A e \in batch : e.fd \in Fds /\ e.gen \in Nat
         /\ at = "handler" => current.fd \in Fds /\ current.gen \in Nat
<1>1. /\ kernel \in Kernel
      /\ \A e \in batch : e \in Event
      /\ at = "handler" => current \in Running
  BY DEF TypeOK, LoopTypeOK
<1>. QED BY <1>1 DEF Event, Running

\* The application's calls: no event is looked at, and none is handled while
\* handle_event itself is still to run.
LEMMA ApplicationKeepsEvents ==
  ASSUME TypeOK, EventInv, Application
  PROVE  EventInv'
<1>1. /\ at \in {"main", "handler"} /\ (at = "handler" => frame # NULL)
      /\ UNCHANGED <<batch, frame>>
      /\ at' = "handler" => at = "handler" /\ current' = current
  BY DEF Application, CreateDnsSocket, AddToLoop, Resolve, CloseResolver, Delete,
         CanCall, Stay, Undefined, loopVars
<1>2. ASSUME NEW e \in batch PROVE Worthy(kernel', e)
  <2>1. e.fd \in Fds /\ e.gen \in Nat /\ Worthy(kernel, e) /\ kernel \in Kernel
    BY EventTypes DEF EventInv
  <2>2. ASSUME NEW r \in Resolvers, NEW o \in SocketOutcomes(r)
        PROVE  o[1] \in FdKeys /\ o[2] \in Kernel /\ Worthy(o[2], e)
    <3>1. o[1] \in FdKeys /\ o[2] \in Kernel
      BY <2>1, SocketResults, SyscallsKeepInterest
    <3>2. o[2] = kernel \/ \E fd \in Free(kernel) : o[2] = Socket(kernel, fd)
      BY DEF SocketOutcomes
    <3>3. Free(kernel) \subseteq FdKeys
      BY DEF Free, FdKeys
    <3>. QED BY <2>1, <3>1, <3>2, <3>3, CallsKeepWorth
  <2>3. ASSUME NEW r \in Resolvers, CreateDnsSocket(r) PROVE Worthy(kernel', e)
    BY <2>2, <2>3 DEF CreateDnsSocket
  <2>4. ASSUME NEW r \in Resolvers, AddToLoop(r) PROVE Worthy(kernel', e)
    <3>1. PICK o \in SocketOutcomes(r) : kernel' = EpollAdd(o[2], o[1], "EPOLLET")
      BY <2>4 DEF AddToLoop, Add
    <3>. QED BY <2>1, <2>2, <3>1, CallsKeepWorth
  <2>5. ASSUME NEW r \in Resolvers, CloseResolver(r) PROVE Worthy(kernel', e)
    <3>. DEFINE fd == dns_socket[r]
                k  == Close(kernel, fd)
    <3>1. fd \in FdKeys
      BY <2>5 DEF CloseResolver, TypeOK
    <3>2. kernel' = k \/ kernel' = EpollDel(k, fd)
      BY <2>5 DEF CloseResolver, Remove
    <3>3. k \in Kernel
      <4>1. CASE fd \in Fds
        BY <2>1, <4>1, KernelCalls
      <4>2. CASE fd \notin Fds
        BY <2>1, <4>2 DEF Close, Kernel
      <4>. QED BY <4>1, <4>2
    <3>4. Worthy(k, e)
      BY <2>1, <3>1, CallsKeepWorth
    <3>. HIDE DEF fd, k
    <3>. QED BY <2>1, <3>1, <3>2, <3>3, <3>4, CallsKeepWorth
  <2>6. ASSUME NEW r \in Resolvers, Delete(r) PROVE Worthy(kernel', e)
    BY <2>1, <2>6 DEF Delete, loopVars
  <2>7. ASSUME NEW r \in Resolvers, NEW h \in Hosts, NEW c \in Calls, Resolve(r, h, c)
        PROVE  Worthy(kernel', e)
    BY <2>1, <2>7 DEF Resolve
  <2>. QED BY <2>3, <2>4, <2>5, <2>6, <2>7 DEF Application
<1>. QED BY <1>1, <1>2 DEF EventInv

\* handle_event reads at most from the socket of its own event; then it has
\* returned or call_callback is at a callback.
LEMMA HandlerKeepsEvents ==
  ASSUME TypeOK, EventInv, HandleEvent
  PROVE  EventInv'
<1>1. PICK r \in Resolvers :
        /\ Handling(r)
        /\ \/ /\ Undefined \/ Return
              /\ UNCHANGED <<kernel, fd_handler_map, batch, resolverVars>>
           \/ ErrorEvent(r) \/ DataEvent(r) \/ EmptyEvent(r)
  BY DEF HandleEvent
<1>2. /\ at = "handler" /\ batch' = batch /\ current.fd \in Fds /\ kernel \in Kernel
      /\ \A e \in batch : /\ e.fd \in Fds /\ e.gen \in Nat /\ Worthy(kernel, e)
                          /\ e.fd # current.fd
  BY <1>1, EventTypes DEF Handling, ErrorEvent, DataEvent, EmptyEvent, EventInv
<1>3. kernel' \in {kernel, Close(kernel, current.fd), Take(kernel, current.fd),
                   ClearError(kernel, current.fd)}
  BY <1>1 DEF ErrorEvent, DataEvent, EmptyEvent
<1>4. \A e \in batch : Worthy(kernel', e)
  BY <1>2, <1>3, CallsKeepWorth DEF FdKeys
<1>5. at' = "handler" => current' = current /\ frame' # NULL
  <2>1. ASSUME NEW d \in Items \cup {<<>>}, HandleData(r, d)
        PROVE  at' = "loop" \/ (Stay /\ frame' # NULL)
    <3>1. CASE ARecords(d) = {} /\ NothingCalled
      BY <3>1 DEF NothingCalled, Return
    <3>2. ASSUME NEW i \in FirstA(d), CallCallback(r, d[i].name, d[i].ip)
          PROVE  at' = "loop" \/ (Stay /\ frame' # NULL)
      <4>. DEFINE f == [r |-> r, host |-> d[i].name, ip |-> d[i].ip, i |-> 1]
      <4>1. at' = "loop" \/ (Stay /\ frame' = f)
        BY <3>2 DEF CallCallback, BeginCallbacks, EndCallbacks, NothingCalled, Return
      <4>2. i \in DOMAIN d /\ d[i].type = "A" /\ d \in Seq(Record)
        BY DEF FirstA, ARecords
      <4>3. f \in Frame
        BY <4>2 DEF Record, Frame
      <4>. QED BY <4>1, <4>3
    <3>. QED BY <2>1, <3>1, <3>2 DEF HandleData
  <2>2. Receives(current.fd) => Head(kernel.input[current.fd]) \in Items
    <3>1. kernel.input[current.fd] \in Seq(Items)
      BY <1>2 DEF Kernel
    <3>. QED BY <3>1 DEF Receives
  <2>. QED BY <1>1, <2>1, <2>2
       DEF ErrorEvent, DataEvent, EmptyEvent, Return, Undefined, Stay
<1>. QED BY <1>2, <1>4, <1>5 DEF EventInv

\* epoll_wait reports each number once, with the file it has and something to
\* read; and the handler of an event that is taken up owns an open socket.
LEMMA LoopKeepsEvents ==
  ASSUME Disciplined, TypeOK, Ownership, EventInv, LoopStep
  PROVE  EventInv'
<1>. UNCHANGED resolverVars
  BY DEF LoopStep
<1>1. CASE Run \/ EpollFail
  BY <1>1 DEF Run, EpollFail, EventInv
<1>2. CASE EpollWait
  <2>1. PICK S \in SUBSET Hot :
          /\ batch' = {[fd |-> fd, gen |-> kernel.gen[fd],
                        error |-> fd \in kernel.error] : fd \in S}
          /\ kernel' = [kernel EXCEPT !.ready = @ \ (S \cap kernel.edge)]
    BY <1>2 DEF EpollWait
  <2>2. /\ kernel'.gen = kernel.gen /\ kernel'.open = kernel.open
        /\ kernel'.input = kernel.input
    BY <2>1, EventTypes DEF Kernel
  <2>3. ASSUME NEW e \in batch' PROVE Worthy(kernel', e)
    <3>1. PICK fd \in S : e = [fd |-> fd, gen |-> kernel.gen[fd],
                               error |-> fd \in kernel.error]
      BY <2>1
    <3>2. kernel.input[fd] # <<>>
      BY DEF Hot, Readable, Ownership, NoErrors
    <3>. QED BY <2>2, <3>1, <3>2 DEF Worthy
  <2>4. ASSUME NEW e \in batch', NEW f \in batch', e.fd = f.fd PROVE e = f
    BY <2>1, <2>4
  <2>5. at' # "handler"
    BY <1>2 DEF EpollWait
  <2>. QED BY <2>3, <2>4, <2>5 DEF EventInv
<1>3. ASSUME NEW e \in batch, Dispatch(e) PROVE EventInv'
  <2>. DEFINE h == fd_handler_map[e.fd]
  <2>1. kernel' = kernel /\ batch' = batch \ {e} /\ at # "handler"
    BY <1>3 DEF Dispatch
  <2>2. ASSUME at' = "handler"
        PROVE  /\ current'.fd = e.fd /\ current'.gen = e.gen
               /\ e.fd \in kernel.open
    <3>1. /\ h # NULL
          /\ current' = [fd |-> e.fd, gen |-> e.gen, error |-> e.error, handler |-> h]
      BY <1>3, <2>1, <2>2 DEF Dispatch
    <3>2. e.fd \in Fds /\ e.fd \in FdKeys
      BY EventTypes DEF FdKeys
    <3>3. h \in Resolvers \ closed
      BY <3>1, <3>2 DEF Ownership, SocketsApart
    <3>4. dns_socket[h] = e.fd
      BY <3>2, <3>3 DEF Ownership, RegisteredUnderOwnSocket
    <3>. QED BY <3>1, <3>2, <3>3, <3>4 DEF Ownership, SocketsApart
  <2>. QED BY <2>1, <2>2 DEF EventInv, Worthy
<1>. QED BY <1>1, <1>2, <1>3 DEF LoopStep

LEMMA EventStep ==
  ASSUME Disciplined, KeepsData, TypeOK, Ownership, EventInv, [Next]_vars
  PROVE  EventInv'
<1>1. CASE CallbackReturns
  \* The frame stays while the handler does.
  <2>1. /\ at = "handler" /\ frame # NULL /\ UNCHANGED <<kernel, batch>>
        /\ at' = "handler" => current' = current /\ frame' # NULL
    <3>1. frame \in Frame
      BY <1>1 DEF CallbackReturns, TypeOK
    <3>2. [frame EXCEPT !.i = @ + 1] \in Frame
      BY <3>1 DEF Frame
    <3>3. [frame EXCEPT !.i = @ + 1] # NULL
      BY <3>2
    <3>4. CASE frame.r \notin alive
      BY <1>1, <3>4 DEF CallbackReturns, Undefined
    <3>5. CASE frame.r \in alive
      BY <1>1, <3>3, <3>5 DEF CallbackReturns, EndCallbacks, Return, Stay
    <3>. QED BY <3>4, <3>5
  <2>. QED BY <2>1 DEF EventInv
<1>2. CASE NameServers
  <2>1. PICK fd \in Fds, d \in Items : Arrive(fd, d) /\ frame' = frame
    BY <1>2 DEF NameServers, Reply, DuplicateReply, resolverVars
  <2>2. UNCHANGED <<at, batch, current, frame>> /\ kernel' = Enqueue(kernel, fd, d)
    BY <2>1 DEF Arrive
  <2>3. kernel'.open = kernel.open
    BY <2>2, EventTypes DEF Enqueue, Wake, Kernel
  <2>4. \A e \in batch : Worthy(kernel', e)
    BY <2>2, EventTypes, CallsKeepWorth DEF EventInv, FdKeys
  <2>5. at = "handler" /\ frame = NULL => Worthy(kernel', current)
    BY <2>2, EventTypes, CallsKeepWorth DEF EventInv, FdKeys
  <2>. QED BY <2>2, <2>3, <2>4, <2>5 DEF EventInv
<1>3. ~Mishap
  BY DEF Mishap, Disciplined, KeepsData
<1>4. CASE UNCHANGED vars
  BY <1>4 DEF vars, loopVars, resolverVars, EventInv
<1>. QED
  BY <1>1, <1>2, <1>3, <1>4, ApplicationKeepsEvents, HandlerKeepsEvents, LoopKeepsEvents
  DEF Next

\* Where nobody uses a closed resolver, no socket fails and no queued datagram
\* is dropped, handle_event is run in vain only for an event of a file that was
\* closed while the event waited and whose number another resolver has.
THEOREM EmptyReadsAreStale ==
  Disciplined /\ KeepsData => (Spec => []EmptyReadIsStale)
<1>. SUFFICES ASSUME Disciplined, KeepsData PROVE Spec => []EmptyReadIsStale
  OBVIOUS
<1>1. Init => EventInv
  BY DEF Init, LoopInit, EventInv
<1>2. TypeOK /\ Ownership /\ EventInv /\ [Next]_vars => EventInv'
  BY EventStep
<1>3. TypeOK /\ EventInv => EmptyReadIsStale
  BY EventTypes DEF EventInv, EmptyReadIsStale, Worthy, Readable, Kernel
<1>4. Spec => []Ownership
  BY OwnershipHolds
<1>. QED BY <1>1, <1>2, <1>3, <1>4, TypeCorrect, PTL DEF Spec
=============================================================================
