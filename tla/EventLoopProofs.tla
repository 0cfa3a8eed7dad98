--------------------------- MODULE EventLoopProofs ---------------------------
(***************************************************************************)
(* What EventLoop promises to any client, for every set of descriptors and *)
(* handlers and every batch size.                                          *)
(***************************************************************************)
EXTENDS EventLoop, TLAPS

\* Every system call takes the kernel's tables to kernel tables.
LEMMA KernelCalls ==
  ASSUME NEW k \in Kernel, NEW fd \in Fds
  PROVE  /\ Socket(k, fd) \in Kernel
         /\ Close(k, fd) \in Kernel
         /\ ClearError(k, fd) \in Kernel
         /\ Raise(k, fd) \in Kernel
         /\ k.input[fd] # <<>> => Take(k, fd) \in Kernel
         /\ \A x \in Items : Enqueue(k, fd, x) \in Kernel
<1>1. Socket(k, fd) \in Kernel
  <2>1. k.gen \in [Fds -> Nat]
    BY DEF Kernel
  <2>2. [k.gen EXCEPT ![fd] = @ + 1] \in [Fds -> Nat]
    BY <2>1
  <2>. QED BY <2>2 DEF Kernel, Socket
<1>2. Close(k, fd) \in Kernel
  <2>1. k.input \in [Fds -> Seq(Items)] /\ <<>> \in Seq(Items)
    BY DEF Kernel
  <2>2. [k.input EXCEPT ![fd] = <<>>] \in [Fds -> Seq(Items)]
    BY <2>1
  <2>. QED BY <2>2 DEF Kernel, Close
<1>3. ClearError(k, fd) \in Kernel
  BY DEF Kernel, ClearError
<1>4. Wake(k, fd) \in Kernel
  BY DEF Kernel, Wake
<1>5. Raise(k, fd) \in Kernel
  BY <1>4 DEF Kernel, Raise
<1>6. ASSUME k.input[fd] # <<>> PROVE Take(k, fd) \in Kernel
  <2>1. Tail(k.input[fd]) \in Seq(Items)
    BY <1>6 DEF Kernel
  <2>. QED BY <2>1 DEF Kernel, Take
<1>7. ASSUME NEW x \in Items PROVE Enqueue(k, fd, x) \in Kernel
  <2>1. Append(k.input[fd], x) \in Seq(Items)
    BY DEF Kernel
  <2>. QED BY <1>4, <2>1 DEF Kernel, Enqueue, Wake
<1>. QED BY <1>1, <1>2, <1>3, <1>5, <1>6, <1>7

\* So do the two calls on the epoll instance, also for the -1 of a socket()
\* that failed.
LEMMA EpollCalls ==
  ASSUME NEW k \in Kernel, NEW fd \in FdKeys, NEW mode
  PROVE  EpollAdd(k, fd, mode) \in Kernel /\ EpollDel(k, fd) \in Kernel
<1>1. fd \in k.open => fd \in Fds
  BY DEF Kernel
<1>2. EpollAdd(k, fd, mode) \in Kernel
  BY <1>1 DEF Kernel, EpollAdd
<1>3. EpollDel(k, fd) \in Kernel
  BY DEF Kernel, EpollDel
<1>. QED BY <1>2, <1>3

\* No system call registers anything, and what stays registered stays open:
\* close() takes the registration away with the file.
LEMMA SyscallsKeepInterest ==
  ASSUME NEW k \in Kernel, NEW l \in Syscalls(k)
  PROVE  /\ l \in Kernel
         /\ l.interest \subseteq k.interest
         /\ \A fd \in l.interest : fd \in k.open => fd \in l.open
<1>1. CASE l = k
  BY <1>1
<1>2. CASE \E fd \in Free(k) : l = Socket(k, fd)
  <2>1. PICK fd \in Fds : l = Socket(k, fd)
    BY <1>2 DEF Free
  <2>2. l \in Kernel
    BY <2>1, KernelCalls
  <2>. QED BY <2>1, <2>2 DEF Socket, Kernel
<1>3. CASE \E fd \in Fds : l = Close(k, fd)
  <2>1. PICK fd \in Fds : l = Close(k, fd)
    BY <1>3
  <2>2. l \in Kernel
    BY <2>1, KernelCalls
  <2>. QED BY <2>1, <2>2 DEF Close, Kernel
<1>4. CASE \E fd \in Fds : l = ClearError(k, fd)
  <2>1. PICK fd \in Fds : l = ClearError(k, fd)
    BY <1>4
  <2>2. l \in Kernel
    BY <2>1, KernelCalls
  <2>. QED BY <2>1, <2>2 DEF ClearError, Kernel
<1>5. CASE \E fd \in Fds : k.input[fd] # <<>> /\ l = Take(k, fd)
  <2>1. PICK fd \in Fds : k.input[fd] # <<>> /\ l = Take(k, fd)
    BY <1>5
  <2>2. l \in Kernel
    BY <2>1, KernelCalls
  <2>. QED BY <2>1, <2>2 DEF Take, Kernel
<1>6. CASE \E fd \in Fds, conn \in Free(k) :
             k.input[fd] # <<>> /\ l = Accept(k, fd, conn)
  <2>1. PICK fd \in Fds, conn \in Fds : k.input[fd] # <<>> /\ l = Accept(k, fd, conn)
    BY <1>6 DEF Free
  <2>2. Take(k, fd) \in Kernel
    BY <2>1, KernelCalls
  <2>3. l \in Kernel
    BY <2>1, <2>2, KernelCalls DEF Accept
  <2>. QED BY <2>1, <2>2, <2>3 DEF Accept, Take, Socket, Kernel
<1>. QED BY <1>1, <1>2, <1>3, <1>4, <1>5, <1>6 DEF Syscalls

\* Every call a piece of client code may make on the kernel.
LEMMA SystemCalls ==
  ASSUME NEW k
  PROVE  /\ k \in Syscalls(k)
         /\ \A fd \in Free(k) : Socket(k, fd) \in Syscalls(k)
         /\ \A fd \in Fds : Close(k, fd) \in Syscalls(k)
         /\ \A fd \in Fds : ClearError(k, fd) \in Syscalls(k)
         /\ \A fd \in Fds : k.input[fd] # <<>> => Take(k, fd) \in Syscalls(k)
         /\ \A fd \in Fds, conn \in Free(k) :
               k.input[fd] # <<>> => Accept(k, fd, conn) \in Syscalls(k)
BY DEF Syscalls

\* How a piece of client code may use the kernel and the loop.
LEMMA ClientCalls ==
  ASSUME NEW k \in Syscalls(kernel),
         at \in {"main", "handler"},
         \/ kernel' = k /\ UNCHANGED fd_handler_map
         \/ \E fd \in FdKeys, m \in Modes, h \in Handlers : Add(k, fd, m, h)
         \/ \E fd \in FdKeys : Remove(k, fd),
         Stay \/ (at = "handler" /\ Return) \/ Exit \/ Undefined,
         UNCHANGED batch
  PROVE  ClientStep
BY DEF ClientStep

-----------------------------------------------------------------------------
(* Type correctness. *)

LEMMA LoopTypeInit == LoopInit => LoopTypeOK
BY EventLoopAssumption DEF LoopInit, LoopTypeOK, Kernel, At, FdKeys

LEMMA LoopTypeStep == LoopTypeOK /\ [LoopNext]_loopVars => LoopTypeOK'
<1>. SUFFICES ASSUME LoopTypeOK, [LoopNext]_loopVars PROVE LoopTypeOK'
  OBVIOUS
<1>. USE DEF LoopTypeOK
<1>1. CASE Run
  BY <1>1 DEF Run, At
<1>2. CASE EpollWait
  <2>1. PICK S \in SUBSET Hot :
          /\ batch' = {[fd |-> fd, gen |-> kernel.gen[fd],
                        error |-> fd \in kernel.error] : fd \in S}
          /\ kernel' = [kernel EXCEPT !.ready = @ \ (S \cap kernel.edge)]
    BY <1>2 DEF EpollWait
  <2>2. S \subseteq Fds
    BY DEF Hot, Kernel
  <2>3. ASSUME NEW e \in batch' PROVE e \in Event
    <3>1. PICK fd \in S : e = [fd |-> fd, gen |-> kernel.gen[fd],
                               error |-> fd \in kernel.error]
      BY <2>1
    <3>2. kernel.gen[fd] \in Nat
      BY <2>2 DEF Kernel
    <3>3. (fd \in kernel.error) \in BOOLEAN
      OBVIOUS
    <3>. QED BY <2>2, <3>1, <3>2, <3>3 DEF Event
  <2>4. kernel' \in Kernel
    BY <2>1 DEF Kernel
  <2>. QED BY <1>2, <2>3, <2>4 DEF EpollWait
<1>3. CASE EpollFail
  BY <1>3 DEF EpollFail, At
<1>4. ASSUME NEW e \in batch, Dispatch(e) PROVE LoopTypeOK'
  <2>1. e.fd \in Fds /\ e.gen \in Nat /\ e.error \in BOOLEAN
    BY DEF Event
  <2>2. fd_handler_map[e.fd] # NULL => fd_handler_map[e.fd] \in Handlers
    BY <2>1 DEF FdKeys
  <2>. QED BY <1>4, <2>1, <2>2 DEF Dispatch, At, Running
<1>5. CASE ClientStep
  <2>1. PICK k \in Syscalls(kernel) :
          \/ kernel' = k /\ UNCHANGED fd_handler_map
          \/ \E fd \in FdKeys, m \in Modes, h \in Handlers : Add(k, fd, m, h)
          \/ \E fd \in FdKeys : Remove(k, fd)
    BY <1>5 DEF ClientStep
  <2>2. k \in Kernel
    BY SyscallsKeepInterest
  <2>3. kernel' \in Kernel
    BY <2>1, <2>2, EpollCalls DEF Add, Remove
  <2>4. fd_handler_map' \in [FdKeys -> Handlers \cup {NULL}]
    BY <2>1 DEF Add, Remove
  <2>5. /\ at' \in At /\ current' \in Running \cup {NULL}
        /\ at' = "handler" => current' \in Running
    BY <1>5 DEF ClientStep, Stay, Return, Exit, Undefined, At
  <2>. QED BY <1>5, <2>3, <2>4, <2>5 DEF ClientStep
<1>6. CASE HandlerReturns
  BY <1>6 DEF HandlerReturns, Return, At
<1>7. ASSUME NEW fd \in Fds, NEW x \in Items, Arrive(fd, x) PROVE LoopTypeOK'
  BY <1>7, KernelCalls DEF Arrive
<1>8. ASSUME NEW fd \in Fds, Spoil(fd) PROVE LoopTypeOK'
  BY <1>8, KernelCalls DEF Spoil
<1>9. ASSUME NEW fd \in Fds, SocketError(fd) PROVE LoopTypeOK'
  BY <1>9, KernelCalls DEF SocketError
<1>10. CASE UNCHANGED loopVars
  BY <1>10 DEF loopVars
<1>. QED
  BY <1>1, <1>2, <1>3, <1>4, <1>5, <1>6, <1>7, <1>8, <1>9, <1>10
  DEF LoopNext, Network

\* The loop's tables keep their types under any clients and any network.
THEOREM LoopTypeCorrect == LoopSpec => []LoopTypeOK
<1>1. LoopInit => LoopTypeOK
  BY LoopTypeInit
<1>2. LoopTypeOK /\ [LoopNext]_loopVars => LoopTypeOK'
  BY LoopTypeStep
<1>. QED BY <1>1, <1>2, PTL DEF LoopSpec

-----------------------------------------------------------------------------
(* The two tables agree. *)

LEMMA InterestStep ==
  LoopTypeOK /\ InterestHasHandler /\ [LoopNext]_loopVars => InterestHasHandler'
<1>. SUFFICES ASSUME LoopTypeOK, InterestHasHandler, [LoopNext]_loopVars
              PROVE  InterestHasHandler'
  OBVIOUS
<1>. USE DEF InterestHasHandler
<1>1. CASE Run \/ EpollFail \/ HandlerReturns \/ UNCHANGED loopVars
  BY <1>1 DEF Run, EpollFail, HandlerReturns, loopVars
<1>2. CASE EpollWait
  <2>1. kernel'.interest = kernel.interest /\ kernel'.open = kernel.open
    BY <1>2 DEF EpollWait, LoopTypeOK, Kernel
  <2>. QED BY <1>2, <2>1 DEF EpollWait
<1>3. ASSUME NEW e \in batch, Dispatch(e) PROVE InterestHasHandler'
  BY <1>3 DEF Dispatch
<1>4. CASE ClientStep
  <2>1. PICK k \in Syscalls(kernel) :
          \/ kernel' = k /\ UNCHANGED fd_handler_map
          \/ \E fd \in FdKeys, m \in Modes, h \in Handlers : Add(k, fd, m, h)
          \/ \E fd \in FdKeys : Remove(k, fd)
    BY <1>4 DEF ClientStep
  <2>2. /\ k \in Kernel
        /\ \A fd \in k.interest : fd \in k.open /\ fd_handler_map[fd] # NULL
    BY SyscallsKeepInterest DEF LoopTypeOK
  <2>3. CASE kernel' = k /\ UNCHANGED fd_handler_map
    BY <2>2, <2>3
  <2>4. ASSUME NEW fd \in FdKeys, NEW m \in Modes, NEW h \in Handlers,
               Add(k, fd, m, h)
        PROVE  InterestHasHandler'
    <3>1. kernel'.open = k.open /\ kernel'.interest \subseteq k.interest \cup {fd}
      BY <2>2, <2>4 DEF Add, EpollAdd, Kernel
    <3>2. fd \in kernel'.interest => fd \in k.open
      BY <2>2, <2>4 DEF Add, EpollAdd, Kernel
    <3>3. fd_handler_map'[fd] # NULL
      BY <2>4, EventLoopAssumption DEF Add, LoopTypeOK
    <3>4. \A f \in FdKeys \ {fd} : fd_handler_map'[f] = fd_handler_map[f]
      BY <2>4 DEF Add, LoopTypeOK
    <3>5. k.interest \subseteq FdKeys
      BY <2>2 DEF Kernel, FdKeys
    <3>. QED BY <2>2, <3>1, <3>2, <3>3, <3>4, <3>5
  <2>5. ASSUME NEW fd \in FdKeys, Remove(k, fd) PROVE InterestHasHandler'
    <3>1. kernel'.open = k.open /\ kernel'.interest = k.interest \ {fd}
      BY <2>2, <2>5 DEF Remove, EpollDel, Kernel
    <3>2. \A f \in FdKeys \ {fd} : fd_handler_map'[f] = fd_handler_map[f]
      BY <2>5 DEF Remove, LoopTypeOK
    <3>3. k.interest \subseteq FdKeys
      BY <2>2 DEF Kernel, FdKeys
    <3>. QED BY <2>2, <3>1, <3>2, <3>3
  <2>. QED BY <2>1, <2>3, <2>4, <2>5
<1>5. CASE Network
  <2>1. PICK fd \in Fds : \/ \E x \in Items : Arrive(fd, x)
                          \/ Spoil(fd)
                          \/ SocketError(fd)
    BY <1>5 DEF Network
  <2>2. kernel'.interest = kernel.interest /\ kernel'.open = kernel.open
    BY <2>1 DEF Arrive, Spoil, SocketError, Enqueue, Take, Raise, Wake,
                LoopTypeOK, Kernel
  <2>3. UNCHANGED fd_handler_map
    BY <2>1 DEF Arrive, Spoil, SocketError
  <2>. QED BY <2>2, <2>3
<1>. QED BY <1>1, <1>2, <1>3, <1>4, <1>5 DEF LoopNext

\* Under any order of add, remove, socket and close by any clients, whatever
\* epoll watches is open and has a handler in fd_handler_map.
THEOREM InterestIsHandled == LoopSpec => []InterestHasHandler
<1>1. LoopInit => InterestHasHandler
  BY DEF LoopInit, InterestHasHandler
<1>2. LoopTypeOK /\ InterestHasHandler /\ [LoopNext]_loopVars => InterestHasHandler'
  BY InterestStep
<1>. QED BY <1>1, <1>2, LoopTypeCorrect, PTL DEF LoopSpec

-----------------------------------------------------------------------------
(* Every event has its turn. *)

\* Clients, handlers and the network leave the batch alone; only the for loop
\* takes from it, and only the event it looks at.
LEMMA BatchStep ==
  ASSUME NEW e \in batch, [LoopNext]_loopVars
  PROVE  e \in batch' \/ IsHandled(e) \/ IsSkipped(e)
<1>1. CASE \/ Run \/ EpollFail \/ ClientStep \/ HandlerReturns \/ Network
           \/ UNCHANGED loopVars
  BY <1>1 DEF Run, EpollFail, ClientStep, HandlerReturns, Network, Arrive, Spoil,
              SocketError, loopVars
<1>2. CASE EpollWait
  BY <1>2 DEF EpollWait
<1>3. ASSUME NEW d \in batch, Dispatch(d)
      PROVE  e \in batch' \/ IsHandled(e) \/ IsSkipped(e)
  <2>1. CASE e # d
    BY <1>3, <2>1 DEF Dispatch
  <2>2. CASE e = d
    BY <1>3, <2>2 DEF Dispatch, IsHandled, IsSkipped
  <2>. QED BY <2>1, <2>2
<1>. QED BY <1>1, <1>2, <1>3 DEF LoopNext

\* Whatever clients, handlers and the network do, an event of a batch is
\* handed to the handler its descriptor has when its turn comes, and passed over
\* only if there is none.
THEOREM EventsAreKept == LoopSpec => NoEventIsLost
<1>1. [LoopNext]_loopVars
        => [\A e \in batch : e \in batch' \/ IsHandled(e) \/ IsSkipped(e)]_loopVars
  BY BatchStep
<1>. QED BY <1>1, PTL DEF LoopSpec, NoEventIsLost
=============================================================================
