----------------------------- MODULE DNSResolver -----------------------------
(***************************************************************************)
(* DNSResolver of include/asyncdns.hpp and lib/asyncdns.cpp, several of    *)
(* them on one event loop, with the application that calls them and the    *)
(* name servers that answer.                                               *)
(*                                                                         *)
(* The process has one thread.  The application calls the API from main    *)
(* before run() and, once the loop runs, from the callbacks it registered: *)
(* call_callback is therefore a loop of steps, one for every callback,     *)
(* with API calls in between, and everything else a function does between  *)
(* two such points is one step.                                            *)
(***************************************************************************)
EXTENDS EventLoop

CONSTANTS
  Resolvers,   \* DNSResolver objects, EventHandlers of the loop
  Hosts,       \* host names as resolve() is given them
  Addrs,       \* IPv4 addresses
  Calls,       \* calls of resolve(), each with the callback it passes
  Answers,     \* [Hosts -> the datagrams a server may send for that query]
  NoSocket,    \* dns_socket = 0
  NumServers,  \* 2 in the source
  Allowed      \* what the application, the network and the stack may do

\* A resource record as parse_response delivers it.
Record == [name : Hosts, type : {"A"}, ip : Addrs]
     \cup [name : Hosts, type : {"CNAME"}, ip : {NULL}]

ARecords(d) == {i \in DOMAIN d : d[i].type = "A"}

\* call_callback at the i-th element of a vector.
Frame == [r : Resolvers, host : Hosts, ip : Addrs, i : Nat \ {0}]

\* "close", "delete"  the application closes resolvers, deletes them
\* "after close"      and goes on using a resolver it has closed
\* "tail"             send_req's buffer holds a byte after the name
\* "duplicate"        the network delivers a reply more than once
\* "spoil"            a queued datagram fails its checksum when it is read
\* "error"            the kernel reports an error on a socket
\* "epoll"            epoll_wait fails
Possible == {"close", "delete", "after close", "tail",
             "duplicate", "spoil", "error", "epoll"}

ASSUME DNSResolverAssumption ==
  /\ Resolvers \subseteq Handlers
  /\ NoSocket \notin FdKeys
  /\ NumServers \in Nat \ {0}
  /\ Items \subseteq Seq(Record)
  /\ Answers \in [Hosts -> SUBSET Items]
  /\ Allowed \subseteq Possible
  /\ NULL \notin Addrs
  /\ NULL \notin Frame

\* A call that was not made is asked for nothing.
ASSUME AskedAssumption == NULL \notin Resolvers \X Hosts

VARIABLES
  dns_socket,           \* [Resolvers -> descriptor, BadFd or NoSocket]
  loop,                 \* [Resolvers -> the pointer to the loop is set]
  hostname_to_cb,       \* [Resolvers -> map from names to callback vectors]
  hostname_status_map,  \* [Resolvers -> names that have a status]
  alive,                \* resolvers whose destructor has not run
  frame,                \* the iteration of call_callback in progress
  inflight,             \* [Fds -> [Hosts -> replies still to come]]
  asked,                \* history: [Calls -> resolver and name]
  answer,               \* history: [Calls -> address given to the callback]
  closed                \* history: resolvers on which close() was called

resolverVars == <<dns_socket, loop, hostname_to_cb, hostname_status_map,
                  alive, frame, inflight, asked, answer, closed>>

vars == <<loopVars, resolverVars>>

TypeOK ==
  /\ LoopTypeOK
  /\ dns_socket \in [Resolvers -> FdKeys \cup {NoSocket}]
  /\ loop \in [Resolvers -> BOOLEAN]
  /\ DOMAIN hostname_to_cb = Resolvers
  /\ \A r \in Resolvers :
       /\ DOMAIN hostname_to_cb[r] \subseteq Hosts
       /\ hostname_to_cb[r] \in [DOMAIN hostname_to_cb[r] -> Seq(Calls)]
  /\ hostname_status_map \in [Resolvers -> SUBSET Hosts]
  /\ alive \in SUBSET Resolvers
  /\ frame \in Frame \cup {NULL}
  /\ inflight \in [Fds -> [Hosts -> Nat]]
  /\ asked \in [Calls -> (Resolvers \X Hosts) \cup {NULL}]
  /\ answer \in [Calls -> Addrs \cup {NULL}]
  /\ closed \in SUBSET Resolvers

Quiet == [h \in Hosts |-> 0]

Init ==
  /\ LoopInit
  /\ dns_socket = [r \in Resolvers |-> NoSocket]
  /\ loop = [r \in Resolvers |-> FALSE]
  /\ hostname_to_cb = [r \in Resolvers |-> [h \in {} |-> <<>>]]
  /\ hostname_status_map = [r \in Resolvers |-> {}]
  /\ alive = Resolvers
  /\ frame = NULL
  /\ inflight = [fd \in Fds |-> Quiet]
  /\ asked = [c \in Calls |-> NULL]
  /\ answer = [c \in Calls |-> NULL]
  /\ closed = {}

-----------------------------------------------------------------------------
(* The API, called by the application. *)

\* map[key] = value
Put(f, x, v) == [y \in DOMAIN f \cup {x} |-> IF y = x THEN v ELSE f[y]]

Callbacks(r, h) ==
  IF h \in DOMAIN hostname_to_cb[r] THEN hostname_to_cb[r][h] ELSE <<>>

\* The application has the thread: main before run(), or a callback.
CanCall(r) ==
  /\ at = "main" \/ (at = "handler" /\ frame # NULL)
  /\ r \in alive
  /\ r \in closed => "after close" \in Allowed

\* Mutant of SocketOutcomes: a second call makes a second socket.
SocketEveryTime(r) ==
  IF Fds \subseteq kernel.open THEN {<<BadFd, kernel>>}
  ELSE {<<fd, Socket(kernel, fd)>> : fd \in Free(kernel)}

\* The socket a resolver has after create_dns_socket and the kernel then;
\* socket() fails when every number is taken, and nobody looks.
SocketOutcomes(r) ==
  IF dns_socket[r] # NoSocket THEN {<<dns_socket[r], kernel>>}
  ELSE IF Fds \subseteq kernel.open THEN {<<BadFd, kernel>>}
  ELSE {<<fd, Socket(kernel, fd)>> : fd \in Free(kernel)}

CreateDnsSocket(r) ==
  /\ CanCall(r)
  /\ \E o \in SocketOutcomes(r) :
       /\ dns_socket' = [dns_socket EXCEPT ![r] = o[1]]
       /\ kernel' = o[2]
  /\ UNCHANGED <<fd_handler_map, at, batch, current, loop, hostname_to_cb,
                 hostname_status_map, alive, frame, inflight, asked, answer,
                 closed>>

\* Mutant of AddToLoop: the entry of the map is overwritten.
AddToLoopOverwrites(r) ==
  /\ CanCall(r)
  /\ ~loop[r]
  /\ \E o \in SocketOutcomes(r) :
       /\ dns_socket' = [dns_socket EXCEPT ![r] = o[1]]
       /\ kernel' = EpollAdd(o[2], o[1], "EPOLLET")
       /\ fd_handler_map' = [fd_handler_map EXCEPT ![o[1]] = r]
  /\ loop' = [loop EXCEPT ![r] = TRUE]
  /\ UNCHANGED <<at, batch, current, hostname_to_cb, hostname_status_map,
                 alive, frame, inflight, asked, answer, closed>>

AddToLoop(r) ==
  /\ CanCall(r)
  /\ ~loop[r]
  /\ \E o \in SocketOutcomes(r) :
       /\ dns_socket' = [dns_socket EXCEPT ![r] = o[1]]
       /\ Add(o[2], o[1], "EPOLLET", r)
  /\ loop' = [loop EXCEPT ![r] = TRUE]
  /\ UNCHANGED <<at, batch, current, hostname_to_cb, hostname_status_map,
                 alive, frame, inflight, asked, answer, closed>>

\* send_req: the same buffer goes to every server, from whatever socket has
\* the number.  The name in it is terminated one byte too late; where that
\* byte is not zero the query is malformed and no server answers it.
SendReq(r, h) ==
  \/ /\ dns_socket[r] \in kernel.open
     /\ inflight' = [inflight EXCEPT ![dns_socket[r]][h] = @ + NumServers]
  \/ /\ dns_socket[r] \notin kernel.open \/ "tail" \in Allowed
     /\ UNCHANGED inflight

\* A push_back on the vector that call_callback is iterating over: it may
\* reallocate the vector and leave the iterator dangling.
Invalidates(r, h) == frame # NULL /\ frame.r = r /\ frame.host = h

Resolve(r, h, c) ==
  /\ CanCall(r)
  /\ asked[c] = NULL
  /\ asked' = [asked EXCEPT ![c] = <<r, h>>]
  /\ hostname_to_cb' =
       [hostname_to_cb EXCEPT ![r] = Put(@, h, Append(Callbacks(r, h), c))]
  /\ hostname_status_map' =
       [hostname_status_map EXCEPT
          ![r] = IF h \in DOMAIN hostname_to_cb[r] THEN @ ELSE @ \cup {h}]
  /\ SendReq(r, h)
  /\ Stay \/ (Invalidates(r, h) /\ Undefined)
  /\ UNCHANGED <<kernel, fd_handler_map, batch, dns_socket, loop, alive,
                 frame, answer, closed>>

\* Nothing is in flight to a socket that is closed.
Hangup(fd) == inflight' = IF fd \in Fds THEN [inflight EXCEPT ![fd] = Quiet]
                                        ELSE inflight

\* Mutant of CloseResolver: the loop is not told.
CloseWithoutRemove(r) ==
  /\ CanCall(r)
  /\ "close" \in Allowed
  /\ dns_socket[r] # NoSocket
  /\ kernel' = Close(kernel, dns_socket[r])
  /\ Hangup(dns_socket[r])
  /\ closed' = closed \cup {r}
  /\ UNCHANGED <<fd_handler_map, at, batch, current, dns_socket, loop,
                 hostname_to_cb, hostname_status_map, alive, frame, asked,
                 answer>>

\* DNSResolver::close: neither dns_socket nor loop is reset.
CloseResolver(r) ==
  /\ CanCall(r)
  /\ "close" \in Allowed
  /\ dns_socket[r] # NoSocket
  /\ LET fd == dns_socket[r]
         k  == Close(kernel, fd)
     IN /\ IF loop[r] THEN Remove(k, fd)
                      ELSE kernel' = k /\ UNCHANGED fd_handler_map
        /\ Hangup(fd)
  /\ closed' = closed \cup {r}
  /\ UNCHANGED <<at, batch, current, dns_socket, loop, hostname_to_cb,
                 hostname_status_map, alive, frame, asked, answer>>

\* ~DNSResolver frees the callback vectors; the socket stays open and the
\* loop keeps its pointer to the object.
Delete(r) ==
  /\ at = "main" \/ (at = "handler" /\ frame # NULL)
  /\ "delete" \in Allowed
  /\ r \in alive
  /\ alive' = alive \ {r}
  /\ hostname_to_cb' = [hostname_to_cb EXCEPT ![r] = [h \in {} |-> <<>>]]
  /\ UNCHANGED <<loopVars, dns_socket, loop, hostname_status_map, frame,
                 inflight, asked, answer, closed>>

Application ==
  \E r \in Resolvers :
    \/ CreateDnsSocket(r)
    \/ AddToLoop(r)
    \/ \E h \in Hosts, c \in Calls : Resolve(r, h, c)
    \/ CloseResolver(r)
    \/ Delete(r)

-----------------------------------------------------------------------------
(* Events, taken by the resolver that Dispatch found in fd_handler_map. *)

apiState == <<dns_socket, loop, alive, asked, closed>>

Handling(r) == at = "handler" /\ frame = NULL /\ current.handler = r

\* Mutant of ErrorEvent: the TODO half done, a new socket that the loop does
\* not know.
ErrorEventRenews(r) ==
  /\ current.error
  /\ kernel' = Close(kernel, current.fd)
  /\ dns_socket' = [dns_socket EXCEPT ![r] = NoSocket]
  /\ Hangup(current.fd)
  /\ Return
  /\ UNCHANGED <<fd_handler_map, batch, loop, alive, asked, closed,
                 hostname_to_cb, hostname_status_map, frame, answer>>

\* EPOLLERR: the socket is closed; fd_handler_map and dns_socket keep its
\* number.
ErrorEvent(r) ==
  /\ current.error
  /\ kernel' = Close(kernel, current.fd)
  /\ Hangup(current.fd)
  /\ Return
  /\ UNCHANGED <<fd_handler_map, batch, apiState, hostname_to_cb,
                 hostname_status_map, frame, answer>>

\* Mutant of FirstA: the first record, whatever its type.
FirstRecord(d) == {i \in DOMAIN d : i = 1}

\* Where the first A record of a response is, which is all that handle_data
\* looks for.
FirstA(d) == {i \in ARecords(d) : \A j \in ARecords(d) : i <= j}

\* The first element of the vector is called.
BeginCallbacks(r, h, a) ==
  /\ frame' = [r |-> r, host |-> h, ip |-> a, i |-> 1]
  /\ answer' = [answer EXCEPT ![Head(hostname_to_cb[r][h])] = a]
  /\ Stay
  /\ UNCHANGED <<hostname_to_cb, hostname_status_map>>

\* Mutant of EndCallbacks: the vector is not cleared.
EndWithoutClear(r, h) ==
  /\ hostname_status_map' = [hostname_status_map EXCEPT ![r] = @ \ {h}]
  /\ frame' = NULL
  /\ Return
  /\ UNCHANGED <<answer, hostname_to_cb>>

\* Once through: clear() the vector, erase the status, and the call returns
\* through handle_data and handle_event to the loop.
EndCallbacks(r, h) ==
  /\ hostname_to_cb' = [hostname_to_cb EXCEPT ![r][h] = <<>>]
  /\ hostname_status_map' = [hostname_status_map EXCEPT ![r] = @ \ {h}]
  /\ frame' = NULL
  /\ Return
  /\ UNCHANGED answer

NothingCalled ==
  /\ Return
  /\ UNCHANGED <<hostname_to_cb, hostname_status_map, frame, answer>>

\* Mutant of CallCallback: only names that have a status are looked for.
CallByStatus(r, h, a) ==
  IF h \in hostname_status_map[r]
  THEN IF hostname_to_cb[r][h] # <<>> THEN BeginCallbacks(r, h, a)
                                      ELSE EndCallbacks(r, h)
  ELSE NothingCalled

\* call_callback: the name must be a key of hostname_to_cb.
CallCallback(r, h, a) ==
  IF h \in DOMAIN hostname_to_cb[r]
  THEN IF hostname_to_cb[r][h] # <<>> THEN BeginCallbacks(r, h, a)
                                      ELSE EndCallbacks(r, h)
  ELSE NothingCalled

HandleData(r, d) ==
  \/ \E i \in FirstA(d) : CallCallback(r, d[i].name, d[i].ip)
  \/ ARecords(d) = {} /\ NothingCalled

\* recvfrom delivers a datagram unless the queue is empty or an error is
\* pending, which it reports instead and clears.
Receives(fd) == kernel.input[fd] # <<>> /\ fd \notin kernel.error

\* One recvfrom per event, whatever else is queued.
DataEvent(r) ==
  /\ ~current.error
  /\ Receives(current.fd)
  /\ kernel' = Take(kernel, current.fd)
  /\ HandleData(r, Head(kernel.input[current.fd]))
  /\ UNCHANGED <<fd_handler_map, batch, apiState, inflight>>

\* recvfrom fails, its result is only logged, and handle_data parses an
\* uninitialised buffer: what an earlier datagram left there, or bytes that
\* parse to nothing, or bytes on which the parser runs wild.
EmptyEvent(r) ==
  /\ ~current.error
  /\ ~Receives(current.fd)
  /\ kernel' = ClearError(kernel, current.fd)
  /\ \/ \E d \in Items \cup {<<>>} : HandleData(r, d)
     \/ /\ Undefined
        /\ UNCHANGED <<hostname_to_cb, hostname_status_map, frame, answer>>
  /\ UNCHANGED <<fd_handler_map, batch, apiState, inflight>>

\* Mutant of CallbackReturns: only the first callback is called.
CallbackReturnsOnce ==
  /\ at = "handler" /\ frame # NULL
  /\ EndCallbacks(frame.r, frame.host)
  /\ UNCHANGED <<kernel, fd_handler_map, batch, apiState, inflight>>

\* The callback that is running returns: on to the next element of the
\* vector as it is now, or the end.
CallbackReturns ==
  /\ at = "handler" /\ frame # NULL
  /\ LET r == frame.r
         h == frame.host
     IN IF r \notin alive
        THEN /\ Undefined  \* the vector was freed under the iterator
             /\ UNCHANGED <<hostname_to_cb, hostname_status_map, frame, answer>>
        ELSE IF frame.i < Len(hostname_to_cb[r][h])
        THEN /\ frame' = [frame EXCEPT !.i = @ + 1]
             /\ answer' = [answer EXCEPT ![hostname_to_cb[r][h][frame.i + 1]] = frame.ip]
             /\ Stay
             /\ UNCHANGED <<hostname_to_cb, hostname_status_map>>
        ELSE EndCallbacks(r, h)
  /\ UNCHANGED <<kernel, fd_handler_map, batch, apiState, inflight>>

\* A virtual call on a deleted object is undefined, and an event for any
\* descriptor but dns_socket is ignored.
HandleEvent ==
  \E r \in Resolvers :
    /\ Handling(r)
    /\ IF r \notin alive
       THEN Undefined /\ UNCHANGED <<kernel, fd_handler_map, batch, resolverVars>>
       ELSE IF dns_socket[r] # current.fd
       THEN Return /\ UNCHANGED <<kernel, fd_handler_map, batch, resolverVars>>
       ELSE \/ ErrorEvent(r)
            \/ DataEvent(r)
            \/ EmptyEvent(r)

-----------------------------------------------------------------------------
(* The name servers and the network. *)

\* A reply reaches the socket.  Replies come in any order, and one that is
\* lost is one that never comes.
Reply(fd, h, d) ==
  /\ inflight[fd][h] > 0
  /\ Arrive(fd, d)
  /\ inflight' = [inflight EXCEPT ![fd][h] = @ - 1]
  /\ UNCHANGED <<apiState, hostname_to_cb, hostname_status_map, frame, answer>>

DuplicateReply(fd, h, d) ==
  /\ "duplicate" \in Allowed
  /\ inflight[fd][h] > 0
  /\ Arrive(fd, d)
  /\ UNCHANGED resolverVars

NameServers ==
  \E fd \in Fds, h \in Hosts : \E d \in Answers[h] :
    Reply(fd, h, d) \/ DuplicateReply(fd, h, d)

Mishap ==
  \E fd \in Fds :
    /\ \/ "spoil" \in Allowed /\ Spoil(fd)
       \/ "error" \in Allowed /\ SocketError(fd)
    /\ UNCHANGED resolverVars

LoopStep ==
  /\ \/ Run
     \/ EpollWait
     \/ "epoll" \in Allowed /\ EpollFail
     \/ \E e \in batch : Dispatch(e)
  /\ UNCHANGED resolverVars

Next ==
  \/ Application
  \/ HandleEvent
  \/ CallbackReturns
  \/ LoopStep
  \/ NameServers
  \/ Mishap

Spec == Init /\ [][Next]_vars

(***************************************************************************)
(* The loop runs, callbacks return, and a reply that is still to come does *)
(* come: the last is what a run without loss assumes of the name servers.  *)
(* Nothing obliges the application to call the API.                        *)
(***************************************************************************)
Fairness ==
  /\ WF_vars(LoopStep)
  /\ WF_vars(HandleEvent)
  /\ WF_vars(CallbackReturns)
  /\ \A fd \in Fds, h \in Hosts : WF_vars(\E d \in Answers[h] : Reply(fd, h, d))

FairSpec == Spec /\ Fairness

-----------------------------------------------------------------------------
(* What holds. *)

\* The addresses the name servers give for a name, in a record of that name.
Truth == [h \in Hosts |->
            UNION {{d[i].ip : i \in {j \in ARecords(d) : d[j].name = h}} :
                     d \in Items}]

InFrame(r, h) == frame # NULL /\ frame.r = r /\ frame.host = h

\* The callbacks of a name that have not been called: while call_callback is
\* at one of them, those behind it.
Waiting(r, h) ==
  IF InFrame(r, h) /\ r \in alive
  THEN SubSeq(hostname_to_cb[r][h], frame.i + 1, Len(hostname_to_cb[r][h]))
  ELSE Callbacks(r, h)

\* While callbacks are called, and the resolver lives, call_callback is at one
\* of the elements of the vector; the address is one of that name.
FrameInVector ==
  frame # NULL =>
    /\ frame.ip \in Truth[frame.host]
    /\ frame.r \in alive =>
         /\ frame.host \in DOMAIN hostname_to_cb[frame.r]
         /\ frame.i <= Len(hostname_to_cb[frame.r][frame.host])

Waitings == [r \in Resolvers |-> [h \in Hosts |-> Waiting(r, h)]]

Service == INSTANCE LookupService WITH waiting <- Waitings

\* Every behaviour of the resolvers is one of the lookup service: callbacks
\* are called in order, at most once, for the name they were given for and
\* with an address of that name, although call_callback runs application
\* code between them, although replies are duplicated and reordered, and
\* although descriptors may be closed, reused and confused.
ServiceSpec == Service!Spec

\* When call_callback is through, no callback of that name is left without
\* an address, those included that a callback added in the meantime: clear()
\* throws nothing away that was not called.
AllWaitersServed ==
  [][frame # NULL /\ frame' = NULL =>
       \A c \in Calls : asked[c] = <<frame.r, frame.host>> => answer[c] # NULL]_vars

\* Every step is one the event loop allows a client, so what EventLoop
\* promises to any client holds here.
ImplementsLoop == LoopSpec

\* The loop knows a resolver only by the number the resolver itself uses, so
\* the test at the head of handle_event never turns an event away.
RegisteredUnderOwnSocket ==
  \A fd \in FdKeys, r \in Resolvers :
    fd_handler_map[fd] = r => dns_socket[r] = fd /\ loop[r]

\* A resolver that was added to the loop and not closed has its socket open,
\* registered, and leading to itself.
OwnsItsSocket ==
  \A r \in Resolvers :
    loop[r] /\ r \notin closed /\ dns_socket[r] \in Fds =>
      /\ dns_socket[r] \in kernel.interest
      /\ fd_handler_map[dns_socket[r]] = r

\* Once add_to_loop has got a socket for a resolver, the loop knows it: the
\* comment at asyncdns.cpp:246.
AddToLoopRegisters ==
  [][\A r \in Resolvers :
       ~loop[r] /\ loop'[r] /\ dns_socket'[r] \in Fds =>
         /\ dns_socket'[r] \in kernel'.interest
         /\ fd_handler_map'[dns_socket'[r]] = r]_vars

\* A closed resolver is not run again, even if an event for it was already
\* collected when another resolver's callback closed it: it can be deleted.
ClosedIsSilent ==
  at = "handler" /\ frame = NULL => current.handler \notin closed

\* The descriptors of resolvers that are not closed are open and distinct, and
\* nothing in the loop's map leads to any other resolver: what keeps a closed
\* resolver silent and a number that is free free of handlers.
SocketsApart ==
  LET users == Resolvers \ closed
  IN /\ \A r \in users : dns_socket[r] \in Fds => dns_socket[r] \in kernel.open
     /\ \A r, s \in users : dns_socket[r] \in Fds /\ dns_socket[r] = dns_socket[s] => r = s
     /\ \A fd \in FdKeys : fd_handler_map[fd] \in users \cup {NULL}

\* Where the kernel reports no errors, no event does.
NoErrors ==
  /\ kernel.error = {}
  /\ \A e \in batch : ~e.error
  /\ at = "handler" => ~current.error

\* handle_event finds nothing to read only when its event was collected for
\* an earlier file of the same number, closed and reopened during the batch.
EmptyReadIsStale ==
  at = "handler" /\ frame = NULL /\ ~Readable(kernel, current.fd)
    => current.gen # kernel.gen[current.fd]

\* A lookup whose reply is on its way is answered.
ReplyServesLookup ==
  \A c \in Calls, r \in Resolvers, h \in Hosts :
    /\ asked[c] = <<r, h>>
    /\ loop[r]
    /\ \E fd \in Fds : dns_socket[r] = fd /\ inflight[fd][h] > 0
    ~> answer[c] # NULL \/ Halted

\* A lookup of a name that has an alias is answered like any other when its
\* reply comes: test_asyncdns.cpp:72-74 reads such replies as answers.
AliasServesLookup ==
  \A c \in Calls, r \in Resolvers, h \in Hosts :
    /\ asked[c] = <<r, h>>
    /\ loop[r]
    /\ \E d \in Answers[h] : \E i \in DOMAIN d : d[i].name = h /\ d[i].type = "CNAME"
    /\ \E fd \in Fds : dns_socket[r] = fd /\ inflight[fd][h] > 0
    ~> answer[c] # NULL \/ Halted
=============================================================================
