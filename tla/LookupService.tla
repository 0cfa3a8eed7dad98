---------------------------- MODULE LookupService ----------------------------
(***************************************************************************)
(* What DNSResolver promises to the code that calls resolve(): a callback  *)
(* waits for its host name, the callbacks of one name are called in the    *)
(* order they were handed in, each at most once and with an address that   *)
(* a name server gives for that very name.  Nothing is said of sockets,    *)
(* datagrams or the event loop.                                            *)
(***************************************************************************)
EXTENDS Sequences

CONSTANTS
  Resolvers,  \* DNSResolver objects
  Hosts,      \* host names
  Calls,      \* calls of resolve(), each with the callback it passes
  Truth,      \* [Hosts -> set of addresses]: what the name servers know
  NULL

VARIABLES
  asked,    \* [Calls -> the resolver and name the call was made for]
  waiting,  \* [Resolvers -> [Hosts -> calls not yet answered, oldest first]]
  answer    \* [Calls -> the address the callback was called with]

serviceVars == <<asked, waiting, answer>>

Init ==
  /\ asked = [c \in Calls |-> NULL]
  /\ waiting = [r \in Resolvers |-> [h \in Hosts |-> <<>>]]
  /\ answer = [c \in Calls |-> NULL]

Ask(r, h, c) ==
  /\ asked[c] = NULL
  /\ asked' = [asked EXCEPT ![c] = <<r, h>>]
  /\ waiting' = [waiting EXCEPT ![r][h] = Append(@, c)]
  /\ UNCHANGED answer

Answer(r, h, a) ==
  /\ waiting[r][h] # <<>>
  /\ waiting' = [waiting EXCEPT ![r][h] = Tail(@)]
  /\ answer' = [answer EXCEPT ![Head(waiting[r][h])] = a]
  /\ UNCHANGED asked

\* The resolver is deleted and forgets its callbacks.
Abandon(r) ==
  /\ waiting' = [waiting EXCEPT ![r] = [h \in Hosts |-> <<>>]]
  /\ UNCHANGED <<asked, answer>>

Next ==
  \E r \in Resolvers :
    \/ \E h \in Hosts : \/ \E c \in Calls : Ask(r, h, c)
                        \/ \E a \in Truth[h] : Answer(r, h, a)
    \/ Abandon(r)

Spec == Init /\ [][Next]_serviceVars
=============================================================================
