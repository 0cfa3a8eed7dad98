------------------------------ MODULE Programs ------------------------------
(***************************************************************************)
(* The executables of the repository that run to their end without an      *)
(* event loop: server (src/src/server.cpp), which reads its command line   *)
(* and makes a resolver that it deletes at once; dns (src/dns.c); and one  *)
(* lookup of test_asyncdns seen at the level of its messages.  A behaviour *)
(* is a run of one of them.                                                *)
(***************************************************************************)
EXTENDS DnsPrototype, CommandLine

programVars == <<vars, prototypeVars, parserVars>>

\* A program without command line options, and one that looks nothing up.
NoCommandLine ==
  /\ command = [declared |-> <<>>, positional |-> <<>>, wanted |-> {}]
  /\ args = [i \in {0} |-> Empty] /\ argv = args /\ argc = 1
  /\ details = 0 /\ m_options = [n \in Names |-> 0]
  /\ value = <<>> /\ m_count = <<>> /\ m_next_positional = 1
  /\ current = 1 /\ nextKeep = 1
  /\ config = <<>>
  /\ stage = "done"

NoLookup ==
  /\ host = <<>>
  /\ program = "server"
  /\ NothingSent
  /\ dns_servers = <<>> /\ printed = Nothing
  /\ phase = "idle"

ProgramsInit ==
  \/ LookupInit /\ NoCommandLine
  \/ NoLookup /\ ParserInit

ProgramsNext ==
  \/ LookupNext /\ UNCHANGED parserVars
  \/ ParserNext /\ UNCHANGED <<vars, prototypeVars>>

\* A program computes without waiting, but nobody has to answer it.
ProgramsSpec == ProgramsInit /\ [][ProgramsNext]_programVars /\ WF_parserVars(ParserNext)
=============================================================================
