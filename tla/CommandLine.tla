----------------------------- MODULE CommandLine -----------------------------
(***************************************************************************)
(* main() of src/src/server.cpp and the option parser it is built on,      *)
(* Options of src/include/cxxopts.hpp: options are declared, parse() goes  *)
(* through argv, which it compacts in place while it reads it, and main()  *)
(* asks for the values it wants.                                           *)
(*                                                                         *)
(* Texts are atoms.  What the regular expression option_matcher makes of   *)
(* one, and whether an istringstream reads it as an int, is given.         *)
(***************************************************************************)
EXTENDS Integers, Sequences, FiniteSetsExt, SequencesExt

CONSTANTS
  Texts,         \* elements of argv and values of options
  Empty,         \* the text of no characters
  Match,         \* [Texts -> a match of option_matcher]
  Dashed,        \* texts that begin with '-'
  Numbers,       \* texts that are read as an int
  Names,         \* option names, short and long
  None,          \* no name, no text
  CommandLines   \* what a main() declares and wants, with its argv

\* A match has the names of a flag, several if they are short, and what
\* follows "=", Empty if nothing does.
Matches == [kind : {"end", "plain", "flag"}, names : Seq(Names), arg : Texts]

\* What add_options() is given for one option.
Declarations ==
  [short : Names \cup {None}, long : Names \cup {None},
   type : {"bool", "int", "string", "vector"},
   implicit : Texts \cup {None}, default : Texts \cup {None}]

\* The exceptions of cxxopts, none of which main() catches.
Errors == {"option_exists", "invalid_option_format", "option_not_exists", "missing_argument",
           "option_requires_argument", "option_not_has_argument",
           "option_not_present", "argument_incorrect_type"}

ASSUME CommandLineAssumption ==
  /\ IsFiniteSet(Names)
  /\ None \notin Texts \cup Names \cup Errors
  /\ Empty \in Texts
  /\ Match \in [Texts -> Matches]
  /\ \A t \in Texts : Match[t].kind = "flag" =>
       /\ Match[t].names # <<>>
       /\ Len(Match[t].names) > 1 => Match[t].arg = Empty
  /\ \A c \in CommandLines :
       /\ c.declared \in Seq(Declarations)
       /\ c.positional \in Seq(Names)
       /\ c.wanted \subseteq Names
       /\ c.args \in Seq(Texts) /\ c.args # <<>>

VARIABLES
  command,            \* what main() declares, and the options it asks for
  args,               \* argv as it was given, [0 .. argc - 1 -> Texts]
  argv, argc,         \* argv and argc now
  details,            \* number of add_options calls done
  m_options,          \* [Names -> the OptionDetails of that name, 0 if none]
  value, m_count,     \* of every OptionDetails; value is <<>> before any parse
  m_next_positional,
  current, nextKeep,  \* the locals of parse()
  config,             \* what main() prints
  stage

options == <<details, m_options>>
values == <<value, m_count, m_next_positional>>
parserVars == <<command, args, argv, argc, options, values, current, nextKeep, config, stage>>

Given == DOMAIN args

Stages == {"declare", "flags", "defaults", "rest", "parsed", "done"} \cup Errors

ParserTypeOK ==
  /\ argv \in [Given -> Texts]
  /\ argc \in Nat
  /\ m_options \in [Names -> 0 .. details]
  /\ value \in [DOMAIN command.declared -> Seq(Texts)]
  /\ m_count \in [DOMAIN command.declared -> Nat]
  /\ m_next_positional \in 1 .. Len(command.positional) + 1
  /\ stage \in Stages

-----------------------------------------------------------------------------
(* Option values. *)

Option(o) == command.declared[o]
HasArg(o) == Option(o).type # "bool"
HasImplicit(o) == Option(o).implicit # None
IsContainer(o) == Option(o).type = "vector"

\* parse_value: an int must be read to the end of the text, a vector grows.
Fits(o, text) == Option(o).type = "int" => text \in Numbers
Stored(o, old, text) == IF IsContainer(o) THEN Append(old, text) ELSE <<text>>

\* Mutant of Meaning: an empty text is taken for the implicit value of an
\* option that has none.
MeaningOfEmpty(o, given) == IF given = Empty THEN Option(o).implicit ELSE given

\* standard_value::parse
Meaning(o, given) ==
  IF HasImplicit(o) /\ given = Empty THEN Option(o).implicit ELSE given

\* OptionDetails::parse on the values st, unless something was thrown before.
Parse(st, o, given) ==
  LET text == Meaning(o, given)
  IN IF st.error # None THEN st
     ELSE IF Fits(o, text)
     THEN [st EXCEPT !.value[o] = Stored(o, @, text), !.count[o] = @ + 1]
     ELSE [st EXCEPT !.error = "argument_incorrect_type"]

Throw(st, error) == IF st.error # None THEN st ELSE [st EXCEPT !.error = error]

Values == [value |-> value, count |-> m_count, error |-> None]

\* The values become st, and parse() goes on in next or is left by a throw.
Becomes(st, next) ==
  /\ value' = st.value
  /\ m_count' = st.count
  /\ stage' = IF st.error = None THEN next ELSE st.error

-----------------------------------------------------------------------------
(* add_options() *)

\* add_one_option: std::map::emplace does not replace an entry.
Exists(name) == name # None /\ m_options[name] # 0

\* add_option: the short name is entered before the long one is tried.
AddOption(d) ==
  LET enter == IF Exists(d.short) THEN {} ELSE {d.short, d.long}
      taken == {n \in enter \ {None} : m_options[n] = 0}
  IN /\ m_options' = [n \in Names |-> IF n \in taken THEN details + 1 ELSE m_options[n]]
     /\ stage' = IF Exists(d.short) \/ Exists(d.long) THEN "option_exists" ELSE stage

\* OptionAdder: option_specifier wants a long name.
Declare ==
  /\ stage = "declare"
  /\ details < Len(command.declared)
  /\ LET d == command.declared[details + 1]
     IN IF d.long = None THEN stage' = "invalid_option_format" /\ UNCHANGED m_options
        ELSE AddOption(d)
  /\ details' = details + 1
  /\ UNCHANGED <<command, args, argv, argc, values, current, nextKeep, config>>

\* main() calls parse(), after parse_positional() where a program has any.
CallParse ==
  /\ stage = "declare"
  /\ details = Len(command.declared)
  /\ stage' = "flags"
  /\ UNCHANGED <<command, args, argv, argc, options, values, current, nextKeep, config>>

-----------------------------------------------------------------------------
(* The first loop of parse(). *)

\* consume_positional: the first of the remaining positional options that
\* takes any number of values, or has none yet.
Takers ==
  {j \in m_next_positional .. Len(command.positional) :
     LET o == m_options[command.positional[j]]
     IN o # 0 /\ (IsContainer(o) \/ m_count[o] = 0)}

ConsumePositional(text, next) ==
  IF Takers = {}
  THEN /\ m_next_positional' = Len(command.positional) + 1
       /\ Becomes(Values, next)
  ELSE LET j == Min(Takers)
           o == m_options[command.positional[j]]
       IN /\ m_next_positional' = IF IsContainer(o) \/ ~Fits(o, Meaning(o, text)) THEN j ELSE j + 1
          /\ Becomes(Parse(Values, o, text), next)

\* Mutant of Plain: nextKeep is counted up before the argument is moved.
PlainLate ==
  /\ stage = "flags" /\ current # argc
  /\ Match[argv[current]].kind = "plain"
  /\ ConsumePositional(argv[current], stage)
  /\ IF Takers = {}
     THEN argv' = [argv EXCEPT ![nextKeep + 1] = argv[current]] /\ nextKeep' = nextKeep + 1
     ELSE UNCHANGED <<argv, nextKeep>>
  /\ current' = current + 1
  /\ UNCHANGED <<command, args, argc, options, config>>

\* An argument that is not a flag and that no positional option takes is kept:
\* it moves to the front of argv.
Plain ==
  /\ stage = "flags" /\ current # argc
  /\ Match[argv[current]].kind = "plain"
  /\ ConsumePositional(argv[current], stage)
  /\ IF Takers = {}
     THEN argv' = [argv EXCEPT ![nextKeep] = argv[current]] /\ nextKeep' = nextKeep + 1
     ELSE UNCHANGED <<argv, nextKeep>>
  /\ current' = current + 1
  /\ UNCHANGED <<command, args, argc, options, config>>

\* The argument after the flag, if there is one that the option may take.
NextIsArgument(o) ==
  /\ current + 1 < argc
  /\ ~(argv[current + 1] \in Dashed /\ HasImplicit(o))

\* checked_parse_arg
CheckedParse(st, o) ==
  IF NextIsArgument(o) THEN Parse(st, o, argv[current + 1])
  ELSE IF HasImplicit(o) THEN Parse(st, o, Empty)
  ELSE Throw(st, "missing_argument")

\* One name of a flag; only the last one may take an argument.
ParseName(st, m, i) ==
  LET o == m_options[m.names[i]]
  IN IF o = 0 THEN Throw(st, "option_not_exists")
     ELSE IF ~HasArg(o)
     THEN IF m.arg = Empty THEN Parse(st, o, Empty)
          ELSE Throw(st, "option_not_has_argument")
     ELSE IF i < Len(m.names)
     THEN IF HasImplicit(o) THEN Parse(st, o, Empty)
          ELSE Throw(st, "option_requires_argument")
     ELSE IF m.arg # Empty THEN Parse(st, o, m.arg)
     ELSE CheckedParse(st, o)

\* Mutant of TakesNext: an option with an implicit value skips an argument
\* although it takes none.
TakesNextAlways(m) ==
  LET o == m_options[m.names[Len(m.names)]]
  IN o # 0 /\ HasArg(o) /\ m.arg = Empty

\* The flag and its argument were two elements of argv.
TakesNext(m) ==
  LET o == m_options[m.names[Len(m.names)]]
  IN o # 0 /\ HasArg(o) /\ m.arg = Empty /\ NextIsArgument(o)

ParseNames(m) ==
  FoldLeft(LAMBDA st, i : ParseName(st, m, i), Values, [i \in 1 .. Len(m.names) |-> i])

Flag ==
  /\ stage = "flags" /\ current # argc
  /\ LET m == Match[argv[current]]
     IN /\ m.kind = "flag"
        /\ Becomes(ParseNames(m), stage)
        /\ current' = current + IF TakesNext(m) THEN 2 ELSE 1
  /\ UNCHANGED <<command, args, argv, argc, options, m_next_positional, nextKeep, config>>

\* Mutant of EndOfFlags: the loop goes on at "--" instead of ending.
EndOfFlagsAgain ==
  /\ stage = "flags" /\ current # argc
  /\ Match[argv[current]].kind = "end"
  /\ UNCHANGED parserVars

\* "--"
EndOfFlags ==
  /\ stage = "flags" /\ current # argc
  /\ Match[argv[current]].kind = "end"
  /\ current' = current + 1
  /\ stage' = "defaults"
  /\ UNCHANGED <<command, args, argv, argc, options, values, nextKeep, config>>

EndOfArguments ==
  /\ stage = "flags" /\ current = argc
  /\ stage' = "defaults"
  /\ UNCHANGED <<command, args, argv, argc, options, values, current, nextKeep, config>>

-----------------------------------------------------------------------------
(* The rest of parse(). *)

\* Mutant of WithDefault: an option that has a value gets its default as well.
WithDefaultAlways(name, st) ==
  LET o == m_options[name]
  IN IF o = 0 \/ st.error # None THEN st
     ELSE IF Option(o).default = None THEN st
     ELSE [st EXCEPT !.value[o] = Stored(o, @, Option(o).default)]

\* The loop over the names in m_options: an option without a value gets its
\* default once for every name it has.
WithDefault(name, st) ==
  LET o == m_options[name]
  IN IF o = 0 \/ st.error # None THEN st
     ELSE IF m_count[o] # 0 \/ Option(o).default = None THEN st
     ELSE IF Fits(o, Option(o).default)
     THEN [st EXCEPT !.value[o] = Stored(o, @, Option(o).default)]
     ELSE [st EXCEPT !.error = "argument_incorrect_type"]

Defaults ==
  /\ stage = "defaults"
  /\ Becomes(FoldSet(WithDefault, Values, Names), "rest")
  /\ UNCHANGED <<command, args, argv, argc, options, m_next_positional, current,
                 nextKeep, config>>

\* What comes after "--" is consumed or dropped.
Remaining ==
  /\ stage = "rest" /\ current < argc
  /\ ConsumePositional(argv[current], stage)
  /\ current' = current + 1
  /\ UNCHANGED <<command, args, argv, argc, options, nextKeep, config>>

Finish ==
  /\ stage = "rest" /\ current >= argc
  /\ argc' = nextKeep
  /\ stage' = "parsed"
  /\ UNCHANGED <<command, args, argv, options, values, current, nextKeep, config>>

\* Options::operator[] throws where a name was never declared.
Present(name) == m_options[name] # 0

\* as(): an option without a value is empty or 0, here <<>>.
As(name) == value[m_options[name]]

\* main() looks up the options it wants and prints them.
Report ==
  /\ stage = "parsed"
  /\ IF \A n \in command.wanted : Present(n)
     THEN /\ stage' = "done"
          /\ config' = [n \in command.wanted |-> As(n)]
     ELSE stage' = "option_not_present" /\ UNCHANGED config
  /\ UNCHANGED <<command, args, argv, argc, options, values, current, nextKeep>>

-----------------------------------------------------------------------------

ParserInit ==
  /\ \E c \in CommandLines :
       /\ command = [declared |-> c.declared, positional |-> c.positional,
                     wanted |-> c.wanted]
       /\ args = [i \in 0 .. Len(c.args) - 1 |-> c.args[i + 1]]
       /\ argc = Len(c.args)
       /\ value = [o \in DOMAIN c.declared |-> <<>>]
       /\ m_count = [o \in DOMAIN c.declared |-> 0]
  /\ argv = args
  /\ details = 0
  /\ m_options = [n \in Names |-> 0]
  /\ m_next_positional = 1
  /\ current = 1 /\ nextKeep = 1
  /\ config = <<>>
  /\ stage = "declare"

ParserNext ==
  \/ Declare \/ CallParse
  \/ Plain \/ Flag \/ EndOfFlags \/ EndOfArguments
  \/ Defaults \/ Remaining \/ Finish
  \/ Report

ParserSpec == ParserInit /\ [][ParserNext]_parserVars

\* One thread that nothing holds up.
FairParserSpec == ParserSpec /\ WF_parserVars(ParserNext)

-----------------------------------------------------------------------------
(* What the arguments mean: by their places in args, and by what was        *)
(* declared, without the state of the parser.                               *)

OptionOf(name) ==
  LET S == {o \in DOMAIN command.declared :
              name \in {Option(o).short, Option(o).long}}
  IN IF S = {} THEN 0 ELSE Min(S)

LastOption(i) == LET ns == Match[args[i]].names IN OptionOf(ns[Len(ns)])

\* A flag whose value is the next argument.
Asks(i) ==
  /\ Match[args[i]].kind = "flag" /\ Match[args[i]].arg = Empty
  /\ LastOption(i) # 0 /\ HasArg(LastOption(i))
  /\ i + 1 \in Given
  /\ ~(HasImplicit(LastOption(i)) /\ args[i + 1] \in Dashed)

\* The role of every argument.
Role[i \in Nat] ==
  IF i = 0 THEN "program"
  ELSE IF Role[i - 1] = "asks" THEN "argument"
  ELSE IF Role[i - 1] \in {"end", "rest"} THEN "rest"
  ELSE IF Asks(i) THEN "asks"
  ELSE Match[args[i]].kind

\* The arguments before place n and in front of "--" that are neither flags
\* nor values of flags.
OthersBefore[n \in Nat] ==
  IF n = 0 THEN <<>>
  ELSE IF Role[n - 1] = "plain" THEN Append(OthersBefore[n - 1], args[n - 1])
  ELSE OthersBefore[n - 1]

Others == OthersBefore[Cardinality(Given)]

\* The places where the value of a scalar option is written.
FlagsOf(o) ==
  {i \in Given : Role[i] \in {"flag", "asks"}
                   /\ \E k \in DOMAIN Match[args[i]].names :
                        OptionOf(Match[args[i]].names[k]) = o}

ValueAt(o, i) ==
  LET given == IF Role[i] = "asks" /\ LastOption(i) = o THEN args[i + 1]
               ELSE Match[args[i]].arg
  IN IF given # Empty THEN <<given>>
     ELSE IF HasImplicit(o) THEN <<Option(o).implicit>>
     ELSE <<Empty>>

\* The loop that reads argv also writes it: no argument is overwritten before
\* it is read, and current, which is compared with argc by !=, does not pass
\* it although checked_parse_arg moves it as well.
UnreadIsIntact ==
  stage \in {"flags", "defaults", "rest"} =>
    /\ nextKeep <= current /\ current <= argc
    /\ \A i \in Given : i >= current => argv[i] = args[i]

\* What parse() leaves in argv are the last of the arguments in front of "--"
\* that are neither flags nor their values, one for one and in order: all of
\* those where a program has no positional options, a last stretch of them
\* where it has.  Nothing from behind "--" is left there: what no positional
\* option takes of it is lost (cxxopts.hpp:1232-1241), as the x in "server -- x".
KeptInOrder ==
  stage = "parsed" =>
    \E k \in 1 .. Len(Others) + 1 :
      /\ [i \in 1 .. argc - 1 |-> argv[i]] = SubSeq(Others, k, Len(Others))
      /\ command.positional = <<>> => k = 1

\* main() sees, of every option that is neither positional (under any of its
\* names) nor a vector, the value its last flag gives, or the default,
\* whichever of its names was used.
ConfigAsGiven ==
  stage = "done" =>
    \A n \in command.wanted :
      LET o == OptionOf(n)
      IN (\A p \in ToSet(command.positional) : OptionOf(p) # o) /\ ~IsContainer(o) =>
           config[n] = IF FlagsOf(o) # {} THEN ValueAt(o, Max(FlagsOf(o)))
                       ELSE IF Option(o).default # None THEN <<Option(o).default>>
                       ELSE <<>>

\* parse() returns or throws.
ParseEnds == stage = "declare" ~> stage \in {"done"} \cup Errors
=============================================================================
