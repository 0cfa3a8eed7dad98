----------------------------- MODULE MCPrograms -----------------------------
(* Instances of Programs small enough for TLC. *)
EXTENDS MCDnsMessage, Programs

NoText == "no text"

Declares(short, long, type, implicit, default) ==
  [short |-> short, long |-> long, type |-> type, implicit |-> implicit, default |-> default]

Bare(long, type) == Declares(NoText, long, type, NoText, NoText)

\* src/src/server.cpp:6-9 and 11-13.
ServerOptions ==
  [declared   |-> <<Bare("password", "string"), Bare("port", "int"),
                    Declares("w", "workers", "int", NoText, NoText)>>,
   positional |-> <<>>,
   wanted     |-> {"password", "port", "workers"}]

\* What else Options offers: flags, implicit values, defaults, vectors and
\* positional options, one of which was never declared.
OtherOptions ==
  [declared   |-> <<Declares("w", "workers", "bool", NoText, NoText),
                    Declares("p", "port", "int", "1", "2"),
                    Bare("password", "string"),
                    Declares("f", "file", "vector", NoText, "x")>>,
   positional |-> <<"password", "nosuch", "file">>,
   wanted     |-> {"workers", "port", "password"}]

\* The vector can be left out, and then there are arguments to keep.
KeepingOptions ==
  [OtherOptions EXCEPT !.declared = SubSeq(@, 1, 3)]

\* A name that is declared twice, and one that is asked for and not declared.
TwiceDeclared ==
  [declared   |-> <<Bare("port", "int"), Declares("p", "port", "int", NoText, NoText)>>,
   positional |-> <<>>, wanted |-> {"port"}]
\* One with a short name only, which option_specifier does not match.
ShortOnly == [TwiceDeclared EXCEPT !.declared[2] = Declares("p", NoText, "int", NoText, NoText)]
Forgotten == [ServerOptions EXCEPT !.declared = SubSeq(@, 1, 2)]

FlagTexts == {"--password", "--port", "-w", "--workers", "--port=1", "--workers=1", "-wp", "-pw", "-u"}
PlainTexts == {"1", "x", "--w"}
AllTexts == FlagTexts \cup PlainTexts \cup {"--", "", "2", "server"}

DashTexts == FlagTexts \cup {"--w", "--"}

IntTexts == {"1", "2"}

IsFlag(names, arg) == [kind |-> "flag", names |-> names, arg |-> arg]

\* option_matcher wants two characters after "--".
MatchOf ==
  [t \in AllTexts |->
     CASE t = "--password" -> IsFlag(<<"password">>, "")
       [] t = "--port"     -> IsFlag(<<"port">>, "")
       [] t = "--port=1"   -> IsFlag(<<"port">>, "1")
       [] t = "--workers=1" -> IsFlag(<<"workers">>, "1")
       [] t = "--workers"  -> IsFlag(<<"workers">>, "")
       [] t = "-w"         -> IsFlag(<<"w">>, "")
       [] t = "-wp"        -> IsFlag(<<"w", "p">>, "")
       [] t = "-pw"        -> IsFlag(<<"p", "w">>, "")
       [] t = "-u"         -> IsFlag(<<"u">>, "")
       [] t = "--"         -> [kind |-> "end", names |-> <<>>, arg |-> ""]
       [] OTHER            -> [kind |-> "plain", names |-> <<>>, arg |-> ""]]

OptionNames == {"password", "port", "workers", "w", "p", "f", "file", "u", "nosuch"}

Called(main, arguments) ==
  [declared |-> main.declared, positional |-> main.positional, wanted |-> main.wanted,
   args |-> <<"server">> \o arguments]

CallsOf(main, texts, n) ==
  {Called(main, a) : a \in UNION {[1 .. k -> texts] : k \in 0 .. n}}

CommandLineCases ==
  CallsOf(ServerOptions, FlagTexts \cup PlainTexts \cup {"--"}, 3)
    \cup CallsOf(OtherOptions, FlagTexts \cup PlainTexts \cup {"--"}, 3)
    \cup CallsOf(KeepingOptions, {"-wp", "--port", "1", "x", "", "--"}, 4)
    \cup CallsOf(TwiceDeclared, {}, 0) \cup CallsOf(ShortOnly, {}, 0) \cup CallsOf(Forgotten, {}, 0)
=============================================================================
