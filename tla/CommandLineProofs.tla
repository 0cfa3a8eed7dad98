-------------------------- MODULE CommandLineProofs --------------------------
(***************************************************************************)
(* parse() of cxxopts, for every program, every argv and every reading of  *)
(* the texts: it reads and compacts argv in one array without overwriting  *)
(* what it has not read, leaves there what it could not use, and gives     *)
(* every option the value the command line says.                           *)
(***************************************************************************)
EXTENDS CommandLine, Recursion

Reading == {"flags", "defaults", "rest"}

\* What is before nextKeep was kept, what is before current was read.
Positions ==
  /\ nextKeep \in 1 .. current
  /\ current \in 1 .. argc

Array ==
  /\ argc \in Nat
  /\ Given = 0 .. argc - 1
  /\ args \in [Given -> Texts]
  /\ argv \in [Given -> Texts]

Unread == \A i \in Given : i >= current => argv[i] = args[i]

\* The induction: the places in argv matter from the first declaration on,
\* until argc is set to nextKeep.
ParserInv == stage \in Reading \cup {"declare"} => Positions /\ Array /\ Unread

-----------------------------------------------------------------------------

\* A step that leaves argv and its length alone and moves current forward, but
\* not past argc.
LEMMA ReadOn ==
  ASSUME Positions, Array, Unread,
         UNCHANGED <<args, argv, argc, nextKeep>>,
         current' \in current .. argc
  PROVE  (Positions /\ Array /\ Unread)'
<1>1. Array'
  BY DEF Array, Given
<1>2. Positions'
  BY DEF Positions, Array
<1>3. Unread'
  BY DEF Unread, Positions, Array, Given
<1> QED
  BY <1>1, <1>2, <1>3

\* The initial states: argv is args, and there is a program name in it.
LEMMA InitParserInv == ParserInit => ParserInv
<1> SUFFICES ASSUME ParserInit PROVE Positions /\ Array /\ Unread
  BY DEF ParserInv
<1>1. PICK c \in CommandLines :
        /\ args = [i \in 0 .. Len(c.args) - 1 |-> c.args[i + 1]]
        /\ argc = Len(c.args)
  BY DEF ParserInit
<1>2. c.args \in Seq(Texts) /\ c.args # <<>>
  BY CommandLineAssumption
<1>3. Len(c.args) \in Nat /\ Len(c.args) >= 1
  BY <1>2
<1>4. \A i \in 0 .. Len(c.args) - 1 : c.args[i + 1] \in Texts
  BY <1>2, <1>3
<1>5. Array
  BY <1>1, <1>3, <1>4 DEF Array, Given, ParserInit
<1>6. Positions
  BY <1>1, <1>3 DEF Positions, ParserInit
<1>7. Unread
  BY DEF Unread, ParserInit
<1> QED
  BY <1>5, <1>6, <1>7

\* The step that writes argv: the place written, nextKeep, is one that was
\* read, so what is still to be read stays as it was given.
LEMMA PlainParserInv == ASSUME ParserInv, Plain PROVE ParserInv'
<1>1. stage = "flags" /\ current # argc
  BY DEF Plain
<1>2. Positions /\ Array /\ Unread
  BY <1>1 DEF ParserInv, Reading
<1>3. current' = current + 1 /\ current' \in current .. argc
  BY <1>1, <1>2 DEF Plain, Positions, Array
<1>4. CASE Takers = {}
  <2>1. /\ argv' = [argv EXCEPT ![nextKeep] = argv[current]]
        /\ nextKeep' = nextKeep + 1
        /\ UNCHANGED <<args, argc>>
    BY <1>4 DEF Plain
  <2>2. current \in Given /\ nextKeep \in Given
    BY <1>1, <1>2 DEF Positions, Array
  <2>3. Array'
    BY <1>2, <2>1, <2>2 DEF Array, Given
  <2>4. Positions'
    BY <1>2, <1>3, <2>1 DEF Positions, Array
  <2>5. Unread'
    <3> SUFFICES ASSUME NEW i \in Given, i >= current + 1
                 PROVE  argv'[i] = args[i]
      BY <1>3, <2>1 DEF Unread, Given
    <3>1. i # nextKeep /\ i >= current
      BY <1>2 DEF Positions, Array
    <3>2. argv'[i] = argv[i]
      BY <1>2, <2>1, <3>1 DEF Array
    <3> QED
      BY <1>2, <3>1, <3>2 DEF Unread
  <2> QED
    BY <2>3, <2>4, <2>5 DEF ParserInv
<1>5. CASE Takers # {}
  <2>1. UNCHANGED <<args, argv, argc, nextKeep>>
    BY <1>5 DEF Plain
  <2> QED
    BY <1>2, <1>3, <2>1, ReadOn DEF ParserInv
<1> QED
  BY <1>4, <1>5

\* A flag moves current by two only where an argument follows it.
LEMMA FlagParserInv == ASSUME ParserInv, Flag PROVE ParserInv'
<1> DEFINE m == Match[argv[current]]
<1>1. /\ stage = "flags" /\ current # argc
      /\ current' = current + IF TakesNext(m) THEN 2 ELSE 1
      /\ UNCHANGED <<args, argv, argc, nextKeep>>
  BY DEF Flag
<1>2. Positions /\ Array /\ Unread
  BY <1>1 DEF ParserInv, Reading
<1>3. TakesNext(m) => current + 1 < argc
  BY DEF TakesNext, NextIsArgument
<1> HIDE DEF m
<1>4. current' \in current .. argc
  BY <1>1, <1>2, <1>3 DEF Positions, Array
<1> QED
  BY <1>1, <1>2, <1>4, ReadOn DEF ParserInv

\* Every step of the parser keeps the invariant.
LEMMA NextParserInv == ASSUME ParserInv, [ParserNext]_parserVars PROVE ParserInv'
<1>1. CASE Declare \/ CallParse \/ EndOfArguments \/ Defaults
  <2>1. /\ stage \in Reading \cup {"declare"}
        /\ UNCHANGED <<args, argv, argc, current, nextKeep>>
    BY <1>1 DEF Declare, CallParse, EndOfArguments, Defaults, Reading
  <2>2. Positions /\ Array /\ Unread
    BY <2>1 DEF ParserInv
  <2>3. current' \in current .. argc
    BY <2>1, <2>2 DEF Positions, Array
  <2> QED
    BY <2>1, <2>2, <2>3, ReadOn DEF ParserInv
<1>2. CASE Plain
  BY <1>2, PlainParserInv
<1>3. CASE Flag
  BY <1>3, FlagParserInv
<1>4. CASE EndOfFlags \/ Remaining
  <2>1. /\ stage \in Reading /\ (current # argc \/ current < argc)
        /\ current' = current + 1
        /\ UNCHANGED <<args, argv, argc, nextKeep>>
    BY <1>4 DEF EndOfFlags, Remaining, Reading
  <2>2. Positions /\ Array /\ Unread
    BY <2>1 DEF ParserInv
  <2>3. current' \in current .. argc
    BY <2>1, <2>2 DEF Positions, Array
  <2> QED
    BY <2>1, <2>2, <2>3, ReadOn DEF ParserInv
<1>5. CASE Finish \/ Report
  <2>1. stage' \notin Reading \cup {"declare"}
    BY <1>5 DEF Finish, Report, Reading
  <2> QED
    BY <2>1 DEF ParserInv
<1>6. CASE UNCHANGED parserVars
  BY <1>6 DEF ParserInv, Positions, Array, Unread, Given, parserVars, options, values
<1> QED
  BY <1>1, <1>2, <1>3, <1>4, <1>5, <1>6 DEF ParserNext

\* The loop of parse() never overwrites an argument it has not read, and
\* current never passes argc, the != of its condition notwithstanding.
THEOREM UnreadStaysIntact == ParserSpec => []UnreadIsIntact
<1>1. ParserInv => UnreadIsIntact
  BY DEF ParserInv, Reading, Positions, Array, Unread, UnreadIsIntact
<1> QED
  BY InitParserInv, NextParserInv, <1>1, PTL DEF ParserSpec

-----------------------------------------------------------------------------
(* The values of the options.  ParseNames and Defaults are folds: their     *)
(* values are followed step by step.                                       *)

\* The options of a program, by number.
Declared == DOMAIN command.declared

\* The values of a parser between two calls of parse_option.
Results ==
  [value : [Declared -> Seq(Texts)], count : [Declared -> Nat], error : Errors \cup {None}]

\* What main() was compiled with and called with.
Program ==
  /\ command.declared \in Seq(Declarations)
  /\ command.positional \in Seq(Names)
  /\ command.wanted \subseteq Names
  /\ details \in 0 .. Len(command.declared)
  /\ args \in [Given -> Texts]

\* The inductive invariant for the types.
TypeInv == ParserTypeOK /\ Program

\* What add_options() was given for an option.
LEMMA OptionTyped ==
  ASSUME Program, NEW o \in Declared
  PROVE  /\ Option(o) \in Declarations
         /\ HasImplicit(o) => Option(o).implicit \in Texts
         /\ Option(o).default # None => Option(o).default \in Texts
<1>1. Option(o) \in Declarations
  BY DEF Program, Declared, Option
<1> QED
  BY <1>1 DEF Declarations, HasImplicit

\* A value is a sequence of texts, of one text but for a vector.
LEMMA StoredTyped ==
  ASSUME NEW o, NEW old \in Seq(Texts), NEW text \in Texts
  PROVE  Stored(o, old, text) \in Seq(Texts)
  BY DEF Stored

\* standard_value::parse stores a text.
LEMMA MeaningTyped ==
  ASSUME Program, NEW o \in Declared, NEW given \in Texts
  PROVE  Meaning(o, given) \in Texts
  BY OptionTyped DEF Meaning

\* OptionDetails::parse leaves values and counts.
LEMMA ParseTyped ==
  ASSUME Program, NEW st \in Results, NEW o \in Declared, NEW given \in Texts
  PROVE  Parse(st, o, given) \in Results
<1> DEFINE text == Meaning(o, given)
<1>1. text \in Texts
  BY MeaningTyped
<1>2. st.value[o] \in Seq(Texts) /\ st.count[o] \in Nat
  BY DEF Results
<1>3. Stored(o, st.value[o], text) \in Seq(Texts)
  BY <1>1, <1>2, StoredTyped
<1> HIDE DEF text
<1>4. [st EXCEPT !.value[o] = Stored(o, @, text), !.count[o] = @ + 1] \in Results
  <2> DEFINE v == [st.value EXCEPT ![o] = Stored(o, @, text)]
             c == [st.count EXCEPT ![o] = @ + 1]
  <2>1. v \in [Declared -> Seq(Texts)] /\ c \in [Declared -> Nat]
    BY <1>2, <1>3 DEF Results
  <2>2. [st EXCEPT !.value[o] = Stored(o, @, text), !.count[o] = @ + 1]
          = [st EXCEPT !.value = v, !.count = c]
    BY DEF Results
  <2> HIDE DEF v, c
  <2>3. [st EXCEPT !.value = v, !.count = c] \in Results
    BY <2>1 DEF Results
  <2> QED
    BY <2>2, <2>3
<1>5. [st EXCEPT !.error = "argument_incorrect_type"] \in Results
  BY DEF Results, Errors
<1>6. Parse(st, o, given) =
        IF st.error # None THEN st
        ELSE IF Fits(o, text)
        THEN [st EXCEPT !.value[o] = Stored(o, @, text), !.count[o] = @ + 1]
        ELSE [st EXCEPT !.error = "argument_incorrect_type"]
  BY DEF Parse, text
<1> QED
  BY <1>4, <1>5, <1>6

\* A throw leaves the values as they are.
LEMMA ThrowTyped ==
  ASSUME NEW st \in Results, NEW error \in Errors
  PROVE  Throw(st, error) \in Results
  BY DEF Throw, Results

\* m_options has an option that was declared, or 0.
LEMMA OptionsTyped ==
  ASSUME TypeInv, NEW n \in Names
  PROVE  m_options[n] \in Nat /\ (m_options[n] # 0 => m_options[n] \in Declared)
  BY DEF TypeInv, ParserTypeOK, Program, Declared

\* One name of a flag leaves values and counts, whatever argv holds next.
LEMMA ParseNameTyped ==
  ASSUME TypeInv, Positions, Array, NEW st \in Results,
         NEW m \in Matches, NEW i \in DOMAIN m.names
  PROVE  ParseName(st, m, i) \in Results
<1> DEFINE o == m_options[m.names[i]]
<1>1. m.names[i] \in Names /\ m.arg \in Texts /\ Empty \in Texts
  BY CommandLineAssumption DEF Matches
<1>2. o # 0 => o \in Declared
  BY <1>1, OptionsTyped
<1>3. NextIsArgument(o) => argv[current + 1] \in Texts
  BY DEF NextIsArgument, Positions, Array
<1>4. Program
  BY DEF TypeInv
<1> HIDE DEF o
<1>5. o # 0 => CheckedParse(st, o) \in Results
  BY <1>1, <1>2, <1>3, <1>4, ParseTyped, ThrowTyped DEF CheckedParse, Errors
<1>6. o # 0 => Parse(st, o, Empty) \in Results /\ Parse(st, o, m.arg) \in Results
  BY <1>1, <1>2, <1>4, ParseTyped
<1>7. \A e \in Errors : Throw(st, e) \in Results
  BY ThrowTyped
<1> QED
  BY <1>5, <1>6, <1>7 DEF ParseName, o, Errors

\* So does the default of one name.
LEMMA WithDefaultTyped ==
  ASSUME TypeInv, NEW name \in Names, NEW st \in Results
  PROVE  WithDefault(name, st) \in Results
<1> DEFINE o == m_options[name]
<1>1. o # 0 => o \in Declared
  BY OptionsTyped
<1>2. CASE o = 0 \/ st.error # None
  BY <1>2 DEF WithDefault
<1>3. CASE o # 0 /\ st.error = None /\ Option(o).default # None
  <2>1. st.value[o] \in Seq(Texts)
    BY <1>1, <1>3 DEF Results
  <2>2. Stored(o, st.value[o], Option(o).default) \in Seq(Texts)
    BY <1>1, <1>3, <2>1, OptionTyped, StoredTyped DEF TypeInv
  <2> HIDE DEF o
  <2>3. [st EXCEPT !.value[o] = Stored(o, @, Option(o).default)] \in Results
    BY <2>2 DEF Results
  <2>4. [st EXCEPT !.error = "argument_incorrect_type"] \in Results
    BY DEF Results, Errors
  <2> QED
    BY <2>3, <2>4 DEF WithDefault, o
<1>4. CASE Option(o).default = None
  BY <1>4 DEF WithDefault
<1> QED
  BY <1>2, <1>3, <1>4

\* ParseNames by its steps: g[k] are the values after k of the names.
NamesParsed(g, m) ==
  /\ g \in [0 .. Len(m.names) -> Results]
  /\ g[0] = Values
  /\ \A k \in 1 .. Len(m.names) : g[k] = ParseName(g[k - 1], m, k)
  /\ ParseNames(m) = g[Len(m.names)]

\* The members of parse() are values and counts in which nothing was thrown.
LEMMA ValuesTyped == ASSUME TypeInv PROVE Values \in Results
  BY DEF TypeInv, ParserTypeOK, Values, Results, Declared

\* The loop over the names of a flag takes them from the first to the last.
LEMMA ParseNamesSteps ==
  ASSUME TypeInv, Positions, Array, NEW m \in Matches
  PROVE  \E g : NamesParsed(g, m)
<1> DEFINE n == Len(m.names)
           S == 1 .. n
           C == [s \in (SUBSET S) \ {{}} |-> Max(s)]
           F == [p \in S \X Results |-> ParseName(p[2], m, p[1])]
           seq == [i \in 1 .. n |-> i]
           body(h, s) == IF s = {} THEN Values ELSE ParseName(h[s \ {Max(s)}], m, seq[Max(s)])
<1>1. n \in Nat /\ DOMAIN m.names = S /\ DOMAIN seq = S
  BY DEF Matches
<1>2. ParseNames(m) = (CHOOSE h : h = [s \in SUBSET (DOMAIN seq) |-> body(h, s)])[DOMAIN seq]
  BY DEF ParseNames, FoldLeft, MapThenFoldSet
<1>3. \A s \in (SUBSET S) \ {{}} : Max(s) \in s /\ \A y \in s : Max(s) >= y
  <2>1. \A s \in SUBSET S : s \in SUBSET (0 .. n)
    BY <1>1
  <2> QED
    BY <1>1, <2>1, MaxOfPlaces
<1>4. Chooses(C, S) /\ IsFiniteSet(S)
  <2>1. IsFiniteSet(S)
    BY <1>1, FS_Interval
  <2>2. C \in [(SUBSET S) \ {{}} -> S] /\ \A s \in (SUBSET S) \ {{}} : C[s] \in s
    <3> HIDE DEF S
    <3> QED
      BY <1>3
  <2> QED
    BY <2>1, <2>2 DEF Chooses
<1>5. Values \in Results
  BY ValuesTyped
<1>6. F \in SetSteps(S, Results)
  BY <1>1, ParseNameTyped DEF SetSteps
<1>7. PICK h \in [SUBSET S -> Results] : SetRecursive(h, S, C, Values, F)
  <2> HIDE DEF S, C, F
  <2> QED
    BY <1>4, <1>5, <1>6, SetRecursion
<1>8. h = [s \in SUBSET S |-> body(h, s)]
  <2>1. \A s \in (SUBSET S) \ {{}} :
          /\ C[s] = Max(s) /\ seq[Max(s)] = Max(s) /\ Max(s) \in S
          /\ h[s \ {Max(s)}] \in Results
    BY <1>3
  <2>2. \A s \in (SUBSET S) \ {{}} :
          F[<<C[s], h[s \ {C[s]}]>>] = ParseName(h[s \ {Max(s)}], m, seq[Max(s)])
    BY <2>1
  <2> HIDE DEF S, C, F, seq
  <2> QED
    BY <1>7, <2>2 DEF SetRecursive
<1>9. PICK it : it = [s \in SUBSET S |-> body(it, s)] /\ ParseNames(m) = it[S]
  <2> HIDE DEF body, seq
  <2> QED
    BY <1>1, <1>2, <1>8
<1>10. \A s \in SUBSET S : it[s] = h[s]
  <2> DEFINE G == {s \in SUBSET S : it[s] = h[s]}
  <2>1. {} \in G
    <3>1. it[{}] = Values /\ h[{}] = Values
      BY <1>8, <1>9
    <3> QED
      BY <3>1
  <2>2. ASSUME NEW s \in (SUBSET S) \ {{}}, s \ {C[s]} \in G PROVE s \in G
    <3>1. C[s] = Max(s)
      OBVIOUS
    <3>2. it[s] = body(it, s) /\ h[s] = body(h, s)
      <4> HIDE DEF body
      <4> QED
        BY <1>8, <1>9
    <3>3. it[s \ {Max(s)}] = h[s \ {Max(s)}]
      BY <2>2, <3>1
    <3>4. body(it, s) = body(h, s)
      BY <3>3
    <3> QED
      BY <3>2, <3>4
  <2> HIDE DEF S, C, G
  <2>3. SUBSET S \subseteq G
    BY <1>4, <2>1, <2>2, SetInduction
  <2> QED
    BY <2>3 DEF G
<1> DEFINE g == [k \in 0 .. n |-> h[1 .. k]]
<1>11. \A k \in 0 .. n : 1 .. k \in SUBSET S
  BY <1>1
<1>12. g \in [0 .. n -> Results]
  BY <1>11
<1>13. g[0] = Values /\ ParseNames(m) = g[n]
  <2>1. 1 .. 0 = {} /\ 0 \in 0 .. n /\ n \in 0 .. n /\ S \in SUBSET S
    BY <1>1
  <2>2. g[0] = h[{}] /\ g[n] = h[S]
    BY <2>1
  <2>3. h[{}] = Values
    BY <1>8
  <2> QED
    BY <1>9, <1>10, <2>1, <2>2, <2>3
<1>14. ASSUME NEW k \in 1 .. n PROVE g[k] = ParseName(g[k - 1], m, k)
  <2>1. 1 .. k \in (SUBSET S) \ {{}}
    BY <1>1
  <2>2. Max(1 .. k) = k
    <3>1. Max(1 .. k) \in 1 .. k /\ \A y \in 1 .. k : Max(1 .. k) >= y
      BY <1>3, <2>1
    <3> QED
      BY <3>1
  <2>3. (1 .. k) \ {k} = 1 .. k - 1 /\ k - 1 \in 0 .. n /\ seq[k] = k
    BY <1>1
  <2>4. h[1 .. k] = body(h, 1 .. k)
    <3> HIDE DEF body
    <3> QED
      BY <1>8, <2>1
  <2>5. body(h, 1 .. k) = ParseName(h[1 .. k - 1], m, k)
    BY <2>1, <2>2, <2>3
  <2>6. g[k] = h[1 .. k] /\ g[k - 1] = h[1 .. k - 1]
    BY <2>3
  <2> QED
    BY <2>4, <2>5, <2>6
<1> QED
  <2> HIDE DEF g
  <2> QED
    BY <1>12, <1>13, <1>14 DEF NamesParsed

\* The name of s that Defaults takes last.
Picked(s) == CHOOSE x \in s : TRUE

\* Defaults by its steps: g[s] are the values after the names of s.
DefaultsGiven(g) ==
  /\ g \in [SUBSET Names -> Results]
  /\ g[{}] = Values
  /\ \A s \in (SUBSET Names) \ {{}} : g[s] = WithDefault(Picked(s), g[s \ {Picked(s)}])
  /\ FoldSet(WithDefault, Values, Names) = g[Names]

\* The loop over m_options takes a name out of those that are left.
LEMMA PickedChooses ==
  Chooses([s \in (SUBSET Names) \ {{}} |-> Picked(s)], Names)
<1>1. \A s \in (SUBSET Names) \ {{}} : Picked(s) \in s
  BY DEF Picked
<1> QED
  BY <1>1 DEF Chooses

\* The loop over m_options takes every name once.
LEMMA DefaultsSteps == ASSUME TypeInv PROVE \E g : DefaultsGiven(g)
<1> DEFINE C == [s \in (SUBSET Names) \ {{}} |-> Picked(s)]
           F == [p \in Names \X Results |-> WithDefault(p[1], p[2])]
           body(h, s) == IF s = {} THEN Values ELSE WithDefault(Picked(s), h[s \ {Picked(s)}])
<1>1. Chooses(C, Names) /\ IsFiniteSet(Names)
  BY PickedChooses, CommandLineAssumption
<1>2. FoldSet(WithDefault, Values, Names)
        = (CHOOSE h : h = [s \in SUBSET Names |-> body(h, s)])[Names]
  BY DEF FoldSet, MapThenFoldSet, Picked
<1>3. \A s \in (SUBSET Names) \ {{}} : Picked(s) \in s
  BY DEF Picked
<1>4. F \in SetSteps(Names, Results)
  BY WithDefaultTyped DEF SetSteps
<1>5. PICK h \in [SUBSET Names -> Results] : SetRecursive(h, Names, C, Values, F)
  <2> HIDE DEF C, F
  <2> QED
    BY <1>1, <1>4, ValuesTyped, SetRecursion
<1>6. h = [s \in SUBSET Names |-> body(h, s)]
  <2>1. \A s \in (SUBSET Names) \ {{}} :
          /\ C[s] = Picked(s) /\ Picked(s) \in Names
          /\ h[s \ {Picked(s)}] \in Results
    BY <1>3
  <2>2. \A s \in (SUBSET Names) \ {{}} :
          F[<<C[s], h[s \ {C[s]}]>>] = WithDefault(Picked(s), h[s \ {Picked(s)}])
    BY <2>1
  <2> HIDE DEF C, F
  <2> QED
    BY <1>5, <2>2 DEF SetRecursive
<1>7. PICK g : /\ g = [s \in SUBSET Names |-> body(g, s)]
               /\ FoldSet(WithDefault, Values, Names) = g[Names]
  <2> HIDE DEF body
  <2> QED
    BY <1>2, <1>6
<1>8. \A s \in SUBSET Names : g[s] = h[s]
  <2> DEFINE G == {s \in SUBSET Names : g[s] = h[s]}
  <2>1. {} \in G
    <3>1. g[{}] = Values /\ h[{}] = Values
      BY <1>6, <1>7
    <3> QED
      BY <3>1
  <2>2. ASSUME NEW s \in (SUBSET Names) \ {{}}, s \ {C[s]} \in G PROVE s \in G
    <3>1. C[s] = Picked(s)
      OBVIOUS
    <3>2. g[s] = body(g, s) /\ h[s] = body(h, s)
      <4> HIDE DEF body
      <4> QED
        BY <1>6, <1>7
    <3>3. g[s \ {Picked(s)}] = h[s \ {Picked(s)}]
      BY <2>2, <3>1
    <3>4. body(g, s) = body(h, s)
      BY <3>3
    <3> QED
      BY <3>2, <3>4
  <2> HIDE DEF C, G
  <2>3. SUBSET Names \subseteq G
    BY <1>1, <2>1, <2>2, SetInduction
  <2> QED
    BY <2>3 DEF G
<1>9. h[{}] = Values
  BY <1>6
<1>10. \A s \in (SUBSET Names) \ {{}} : h[s] = WithDefault(Picked(s), h[s \ {Picked(s)}])
  <2> HIDE DEF body
  <2>1. \A s \in SUBSET Names : h[s] = body(h, s)
    BY <1>6
  <2> QED
    BY <2>1 DEF body
<1> QED
  BY <1>7, <1>8, <1>9, <1>10 DEF DefaultsGiven

\* parse() goes on with typed values, or is left by one of the exceptions.
LEMMA BecomesTyped ==
  ASSUME NEW st \in Results, NEW next \in Stages, Becomes(st, next)
  PROVE  /\ value' \in [Declared -> Seq(Texts)]
         /\ m_count' \in [Declared -> Nat]
         /\ stage' \in {next} \cup Errors
  BY DEF Becomes, Results

\* consume_positional stays within the positional options.
LEMMA ConsumePositionalTyped ==
  ASSUME TypeInv, NEW text \in Texts, NEW next \in Stages, ConsumePositional(text, next)
  PROVE  /\ value' \in [Declared -> Seq(Texts)]
         /\ m_count' \in [Declared -> Nat]
         /\ stage' \in {next} \cup Errors
         /\ m_next_positional' \in 1 .. Len(command.positional) + 1
<1>1. Len(command.positional) \in Nat /\ m_next_positional \in 1 .. Len(command.positional) + 1
  BY DEF TypeInv, Program, ParserTypeOK
<1>2. CASE Takers = {}
  <2>1. m_next_positional' = Len(command.positional) + 1 /\ Becomes(Values, next)
    BY <1>2 DEF ConsumePositional
  <2> QED
    BY <1>1, <2>1, ValuesTyped, BecomesTyped
<1>3. CASE Takers # {}
  <2> DEFINE j == Min(Takers)
             o == m_options[command.positional[j]]
  <2>1. Takers \in SUBSET Nat /\ \A i \in Takers : i \in 1 .. Len(command.positional)
    BY <1>1 DEF Takers
  <2>2. j \in Takers /\ j \in 1 .. Len(command.positional)
    BY <1>3, <2>1, MinOfPlaces
  <2>3. o # 0 /\ command.positional[j] \in Names
    <3>1. command.positional[j] \in Names
      BY <2>2 DEF TypeInv, Program
    <3>2. \A i \in Takers : m_options[command.positional[i]] # 0
      BY DEF Takers
    <3> QED
      BY <2>2, <3>1, <3>2
  <2>4. o \in Declared
    BY <2>3, OptionsTyped
  <2>5. /\ m_next_positional' = IF IsContainer(o) \/ ~Fits(o, Meaning(o, text)) THEN j ELSE j + 1
        /\ Becomes(Parse(Values, o, text), next)
    BY <1>3 DEF ConsumePositional
  <2> HIDE DEF j, o
  <2>6. Parse(Values, o, text) \in Results
    BY <2>4, ValuesTyped, ParseTyped DEF TypeInv
  <2>7. m_next_positional' \in 1 .. Len(command.positional) + 1
    BY <1>1, <2>2, <2>5
  <2> QED
    BY <2>5, <2>6, <2>7, BecomesTyped
<1> QED
  BY <1>2, <1>3

\* A step that leaves alone what was declared and what was given.
LEMMA SameProgram ==
  ASSUME TypeInv, UNCHANGED <<command, args, details, m_options>>,
         argv' \in [Given -> Texts], argc' \in Nat,
         value' \in [Declared -> Seq(Texts)], m_count' \in [Declared -> Nat],
         m_next_positional' \in 1 .. Len(command.positional) + 1,
         stage' \in Stages
  PROVE  TypeInv'
  BY DEF TypeInv, ParserTypeOK, Program, Given, Declared

\* The initial states.
LEMMA InitTypeInv == ParserInit => TypeInv
<1> SUFFICES ASSUME ParserInit PROVE TypeInv
  OBVIOUS
<1>1. PICK c \in CommandLines :
       /\ command = [declared |-> c.declared, positional |-> c.positional,
                     wanted |-> c.wanted]
       /\ args = [i \in 0 .. Len(c.args) - 1 |-> c.args[i + 1]]
       /\ argc = Len(c.args)
       /\ value = [o \in DOMAIN c.declared |-> <<>>]
       /\ m_count = [o \in DOMAIN c.declared |-> 0]
  BY DEF ParserInit
<1>2. /\ c.declared \in Seq(Declarations) /\ c.positional \in Seq(Names)
      /\ c.wanted \subseteq Names
  BY CommandLineAssumption
<1>3. /\ command.declared = c.declared /\ command.positional = c.positional
      /\ command.wanted = c.wanted
  BY <1>1
<1>4. ParserInv
  BY InitParserInv
<1>5. argc \in Nat /\ args \in [Given -> Texts] /\ argv \in [Given -> Texts]
  BY <1>4 DEF ParserInv, ParserInit, Array
<1>6. Len(c.declared) \in Nat /\ Len(c.positional) \in Nat
  BY <1>2
<1>7. Program
  BY <1>2, <1>3, <1>5, <1>6 DEF Program, ParserInit
<1>8. /\ value \in [DOMAIN command.declared -> Seq(Texts)]
      /\ m_count \in [DOMAIN command.declared -> Nat]
  BY <1>1, <1>3
<1>9. m_options \in [Names -> 0 .. details]
  BY DEF ParserInit
<1> QED
  BY <1>3, <1>5, <1>6, <1>7, <1>8, <1>9 DEF TypeInv, ParserTypeOK, ParserInit, Stages

\* add_option enters the names of an option with its number.
LEMMA DeclareTypeInv == ASSUME TypeInv, Declare PROVE TypeInv'
<1> DEFINE d == command.declared[details + 1]
<1>1. /\ details < Len(command.declared) /\ details' = details + 1
      /\ UNCHANGED <<command, args, argv, argc, value, m_count, m_next_positional>>
  BY DEF Declare, values
<1>2. /\ details \in Nat /\ Len(command.declared) \in Nat
      /\ m_options \in [Names -> 0 .. details] /\ stage \in Stages
  BY DEF TypeInv, Program, ParserTypeOK
<1>3. CASE d.long = None
  <2>1. stage' = "invalid_option_format" /\ UNCHANGED m_options
    BY <1>3 DEF Declare
  <2>2. m_options' \in [Names -> 0 .. details'] /\ stage' \in Stages
    BY <1>1, <1>2, <2>1 DEF Stages, Errors
  <2> QED
    BY <1>1, <1>2, <2>2 DEF TypeInv, ParserTypeOK, Program, Given
<1>4. CASE d.long # None
  <2>1. AddOption(d)
    BY <1>4 DEF Declare
  <2> HIDE DEF d
  <2>2. stage' \in Stages
    BY <1>2, <2>1 DEF AddOption, Stages, Errors
  <2>3. m_options' \in [Names -> 0 .. details']
    BY <1>1, <1>2, <2>1 DEF AddOption
  <2> QED
    BY <1>1, <1>2, <2>2, <2>3 DEF TypeInv, ParserTypeOK, Program, Given
<1> QED
  BY <1>3, <1>4

\* The argument that is kept is written inside argv.
LEMMA PlainTypeInv == ASSUME TypeInv, ParserInv, Plain PROVE TypeInv'
<1>1. stage = "flags" /\ current # argc
  BY DEF Plain
<1>2. Positions /\ Array
  BY <1>1 DEF ParserInv, Reading
<1>3. current \in Given /\ nextKeep \in Given
  BY <1>1, <1>2 DEF Positions, Array
<1>4. argv[current] \in Texts /\ ConsumePositional(argv[current], stage)
  BY <1>2, <1>3 DEF Plain, Array
<1>5. argv' \in [Given -> Texts]
  BY <1>2, <1>3 DEF Plain, Array
<1>6. UNCHANGED <<command, args, argc, details, m_options>> /\ argc \in Nat
  BY <1>2 DEF Plain, options, Array
<1>7. stage \in Stages
  BY DEF TypeInv, ParserTypeOK
<1> QED
  BY <1>4, <1>5, <1>6, <1>7, ConsumePositionalTyped, SameProgram DEF Stages

\* Whatever the names of a flag are, the values stay typed.
LEMMA FlagTypeInv == ASSUME TypeInv, ParserInv, Flag PROVE TypeInv'
<1> DEFINE m == Match[argv[current]]
<1>1. /\ stage = "flags" /\ current # argc /\ m.kind = "flag"
      /\ Becomes(ParseNames(m), stage)
      /\ UNCHANGED <<command, args, argv, argc, details, m_options, m_next_positional>>
  BY DEF Flag, options
<1>2. Positions /\ Array
  BY <1>1 DEF ParserInv, Reading
<1>3. argv[current] \in Texts /\ argv \in [Given -> Texts] /\ argc \in Nat
  BY <1>1, <1>2 DEF Positions, Array
<1>4. m \in Matches
  BY <1>3, CommandLineAssumption
<1> HIDE DEF m
<1>5. PICK g : NamesParsed(g, m)
  BY <1>2, <1>4, ParseNamesSteps
<1>6. ParseNames(m) \in Results
  <2>1. Len(m.names) \in 0 .. Len(m.names)
    BY <1>4 DEF Matches
  <2> QED
    BY <1>5, <2>1 DEF NamesParsed
<1>7. stage \in Stages /\ m_next_positional \in 1 .. Len(command.positional) + 1
  BY DEF TypeInv, ParserTypeOK
<1> QED
  BY <1>1, <1>3, <1>6, <1>7, BecomesTyped, SameProgram DEF Stages

\* The defaults are texts.
LEMMA DefaultsTypeInv == ASSUME TypeInv, Defaults PROVE TypeInv'
<1>1. PICK g : DefaultsGiven(g)
  BY DefaultsSteps
<1>2. FoldSet(WithDefault, Values, Names) \in Results
  BY <1>1 DEF DefaultsGiven
<1>3. /\ UNCHANGED <<command, args, argv, argc, details, m_options, m_next_positional>>
      /\ Becomes(FoldSet(WithDefault, Values, Names), "rest")
  BY DEF Defaults, options
<1>4. /\ m_next_positional \in 1 .. Len(command.positional) + 1
      /\ argv \in [Given -> Texts] /\ argc \in Nat /\ "rest" \in Stages
  BY DEF TypeInv, ParserTypeOK, Stages
<1> QED
  BY <1>2, <1>3, <1>4, BecomesTyped, SameProgram DEF Stages

\* What comes after "--" is read inside argv.
LEMMA RemainingTypeInv == ASSUME TypeInv, ParserInv, Remaining PROVE TypeInv'
<1>1. stage = "rest" /\ current < argc /\ ConsumePositional(argv[current], stage)
  BY DEF Remaining
<1>2. Positions /\ Array
  BY <1>1 DEF ParserInv, Reading
<1>3. argv[current] \in Texts /\ argv \in [Given -> Texts] /\ argc \in Nat
  BY <1>1, <1>2 DEF Positions, Array
<1>4. UNCHANGED <<command, args, argv, argc, details, m_options>>
  BY DEF Remaining, options
<1>5. stage \in Stages
  BY DEF TypeInv, ParserTypeOK
<1> QED
  BY <1>1, <1>3, <1>4, <1>5, ConsumePositionalTyped, SameProgram DEF Stages

\* Every step of the parser keeps the types.
LEMMA NextTypeInv == ASSUME TypeInv, ParserInv, [ParserNext]_parserVars PROVE TypeInv'
<1>1. CASE CallParse \/ EndOfFlags \/ EndOfArguments \/ Report
  <2>1. /\ UNCHANGED <<command, args, argv, argc, details, m_options, value, m_count,
                       m_next_positional>>
        /\ stage' \in Stages
    BY <1>1 DEF CallParse, EndOfFlags, EndOfArguments, Report, options, values, Stages, Errors
  <2> QED
    BY <2>1 DEF TypeInv, ParserTypeOK, Program, Given
<1>2. CASE Finish
  <2>1. stage = "rest" /\ nextKeep \in Nat
    BY <1>2 DEF Finish, ParserInv, Reading, Positions, Array
  <2> QED
    BY <1>2, <2>1 DEF Finish, TypeInv, ParserTypeOK, Program, Given, options, values, Stages
<1>3. CASE UNCHANGED parserVars
  BY <1>3 DEF TypeInv, ParserTypeOK, Program, Given, parserVars, options, values
<1> QED
  BY <1>1, <1>2, <1>3, DeclareTypeInv, PlainTypeInv, FlagTypeInv, DefaultsTypeInv,
     RemainingTypeInv DEF ParserNext

\* parse() reads and writes inside argv, every name stands for a declared option or
\* for none, and consume_positional does not pass the end of the positional options.
THEOREM ParserTypeCorrect == ParserSpec => []ParserTypeOK
<1>1. TypeInv => ParserTypeOK
  BY DEF TypeInv
<1>2. TypeInv /\ ParserInv /\ [ParserNext]_parserVars => TypeInv' /\ ParserInv'
  BY NextTypeInv, NextParserInv
<1>3. ParserInit => TypeInv /\ ParserInv
  BY InitTypeInv, InitParserInv
<1> QED
  BY <1>1, <1>2, <1>3, PTL DEF ParserSpec

-----------------------------------------------------------------------------
(* What the arguments mean, place by place, and what parse() keeps of them. *)

\* What the arguments mean, place by place.
RoleAfter(r, i) ==
  IF r = "asks" THEN "argument"
  ELSE IF r \in {"end", "rest"} THEN "rest"
  ELSE IF Asks(i) THEN "asks"
  ELSE Match[args[i]].kind

\* The role of an argument follows from that of the one before it.
LEMMA RoleRecursion ==
  /\ Role[0] = "program"
  /\ \A n \in Nat : Role[n + 1] = RoleAfter(Role[n], n + 1)
<1> DEFINE V == {"program", "argument", "rest", "asks"} \cup {Match[args[i]].kind : i \in Nat}
           F == [p \in Nat \X V |-> RoleAfter(p[2], p[1] + 1)]
           body(r, i) == IF i = 0 THEN "program"
                         ELSE IF r[i - 1] = "asks" THEN "argument"
                         ELSE IF r[i - 1] \in {"end", "rest"} THEN "rest"
                         ELSE IF Asks(i) THEN "asks"
                         ELSE Match[args[i]].kind
<1>1. \A n \in Nat : \A r \in V : RoleAfter(r, n + 1) \in V
  BY DEF RoleAfter
<1>2. "program" \in V
  OBVIOUS
<1> HIDE DEF V
<1>3. F \in NatSteps(V)
  BY <1>1 DEF NatSteps
<1>4. PICK g \in [Nat -> V] : NatRecursive(g, "program", F)
  <2> HIDE DEF F
  <2> QED
    BY <1>2, <1>3, NatRecursion
<1>5. \A n \in Nat : g[n + 1] = RoleAfter(g[n], n + 1)
  BY <1>4 DEF NatRecursive
<1>6. \A i \in Nat : g[i] = body(g, i)
  <2> TAKE i \in Nat
  <2>1. CASE i = 0
    BY <1>4, <2>1 DEF NatRecursive
  <2>2. CASE i # 0
    <3>1. i - 1 \in Nat /\ i - 1 + 1 = i
      BY <2>2
    <3>2. g[i] = RoleAfter(g[i - 1], i)
      BY <1>5, <3>1
    <3> QED
      BY <2>2, <3>2 DEF RoleAfter
  <2> QED
    BY <2>1, <2>2
<1>7. Role = CHOOSE r : r = [i \in Nat |-> body(r, i)]
  BY DEF Role
<1> HIDE DEF body
<1>8. g = [i \in Nat |-> body(g, i)]
  BY <1>4, <1>6
<1>9. Role = [i \in Nat |-> body(Role, i)]
  BY <1>7, <1>8
<1>10. \A i \in Nat : Role[i] = body(Role, i)
  BY <1>9
<1>11. Role[0] = "program"
  BY <1>10 DEF body
<1>12. ASSUME NEW n \in Nat PROVE Role[n + 1] = RoleAfter(Role[n], n + 1)
  <2>1. n + 1 \in Nat /\ n + 1 # 0 /\ n + 1 - 1 = n
    OBVIOUS
  <2>2. Role[n + 1] = body(Role, n + 1)
    BY <1>10, <2>1
  <2> QED
    BY <2>1, <2>2 DEF body, RoleAfter
<1> QED
  BY <1>11, <1>12

\* The arguments that can be kept, by one more argument.
LEMMA OthersRecursion ==
  /\ OthersBefore[0] = <<>>
  /\ \A n \in Nat :
       /\ OthersBefore[n] \in Seq({args[i] : i \in Nat})
       /\ OthersBefore[n + 1] = IF Role[n] = "plain" THEN Append(OthersBefore[n], args[n])
                                ELSE OthersBefore[n]
<1> DEFINE V == Seq({args[i] : i \in Nat})
           F == [p \in Nat \X V |-> IF Role[p[1]] = "plain" THEN Append(p[2], args[p[1]]) ELSE p[2]]
           body(r, n) == IF n = 0 THEN <<>>
                         ELSE IF Role[n - 1] = "plain" THEN Append(r[n - 1], args[n - 1])
                         ELSE r[n - 1]
<1>1. \A n \in Nat : \A s \in V : Append(s, args[n]) \in V
  OBVIOUS
<1>2. <<>> \in V
  OBVIOUS
<1> HIDE DEF V
<1>3. F \in NatSteps(V)
  BY <1>1 DEF NatSteps
<1>4. PICK g \in [Nat -> V] : NatRecursive(g, <<>>, F)
  <2> HIDE DEF F
  <2> QED
    BY <1>2, <1>3, NatRecursion
<1>5. \A n \in Nat : g[n + 1] = IF Role[n] = "plain" THEN Append(g[n], args[n]) ELSE g[n]
  BY <1>4 DEF NatRecursive
<1>6. \A n \in Nat : g[n] = body(g, n)
  <2> TAKE n \in Nat
  <2>1. CASE n = 0
    BY <1>4, <2>1 DEF NatRecursive
  <2>2. CASE n # 0
    <3>1. n - 1 \in Nat /\ n - 1 + 1 = n
      BY <2>2
    <3> QED
      BY <1>5, <2>2, <3>1
  <2> QED
    BY <2>1, <2>2
<1>7. OthersBefore = CHOOSE r : r = [n \in Nat |-> body(r, n)]
  BY DEF OthersBefore
<1> HIDE DEF body
<1>8. g = [n \in Nat |-> body(g, n)]
  BY <1>4, <1>6
<1>9. OthersBefore = [n \in Nat |-> body(OthersBefore, n)]
  BY <1>7, <1>8
<1>10. \A n \in Nat : OthersBefore[n] = body(OthersBefore, n)
  BY <1>9
<1>11. OthersBefore[0] = <<>>
  BY <1>10 DEF body
<1>12. ASSUME NEW n \in Nat
       PROVE  OthersBefore[n + 1] = IF Role[n] = "plain" THEN Append(OthersBefore[n], args[n])
                                    ELSE OthersBefore[n]
  <2>1. n + 1 \in Nat /\ n + 1 # 0 /\ n + 1 - 1 = n
    OBVIOUS
  <2>2. OthersBefore[n + 1] = body(OthersBefore, n + 1)
    BY <1>10, <2>1
  <2> QED
    BY <2>1, <2>2 DEF body
<1>13. \A n \in Nat : OthersBefore[n] \in V
  <2> DEFINE S == {n \in Nat : OthersBefore[n] \in V}
  <2>1. 0 \in S
    BY <1>2, <1>11
  <2>2. ASSUME NEW n \in Nat, n \in S PROVE n + 1 \in S
    <3>1. Append(OthersBefore[n], args[n]) \in V
      BY <1>1, <2>2
    <3>2. OthersBefore[n + 1] \in V
      BY <1>12, <2>2, <3>1
    <3> QED
      BY <3>2
  <2> HIDE DEF S
  <2>3. Nat \subseteq S
    BY <2>1, <2>2, Induction
  <2> QED
    BY <2>3 DEF S
<1> QED
  BY <1>11, <1>12, <1>13 DEF V

-----------------------------------------------------------------------------

\* The names of an option.
NamesOf(o) == {Option(o).short, Option(o).long}

\* m_options has for every name the first of the options declared so far.
FirstEntries ==
  \A n \in Names :
    /\ m_options[n] # 0 => m_options[n] \in 1 .. details /\ n \in NamesOf(m_options[n])
    /\ \A o \in 1 .. details : n \in NamesOf(o) => m_options[n] # 0 /\ m_options[n] <= o

\* It holds unless an exception has left main().
EntriesInv ==
  stage \notin Errors =>
    /\ FirstEntries
    /\ stage # "declare" => details = Len(command.declared)

\* At first no name is in m_options.
LEMMA InitEntriesInv == ParserInit => EntriesInv
  BY DEF ParserInit, EntriesInv, FirstEntries, Errors

\* add_one_option throws before it would give a name to a second option.
LEMMA DeclareEntriesInv == ASSUME TypeInv, EntriesInv, Declare PROVE EntriesInv'
<1> DEFINE d == command.declared[details + 1]
<1>1. /\ stage = "declare" /\ details' = details + 1 /\ UNCHANGED command
      /\ details \in Nat
  BY DEF Declare, TypeInv, Program
<1>2. FirstEntries
  BY <1>1 DEF EntriesInv, Errors
<1>3. CASE d.long = None \/ Exists(d.short) \/ Exists(d.long)
  <2>1. stage' \in Errors
    BY <1>3 DEF Declare, AddOption, Errors
  <2> QED
    BY <2>1 DEF EntriesInv
<1>4. CASE ~ (d.long = None \/ Exists(d.short) \/ Exists(d.long))
  <2>1. /\ m_options' = [n \in Names |->
                           IF n \in {k \in {d.short, d.long} \ {None} : m_options[k] = 0}
                           THEN details + 1 ELSE m_options[n]]
        /\ stage' = stage
    BY <1>4 DEF Declare, AddOption
  <2>2. \A o : NamesOf(o)' = NamesOf(o)
    BY <1>1 DEF NamesOf, Option
  <2>3. NamesOf(details + 1) = {d.short, d.long}
    BY DEF NamesOf, Option
  <2>4. \A n \in Names : n \in {d.short, d.long} => m_options[n] = 0 /\ n # None
    BY <1>4, CommandLineAssumption DEF Exists
  <2> HIDE DEF d
  <2>5. \A n \in Names : m_options[n] \in 0 .. details
    BY DEF TypeInv, ParserTypeOK
  <2> DEFINE M == m_options'
  <2>6. \A n \in Names : M[n] = IF n \in {d.short, d.long} THEN details + 1 ELSE m_options[n]
    BY <2>1, <2>4
  <2> HIDE DEF M
  <2>7. ASSUME NEW n \in Names
        PROVE  /\ M[n] # 0 => M[n] \in 1 .. details + 1 /\ n \in NamesOf(M[n])
               /\ \A o \in 1 .. details + 1 : n \in NamesOf(o) => M[n] # 0 /\ M[n] <= o
    <3>1. CASE n \in {d.short, d.long}
      <4>1. M[n] = details + 1 /\ m_options[n] = 0
        BY <2>4, <2>6, <3>1
      <4>2. \A o \in 1 .. details : n \notin NamesOf(o)
        BY <1>2, <4>1 DEF FirstEntries
      <4> QED
        BY <1>1, <2>3, <3>1, <4>1, <4>2
    <3>2. CASE n \notin {d.short, d.long}
      <4>1. M[n] = m_options[n] /\ n \notin NamesOf(details + 1)
        BY <2>3, <2>6, <3>2
      <4>2. \A o \in 1 .. details + 1 : o # details + 1 => o \in 1 .. details
        BY <1>1
      <4> QED
        BY <1>1, <1>2, <4>1, <4>2 DEF FirstEntries
    <3> QED
      BY <3>1, <3>2
  <2>8. FirstEntries'
    BY <1>1, <2>2, <2>7 DEF FirstEntries, M
  <2> QED
    BY <1>1, <2>1, <2>8 DEF EntriesInv
<1> QED
  BY <1>3, <1>4

\* After the declarations only the stage changes.
LEMMA NextEntriesInv ==
  ASSUME TypeInv, EntriesInv, [ParserNext]_parserVars PROVE EntriesInv'
<1>1. CASE Declare
  BY <1>1, DeclareEntriesInv
<1>2. CASE ~Declare
  <2>1. UNCHANGED <<command, details, m_options>>
    BY <1>2 DEF ParserNext, parserVars, options, CallParse, Plain, Flag, EndOfFlags, EndOfArguments,
       Defaults, Remaining, Finish, Report
  <2>2. FirstEntries => FirstEntries'
    BY <2>1 DEF FirstEntries, NamesOf, Option
  <2>3. stage \in Errors => stage' \in Errors
    BY <1>2 DEF ParserNext, parserVars, CallParse, Plain, Flag, EndOfFlags, EndOfArguments,
       Defaults, Remaining, Finish, Report, Errors
  <2>4. stage = "declare" /\ stage' # "declare" => details = Len(command.declared)
    BY <1>2 DEF ParserNext, parserVars, CallParse, Plain, Flag, EndOfFlags, EndOfArguments,
       Defaults, Remaining, Finish, Report
  <2> QED
    BY <2>1, <2>2, <2>3, <2>4 DEF EntriesInv
<1> QED
  BY <1>1, <1>2

\* m_options is what the declarations say.
LEMMA EntriesAreOptions ==
  ASSUME TypeInv, EntriesInv, stage \notin Errors, stage # "declare", NEW n \in Names
  PROVE  m_options[n] = OptionOf(n)
<1> DEFINE S == {o \in Declared : n \in NamesOf(o)}
<1>1. OptionOf(n) = IF S = {} THEN 0 ELSE Min(S)
  BY DEF OptionOf, NamesOf, Declared
<1>2. Declared = 1 .. details /\ FirstEntries /\ details \in Nat
  BY DEF EntriesInv, TypeInv, Program, Declared
<1>3. CASE S = {}
  <2>1. m_options[n] = 0
    BY <1>2, <1>3 DEF FirstEntries
  <2> QED
    BY <1>1, <1>3, <2>1
<1>4. CASE S # {}
  <2>1. Min(S) \in S /\ \A o \in S : Min(S) <= o
    <3>1. S \in SUBSET Nat
      BY <1>2
    <3> HIDE DEF S
    <3> QED
      BY <1>4, <3>1, MinOfPlaces
  <2>2. m_options[n] # 0 /\ m_options[n] <= Min(S)
    BY <1>2, <2>1 DEF FirstEntries
  <2>3. m_options[n] \in S
    BY <1>2, <2>2 DEF FirstEntries
  <2>4. Min(S) <= m_options[n] /\ Min(S) \in Nat /\ m_options[n] \in Nat
    BY <1>2, <2>1, <2>3
  <2> QED
    BY <1>1, <1>4, <2>2, <2>4
<1> QED
  BY <1>3, <1>4

-----------------------------------------------------------------------------

\* Whether the argument at current is one the loop may read as it stands.
RoleHere ==
  /\ stage \in {"declare", "flags"} => Role[current - 1] \notin {"asks", "end", "rest"}
  /\ stage \in {"defaults", "rest"} => current = argc \/ Role[current - 1] \in {"end", "rest"}

\* What was kept is the end of what could have been, all of it where there are
\* no positional options.
KeptSuffix ==
  LET before == OthersBefore[current]
  IN /\ nextKeep - 1 <= Len(before)
     /\ \A i \in 1 .. nextKeep - 1 : argv[i] = before[Len(before) - (nextKeep - 1) + i]
     /\ command.positional = <<>> => Len(before) = nextKeep - 1
     /\ nextKeep > 1 => m_next_positional = Len(command.positional) + 1

\* The inductive invariant for what is kept: it holds while argv is read.
KeptInv == stage \in Reading \cup {"declare"} => RoleHere /\ KeptSuffix

\* Before parse() nothing is kept.
LEMMA InitKeptInv == ParserInit => KeptInv
<1> SUFFICES ASSUME ParserInit PROVE RoleHere /\ KeptSuffix
  BY DEF KeptInv
<1>1. current = 1 /\ nextKeep = 1 /\ stage = "declare"
  BY DEF ParserInit
<1>2. Role[0] = "program" /\ Role[1] = RoleAfter(Role[0], 1)
  BY RoleRecursion
<1>3. RoleHere
  BY <1>1, <1>2 DEF RoleHere
<1>4. OthersBefore[1] = <<>>
  <2>1. OthersBefore[0 + 1] = OthersBefore[0]
    BY <1>2, OthersRecursion
  <2> QED
    BY <2>1, OthersRecursion
<1>5. KeptSuffix
  BY <1>1, <1>4 DEF KeptSuffix
<1> QED
  BY <1>3, <1>5

\* A step that changes neither args nor what was declared does not change what
\* the arguments mean.
LEMMA SameMeaning ==
  ASSUME UNCHANGED <<command, args>>
  PROVE  Role' = Role /\ OthersBefore' = OthersBefore
<1>1. \A i : Asks(i)' = Asks(i)
  BY DEF Asks, LastOption, OptionOf, Option, HasArg, HasImplicit, Given
<1>2. Role' = Role
  BY <1>1 DEF Role
<1>3. OthersBefore' = OthersBefore
  BY <1>2 DEF OthersBefore
<1> QED
  BY <1>2, <1>3

\* current passes an argument that nobody keeps.
LEMMA PassOver ==
  ASSUME KeptSuffix, UNCHANGED <<command, args, argv, nextKeep>>,
         OthersBefore[current'] = OthersBefore[current],
         m_next_positional' = m_next_positional \/ nextKeep = 1,
         nextKeep \in Nat
  PROVE  KeptSuffix'
  BY SameMeaning DEF KeptSuffix

\* An argument that no positional option takes joins the ones kept before it; once
\* kept, none was taken any more.
LEMMA PlainKeptInv == ASSUME TypeInv, ParserInv, KeptInv, Plain PROVE KeptInv'
<1>1. stage = "flags" /\ current # argc /\ current' = current + 1
      /\ Match[argv[current]].kind = "plain"
      /\ UNCHANGED <<command, args, argc>>
  BY DEF Plain
<1>2. Positions /\ Array /\ Unread /\ RoleHere /\ KeptSuffix
  BY <1>1 DEF ParserInv, KeptInv, Reading
<1>3. /\ current \in Nat /\ current - 1 \in Nat /\ current - 1 + 1 = current
      /\ current \in Given /\ nextKeep \in Nat /\ nextKeep >= 1 /\ nextKeep <= current
      /\ nextKeep \in Given
  BY <1>1, <1>2 DEF Positions, Array
<1>4. argv[current] = args[current] /\ argv[current] \in Texts
  BY <1>2, <1>3 DEF Unread, Array
<1>5. Role[current] = "plain"
  <2>1. Role[current] = RoleAfter(Role[current - 1], current)
    BY <1>3, RoleRecursion
  <2>2. Role[current - 1] \notin {"asks", "end", "rest"}
    BY <1>1, <1>2 DEF RoleHere
  <2>3. Match[args[current]].kind = "plain" /\ ~Asks(current)
    BY <1>1, <1>4 DEF Asks
  <2> QED
    BY <2>1, <2>2, <2>3 DEF RoleAfter
<1> DEFINE before == OthersBefore[current]
           after == OthersBefore[current + 1]
<1>6. after = Append(before, args[current]) /\ before \in Seq({args[i] : i \in Nat})
  BY <1>3, <1>5, OthersRecursion
<1>7. /\ Len(before) \in Nat /\ Len(after) = Len(before) + 1
      /\ after[Len(before) + 1] = args[current]
      /\ \A i \in 1 .. Len(before) : after[i] = before[i]
  BY <1>6
<1> HIDE DEF before, after
<1>8. stage' \in {"flags"} \cup Errors /\ m_next_positional \in 1 .. Len(command.positional) + 1
  <2>1. ConsumePositional(argv[current], stage) /\ stage \in Stages
    BY <1>1 DEF Plain, Stages
  <2> QED
    BY <1>1, <1>4, <2>1, ConsumePositionalTyped DEF TypeInv, ParserTypeOK
<1>9. RoleHere' \/ stage' \in Errors
  BY <1>1, <1>3, <1>5, <1>8, SameMeaning DEF RoleHere
<1>10. OthersBefore'[current'] = after
  BY <1>1, SameMeaning DEF after
<1>11. Len(command.positional) \in Nat /\ (command.positional = <<>> => Len(command.positional) = 0)
  BY DEF TypeInv, Program
<1>12. CASE Takers = {}
  <2>1. /\ argv' = [argv EXCEPT ![nextKeep] = argv[current]] /\ nextKeep' = nextKeep + 1
        /\ m_next_positional' = Len(command.positional) + 1
    BY <1>12 DEF Plain, ConsumePositional
  <2>2. /\ nextKeep - 1 <= Len(before)
        /\ \A i \in 1 .. nextKeep - 1 : argv[i] = before[Len(before) - (nextKeep - 1) + i]
        /\ command.positional = <<>> => Len(before) = nextKeep - 1
    BY <1>2 DEF KeptSuffix, before
  <2>3. ASSUME NEW i \in 1 .. nextKeep PROVE argv'[i] = after[Len(after) - nextKeep + i]
    <3>1. CASE i = nextKeep
      <4>1. argv'[i] = argv[current]
        BY <1>2, <1>3, <2>1, <3>1 DEF Array
      <4>2. Len(after) - nextKeep + i = Len(before) + 1
        BY <1>3, <1>7, <3>1
      <4> QED
        BY <1>4, <1>7, <4>1, <4>2
    <3>2. CASE i # nextKeep
      <4>1. i \in 1 .. nextKeep - 1
        BY <1>3, <3>2
      <4>2. argv'[i] = argv[i]
        BY <1>2, <2>1, <3>2 DEF Array
      <4>3. /\ Len(after) - nextKeep + i = Len(before) - (nextKeep - 1) + i
            /\ Len(before) - (nextKeep - 1) + i \in 1 .. Len(before)
        BY <1>3, <1>7, <2>2, <4>1
      <4> QED
        BY <1>7, <2>2, <4>1, <4>2, <4>3
    <3> QED
      BY <3>1, <3>2
  <2>4. KeptSuffix'
    <3>1. nextKeep' - 1 = nextKeep
      BY <1>3, <2>1
    <3>2. nextKeep <= Len(after) /\ (command.positional = <<>> => Len(after) = nextKeep)
      BY <1>3, <1>7, <2>2
    <3> QED
      BY <1>1, <1>10, <2>1, <2>3, <3>1, <3>2 DEF KeptSuffix
  <2> QED
    BY <1>8, <1>9, <2>4 DEF KeptInv, Errors, Reading
<1>13. CASE Takers # {}
  <2>1. UNCHANGED <<argv, nextKeep>>
    BY <1>13 DEF Plain
  <2>2. PICK j \in m_next_positional .. Len(command.positional) : TRUE
    BY <1>13 DEF Takers
  <2>3. nextKeep = 1 /\ command.positional # <<>>
    <3>1. m_next_positional <= Len(command.positional)
      BY <1>8, <1>11, <2>2
    <3> QED
      BY <1>2, <1>3, <1>8, <1>11, <3>1 DEF KeptSuffix
  <2>4. KeptSuffix'
    BY <1>1, <1>7, <1>10, <2>1, <2>3 DEF KeptSuffix
  <2> QED
    BY <1>8, <1>9, <2>4 DEF KeptInv, Errors, Reading
<1> QED
  BY <1>12, <1>13

\* An argument in any other role is not among those that can be kept.
LEMMA NotAmongOthers ==
  ASSUME NEW n \in Nat, Role[n] # "plain"
  PROVE  OthersBefore[n + 1] = OthersBefore[n]
  BY OthersRecursion

\* The end of a sequence, by its places.
LEMMA EndOfSequence ==
  ASSUME NEW V, NEW s \in Seq(V), NEW k \in 1 .. Len(s) + 1
  PROVE  SubSeq(s, k, Len(s)) = [i \in 1 .. Len(s) - k + 1 |-> s[k + i - 1]]
  OBVIOUS

\* The stage after a step of one of the loops.
LEMMA StageBecomes ==
  ASSUME TypeInv, ParserInv
  PROVE  /\ Plain \/ Flag => stage' \in {"flags"} \cup Errors
         /\ Defaults \/ Remaining => stage' \in {"rest"} \cup Errors
<1>1. ASSUME Plain PROVE stage' \in {"flags"} \cup Errors
  <2>1. stage = "flags" /\ current # argc /\ ConsumePositional(argv[current], stage)
    BY <1>1 DEF Plain
  <2>2. argv[current] \in Texts
    BY <2>1 DEF ParserInv, Reading, Positions, Array
  <2> QED
    BY <2>1, <2>2, ConsumePositionalTyped DEF Stages
<1>2. ASSUME Flag PROVE stage' \in {"flags"} \cup Errors
  <2> DEFINE m == Match[argv[current]]
  <2>1. stage = "flags" /\ current # argc /\ Becomes(ParseNames(m), stage)
    BY <1>2 DEF Flag
  <2>2. m \in Matches /\ Positions /\ Array
    BY <2>1, CommandLineAssumption DEF ParserInv, Reading, Positions, Array
  <2> HIDE DEF m
  <2>3. PICK g : NamesParsed(g, m)
    BY <2>2, ParseNamesSteps
  <2>4. Len(m.names) \in 0 .. Len(m.names)
    BY <2>2 DEF Matches
  <2>5. ParseNames(m) \in Results
    BY <2>3, <2>4 DEF NamesParsed
  <2> QED
    BY <2>1, <2>5, BecomesTyped DEF Stages
<1>3. ASSUME Defaults PROVE stage' \in {"rest"} \cup Errors
  <2>1. PICK g : DefaultsGiven(g)
    BY DefaultsSteps
  <2>2. FoldSet(WithDefault, Values, Names) \in Results
    BY <2>1 DEF DefaultsGiven
  <2> QED
    BY <1>3, <2>2, BecomesTyped DEF Defaults, Stages
<1>4. ASSUME Remaining PROVE stage' \in {"rest"} \cup Errors
  <2>1. stage = "rest" /\ current < argc /\ ConsumePositional(argv[current], stage)
    BY <1>4 DEF Remaining
  <2>2. argv[current] \in Texts
    BY <2>1 DEF ParserInv, Reading, Positions, Array
  <2> QED
    BY <2>1, <2>2, ConsumePositionalTyped DEF Stages
<1> QED
  BY <1>1, <1>2, <1>3, <1>4

\* The argument at current, in the loop over the flags.
LEMMA AtCurrent ==
  ASSUME TypeInv, ParserInv, stage = "flags", current # argc
  PROVE  /\ current \in Nat /\ current - 1 \in Nat /\ current - 1 + 1 = current
         /\ current \in Given /\ current >= 1 /\ argc \in Nat
         /\ argv[current] = args[current] /\ argv[current] \in Texts
         /\ Match[argv[current]] \in Matches
         /\ Positions /\ Array /\ Unread
<1>1. Positions /\ Array /\ Unread
  BY DEF ParserInv, Reading
<1>2. /\ current \in Nat /\ current - 1 \in Nat /\ current - 1 + 1 = current
      /\ current \in Given /\ argc \in Nat /\ current >= 1
  BY <1>1 DEF Positions, Array
<1>3. argv[current] = args[current] /\ argv[current] \in Texts
  BY <1>1, <1>2 DEF Unread, Array
<1>4. Match[argv[current]] \in Matches
  BY <1>3, CommandLineAssumption
<1> QED
  BY <1>1, <1>2, <1>3, <1>4

\* The loop takes the argument after a flag exactly where the flag asks for it.
LEMMA TakesWhatIsAsked ==
  ASSUME TypeInv, ParserInv, EntriesInv, stage = "flags", current # argc,
         Match[argv[current]].kind = "flag"
  PROVE  TakesNext(Match[argv[current]]) <=> Asks(current)
<1> DEFINE m == Match[argv[current]]
           o == m_options[m.names[Len(m.names)]]
<1>1. /\ current \in Nat /\ current \in Given /\ m = Match[args[current]] /\ m \in Matches
      /\ Positions /\ Array /\ Unread
  BY AtCurrent
<1>2. m.names # <<>> /\ m.names \in Seq(Names)
  <2>1. m.names # <<>>
    BY AtCurrent, CommandLineAssumption
  <2> QED
    BY <1>1, <2>1 DEF Matches
<1>3. m.names[Len(m.names)] \in Names
  BY <1>2
<1>4. o = LastOption(current)
  <2>1. stage \notin Errors /\ stage # "declare"
    BY DEF Errors
  <2> QED
    BY <1>1, <1>3, <2>1, EntriesAreOptions DEF LastOption
<1>5. current + 1 < argc <=> current + 1 \in Given
  BY <1>1 DEF Array
<1>6. current + 1 \in Given => argv[current + 1] = args[current + 1]
  BY <1>1 DEF Unread
<1>7. m.kind = "flag" /\ Match[args[current]] = m
  BY <1>1
<1> HIDE DEF m
<1>8. TakesNext(m) <=>
        o # 0 /\ HasArg(o) /\ m.arg = Empty /\ NextIsArgument(o)
  BY DEF TakesNext
<1>9. NextIsArgument(o) <=>
        current + 1 \in Given /\ ~(HasImplicit(o) /\ args[current + 1] \in Dashed)
  BY <1>5, <1>6 DEF NextIsArgument
<1>10. Asks(current) <=>
         /\ m.arg = Empty /\ o # 0 /\ HasArg(o)
         /\ current + 1 \in Given /\ ~(HasImplicit(o) /\ args[current + 1] \in Dashed)
  BY <1>4, <1>7 DEF Asks
<1> QED
  BY <1>8, <1>9, <1>10 DEF m

\* A flag is not kept, nor is the argument it takes.
LEMMA FlagKeptInv == ASSUME TypeInv, ParserInv, EntriesInv, KeptInv, Flag PROVE KeptInv'
<1> DEFINE m == Match[argv[current]]
<1>1. /\ stage = "flags" /\ current # argc /\ m.kind = "flag"
      /\ current' = current + IF TakesNext(m) THEN 2 ELSE 1
      /\ Becomes(ParseNames(m), stage)
      /\ UNCHANGED <<command, args, argv, argc, m_next_positional, nextKeep>>
  BY DEF Flag
<1>2. /\ current \in Nat /\ current - 1 \in Nat /\ current - 1 + 1 = current
      /\ argv[current] = args[current] /\ m \in Matches /\ Positions /\ Array
  BY <1>1, AtCurrent
<1>3. RoleHere /\ KeptSuffix
  BY <1>1 DEF KeptInv, Reading
<1>4. TakesNext(m) <=> Asks(current)
  BY <1>1, TakesWhatIsAsked
<1>5. Role[current] = IF Asks(current) THEN "asks" ELSE "flag"
  <2>1. Role[current] = RoleAfter(Role[current - 1], current)
    BY <1>2, RoleRecursion
  <2>2. Role[current - 1] \notin {"asks", "end", "rest"}
    BY <1>1, <1>3 DEF RoleHere
  <2> QED
    BY <1>1, <1>2, <2>1, <2>2 DEF RoleAfter
<1>6. Role[current + 1] = RoleAfter(Role[current], current + 1)
  BY <1>2, RoleRecursion
<1>7. OthersBefore[current + 1] = OthersBefore[current]
  BY <1>2, <1>5, OthersRecursion
<1>8. OthersBefore[current'] = OthersBefore[current] /\ Role[current' - 1] \in {"flag", "argument"}
  <2>1. CASE Asks(current)
    <3>1. current' = current + 2 /\ current' - 1 = current + 1 /\ current + 1 + 1 = current'
      BY <1>1, <1>2, <1>4, <2>1
    <3>2. Role[current + 1] = "argument"
      BY <1>5, <1>6, <2>1 DEF RoleAfter
    <3>3. OthersBefore[current + 1 + 1] = OthersBefore[current + 1]
      <4>1. current + 1 \in Nat
        BY <1>2
      <4> QED
        BY <3>2, <4>1, NotAmongOthers
    <3> QED
      BY <1>7, <3>1, <3>2, <3>3
  <2>2. CASE ~Asks(current)
    <3>1. current' = current + 1 /\ current' - 1 = current
      BY <1>1, <1>2, <1>4, <2>2
    <3> QED
      BY <1>5, <1>7, <2>2, <3>1
  <2> QED
    BY <2>1, <2>2
<1> HIDE DEF m
<1>9. stage' \in {"flags"} \cup Errors
  BY StageBecomes
<1>10. KeptSuffix'
  BY <1>1, <1>2, <1>3, <1>8, PassOver DEF Positions, Array
<1>11. RoleHere' \/ stage' \in Errors
  BY <1>1, <1>8, <1>9, SameMeaning DEF RoleHere
<1> QED
  BY <1>9, <1>10, <1>11 DEF KeptInv, Errors, Reading

\* Reading ends at argc or behind "--".
LEMMA EndKeptInv ==
  ASSUME TypeInv, ParserInv, KeptInv, EndOfFlags \/ EndOfArguments PROVE KeptInv'
<1>1. /\ stage = "flags" /\ stage' = "defaults"
      /\ UNCHANGED <<command, args, argv, argc, m_next_positional, nextKeep>>
  BY DEF EndOfFlags, EndOfArguments, values
<1>2. RoleHere /\ KeptSuffix /\ Positions /\ Array
  BY <1>1 DEF KeptInv, ParserInv, Reading
<1>3. CASE EndOfArguments
  <2>1. current' = current /\ current = argc
    BY <1>3 DEF EndOfArguments
  <2>2. KeptSuffix' /\ RoleHere'
    BY <1>1, <1>2, <2>1, PassOver DEF RoleHere, Positions, Array
  <2> QED
    BY <2>2 DEF KeptInv
<1>4. CASE EndOfFlags
  <2>1. current' = current + 1 /\ current # argc /\ Match[argv[current]].kind = "end"
    BY <1>4 DEF EndOfFlags
  <2>2. /\ current \in Nat /\ current - 1 \in Nat /\ current - 1 + 1 = current
        /\ argv[current] = args[current]
    BY <1>1, <2>1, AtCurrent
  <2>3. Role[current] = "end"
    <3>1. Role[current] = RoleAfter(Role[current - 1], current)
      BY <2>2, RoleRecursion
    <3>2. Role[current - 1] \notin {"asks", "end", "rest"}
      BY <1>1, <1>2 DEF RoleHere
    <3> QED
      BY <2>1, <2>2, <3>1, <3>2 DEF RoleAfter, Asks
  <2>4. OthersBefore[current'] = OthersBefore[current] /\ current' - 1 = current
    BY <2>1, <2>2, <2>3, NotAmongOthers
  <2>5. KeptSuffix'
    BY <1>1, <1>2, <2>4, PassOver DEF Positions, Array
  <2>6. RoleHere'
    BY <1>1, <2>3, <2>4, SameMeaning DEF RoleHere
  <2> QED
    BY <2>5, <2>6 DEF KeptInv
<1> QED
  BY <1>3, <1>4

\* What comes after "--" is never kept.
LEMMA RemainingKeptInv ==
  ASSUME TypeInv, ParserInv, KeptInv, Remaining PROVE KeptInv'
<1>1. /\ stage = "rest" /\ current < argc /\ current' = current + 1
      /\ ConsumePositional(argv[current], stage)
      /\ UNCHANGED <<command, args, argv, argc, nextKeep>>
  BY DEF Remaining
<1>2. RoleHere /\ KeptSuffix /\ Positions /\ Array
  BY <1>1 DEF KeptInv, ParserInv, Reading
<1>3. /\ current \in Nat /\ current - 1 \in Nat /\ current - 1 + 1 = current
      /\ current \in Given /\ nextKeep \in Nat /\ nextKeep >= 1
  BY <1>1, <1>2 DEF Positions, Array
<1>4. Role[current - 1] \in {"end", "rest"}
  BY <1>1, <1>2 DEF RoleHere, Positions, Array
<1>5. Role[current] = "rest"
  <2>1. Role[current] = RoleAfter(Role[current - 1], current)
    BY <1>3, RoleRecursion
  <2> QED
    BY <1>4, <2>1 DEF RoleAfter
<1>6. OthersBefore[current'] = OthersBefore[current] /\ current' - 1 = current
  BY <1>1, <1>3, <1>5, NotAmongOthers
<1>7. /\ stage' \in {"rest"} \cup Errors
      /\ m_next_positional \in 1 .. Len(command.positional) + 1
      /\ Len(command.positional) \in Nat
  <2>1. argv[current] \in Texts /\ stage \in Stages
    BY <1>1, <1>2, <1>3 DEF Array, Stages
  <2> QED
    BY <1>1, <2>1, ConsumePositionalTyped DEF TypeInv, ParserTypeOK, Program
<1>8. m_next_positional' = m_next_positional \/ nextKeep = 1
  <2>1. CASE nextKeep > 1
    <3>1. m_next_positional = Len(command.positional) + 1
      BY <1>2, <2>1 DEF KeptSuffix
    <3>2. Takers = {}
      BY <1>7, <3>1 DEF Takers
    <3> QED
      BY <1>1, <3>1, <3>2 DEF ConsumePositional
  <2> QED
    BY <1>3, <2>1
<1>9. KeptSuffix'
  BY <1>1, <1>2, <1>3, <1>6, <1>8, PassOver
<1>10. RoleHere' \/ stage' \in Errors
  BY <1>1, <1>5, <1>6, <1>7, SameMeaning DEF RoleHere
<1> QED
  BY <1>7, <1>9, <1>10 DEF KeptInv, Errors, Reading

\* Every step keeps KeptInv.
LEMMA NextKeptInv ==
  ASSUME TypeInv, ParserInv, EntriesInv, KeptInv, [ParserNext]_parserVars PROVE KeptInv'
<1>1. CASE Declare \/ CallParse \/ Defaults
  <2>1. UNCHANGED <<command, args, argv, argc, m_next_positional, current, nextKeep>>
    BY <1>1 DEF Declare, CallParse, Defaults, options, values
  <2>2. stage \in {"declare", "defaults"} /\ Positions /\ Array /\ RoleHere /\ KeptSuffix
    BY <1>1 DEF Declare, CallParse, Defaults, ParserInv, KeptInv, Reading
  <2>3. KeptSuffix'
    BY <2>1, <2>2, PassOver DEF Positions, Array
  <2>4. Role' = Role
    BY <2>1, SameMeaning
  <2>5. stage = "declare" => stage' \in {"declare", "flags"} \cup Errors
    BY <1>1 DEF Declare, CallParse, Defaults, AddOption, Errors
  <2>6. stage = "defaults" => stage' \in {"rest"} \cup Errors
    BY <1>1, StageBecomes DEF Declare, CallParse
  <2> QED
    BY <2>1, <2>2, <2>3, <2>4, <2>5, <2>6 DEF KeptInv, RoleHere, Reading, Errors
<1>2. CASE Finish \/ Report
  <2>1. stage' \notin Reading \cup {"declare"}
    BY <1>2 DEF Finish, Report, Reading
  <2> QED
    BY <2>1 DEF KeptInv
<1>3. CASE UNCHANGED parserVars
  <2>1. Role' = Role /\ OthersBefore' = OthersBefore
    BY <1>3, SameMeaning DEF parserVars
  <2> QED
    BY <1>3, <2>1 DEF KeptInv, RoleHere, KeptSuffix, parserVars, values
<1> QED
  BY <1>1, <1>2, <1>3, PlainKeptInv, FlagKeptInv, EndKeptInv, RemainingKeptInv DEF ParserNext

\* parse() cuts argc down to what was kept.
LEMMA FinishKeeps ==
  ASSUME TypeInv, ParserInv, KeptInv, Finish PROVE KeptInOrder'
<1>1. /\ stage = "rest" /\ current >= argc /\ argc' = nextKeep
      /\ UNCHANGED <<command, args, argv>>
  BY DEF Finish
<1>2. RoleHere /\ KeptSuffix /\ Positions /\ Array
  BY <1>1 DEF KeptInv, ParserInv, Reading
<1>3. current = argc /\ argc \in Nat /\ nextKeep \in Nat /\ nextKeep >= 1
  BY <1>1, <1>2 DEF Positions, Array
<1>4. Cardinality(Given) = argc
  BY <1>2, <1>3, FS_Interval DEF Array
<1>5. Others = OthersBefore[current] /\ Others' = Others
  <2>1. Others = OthersBefore[current]
    BY <1>3, <1>4 DEF Others
  <2>2. Others' = Others
    BY <1>1, SameMeaning DEF Others, Given
  <2> QED
    BY <2>1, <2>2
<1>6. Others \in Seq({args[i] : i \in Nat})
  BY <1>3, <1>5, OthersRecursion
<1> DEFINE n == Len(Others)
           k == n - (nextKeep - 1) + 1
<1>7. n \in Nat /\ nextKeep - 1 <= n
  BY <1>2, <1>5, <1>6 DEF KeptSuffix
<1>8. k \in 1 .. n + 1
  BY <1>3, <1>7
<1>9. [i \in 1 .. nextKeep - 1 |-> argv[i]] = SubSeq(Others, k, n)
  <2>1. \A i \in 1 .. nextKeep - 1 : argv[i] = Others[n - (nextKeep - 1) + i]
    BY <1>2, <1>5 DEF KeptSuffix
  <2>2. n - k + 1 = nextKeep - 1
    BY <1>3, <1>7
  <2>3. SubSeq(Others, k, n) = [i \in 1 .. n - k + 1 |-> Others[k + i - 1]]
    <3> HIDE DEF k
    <3> QED
      BY <1>6, <1>8, EndOfSequence
  <2>4. \A i \in 1 .. nextKeep - 1 : k + i - 1 = n - (nextKeep - 1) + i
    BY <1>3, <1>7
  <2> HIDE DEF k, n
  <2> QED
    BY <2>1, <2>2, <2>3, <2>4
<1>10. command.positional = <<>> => k = 1
  BY <1>2, <1>3, <1>5, <1>7 DEF KeptSuffix
<1> HIDE DEF k, n
<1> QED
  BY <1>1, <1>5, <1>8, <1>9, <1>10 DEF KeptInOrder, n

\* What parse() leaves in argv is a last stretch of the arguments in front of "--" that
\* are neither flags nor their values, one for one and in order; all of those if nothing
\* is positional; and none from behind "--".
THEOREM OthersKeptInOrder == ParserSpec => []KeptInOrder
<1> DEFINE IInv == TypeInv /\ ParserInv /\ EntriesInv /\ KeptInv
<1>1. ParserInit => IInv /\ KeptInOrder
  <2>1. ParserInit => stage # "parsed"
    BY DEF ParserInit
  <2> QED
    BY <2>1, InitTypeInv, InitParserInv, InitEntriesInv, InitKeptInv DEF KeptInOrder
<1>2. IInv /\ [ParserNext]_parserVars => IInv'
  BY NextTypeInv, NextParserInv, NextEntriesInv, NextKeptInv
<1>3. IInv /\ KeptInOrder /\ [ParserNext]_parserVars => KeptInOrder'
  <2> SUFFICES ASSUME IInv, KeptInOrder, [ParserNext]_parserVars PROVE KeptInOrder'
    OBVIOUS
  <2>1. CASE Finish
    BY <2>1, FinishKeeps
  <2>2. CASE UNCHANGED parserVars
    <3>1. Role' = Role /\ OthersBefore' = OthersBefore
      BY <2>2, SameMeaning DEF parserVars
    <3> QED
      BY <2>2, <3>1 DEF KeptInOrder, Others, Given, parserVars
  <2>3. CASE ~Finish /\ ParserNext
    <3>1. stage' # "parsed"
      <4>1. CASE Plain \/ Flag \/ Defaults \/ Remaining
        BY <4>1, StageBecomes DEF Errors
      <4>2. CASE Declare \/ CallParse \/ EndOfFlags \/ EndOfArguments \/ Report
        BY <4>2 DEF Declare, AddOption, CallParse, EndOfFlags, EndOfArguments, Report
      <4> QED
        BY <2>3, <4>1, <4>2 DEF ParserNext
    <3> QED
      BY <3>1 DEF KeptInOrder
  <2> QED
    BY <2>1, <2>2, <2>3
<1> QED
  BY <1>1, <1>2, <1>3, PTL DEF ParserSpec

-----------------------------------------------------------------------------
(* What a flag, a default and a positional argument do to the values.      *)

\* The text an option gets from the k-th name of a flag.
GivenBy(m, k) == IF k = Len(m.names) /\ TakesNext(m) THEN argv[current + 1] ELSE m.arg

\* OptionDetails::parse gives one option its text and counts it.
LEMMA ParseEffect ==
  ASSUME Program, NEW st \in Results, NEW o \in Declared, NEW given \in Texts,
         Parse(st, o, given).error = None
  PROVE  /\ st.error = None
         /\ \A p \in Declared : p # o =>
              /\ Parse(st, o, given).value[p] = st.value[p]
              /\ Parse(st, o, given).count[p] = st.count[p]
         /\ Parse(st, o, given).count[o] = st.count[o] + 1
         /\ ~IsContainer(o) => Parse(st, o, given).value[o] = <<Meaning(o, given)>>
<1> DEFINE text == Meaning(o, given)
           r == Parse(st, o, given)
<1>1. r = IF st.error # None THEN st
          ELSE IF Fits(o, text)
          THEN [st EXCEPT !.value[o] = Stored(o, @, text), !.count[o] = @ + 1]
          ELSE [st EXCEPT !.error = "argument_incorrect_type"]
  BY DEF Parse
<1>2. "argument_incorrect_type" # None
  BY CommandLineAssumption DEF Errors
<1> HIDE DEF text, r
<1>3. st.error = None /\ Fits(o, text)
  <2>1. [st EXCEPT !.error = "argument_incorrect_type"].error = "argument_incorrect_type"
    BY DEF Results
  <2> QED
    BY <1>1, <1>2, <2>1 DEF r
<1> DEFINE v == [st.value EXCEPT ![o] = Stored(o, @, text)]
           c == [st.count EXCEPT ![o] = @ + 1]
<1>4. r = [st EXCEPT !.value = v, !.count = c]
  BY <1>1, <1>3 DEF Results
<1>5. /\ \A p \in Declared : p # o => v[p] = st.value[p] /\ c[p] = st.count[p]
      /\ v[o] = Stored(o, st.value[o], text) /\ c[o] = st.count[o] + 1
  BY DEF Results
<1> HIDE DEF v, c
<1>6. r.value = v /\ r.count = c
  BY <1>4 DEF Results
<1> QED
  BY <1>3, <1>5, <1>6 DEF Stored, r, text

\* From st to r, option o got the text given and the others nothing.
Took(st, r, o, given) ==
  /\ st.error = None /\ o \in Declared
  /\ \A p \in Declared : p # o => r.value[p] = st.value[p] /\ r.count[p] = st.count[p]
  /\ r.count[o] = st.count[o] + 1
  /\ ~IsContainer(o) => r.value[o] = <<Meaning(o, given)>>

\* A name of a flag gives its option what the flag says, unless something is thrown.
LEMMA ParseNameEffect ==
  ASSUME TypeInv, Positions, Array, NEW st \in Results, NEW m \in Matches, NEW k \in DOMAIN m.names,
         Len(m.names) > 1 => m.arg = Empty,
         NEW o, o = m_options[m.names[k]],
         NEW r, r = ParseName(st, m, k), r.error = None
  PROVE  Took(st, r, o, GivenBy(m, k))
<1>1. /\ m.names[k] \in Names /\ m.arg \in Texts /\ Empty \in Texts
      /\ Len(m.names) \in Nat /\ k \in 1 .. Len(m.names)
  BY CommandLineAssumption DEF Matches
<1>2. o # 0 => o \in Declared
  BY <1>1, OptionsTyped
<1>3. \A e \in Errors : Throw(st, e).error # None
  BY CommandLineAssumption DEF Throw, Results
<1>4. o # 0
  BY <1>3 DEF ParseName, Errors
<1>5. \E given \in Texts : given = GivenBy(m, k) /\ r = Parse(st, o, given)
  <2>1. CASE ~HasArg(o)
    <3>1. m.arg = Empty /\ r = Parse(st, o, Empty)
      BY <1>3, <1>4, <2>1 DEF ParseName, Errors
    <3>2. GivenBy(m, k) = m.arg
      BY <2>1 DEF GivenBy, TakesNext
    <3> QED
      BY <1>1, <3>1, <3>2
  <2>2. CASE HasArg(o) /\ k < Len(m.names)
    <3>1. r = Parse(st, o, Empty)
      BY <1>3, <1>4, <2>2 DEF ParseName, Errors
    <3>2. GivenBy(m, k) = m.arg /\ m.arg = Empty
      BY <1>1, <2>2 DEF GivenBy
    <3> QED
      BY <1>1, <3>1, <3>2
  <2>3. CASE HasArg(o) /\ ~(k < Len(m.names))
    <3>1. k = Len(m.names)
      BY <1>1, <2>3
    <3>2. TakesNext(m) <=> m.arg = Empty /\ NextIsArgument(o)
      BY <1>4, <2>3, <3>1 DEF TakesNext
    <3>3. CASE m.arg # Empty
      <4>1. r = Parse(st, o, m.arg)
        BY <1>4, <2>3, <3>3 DEF ParseName
      <4> QED
        BY <1>1, <3>2, <3>3, <4>1 DEF GivenBy
    <3>4. CASE m.arg = Empty
      <4>1. r = CheckedParse(st, o)
        BY <1>4, <2>3, <3>4 DEF ParseName
      <4>2. CASE NextIsArgument(o)
        <5>1. argv[current + 1] \in Texts
          BY <4>2 DEF NextIsArgument, Positions, Array
        <5> QED
          BY <3>1, <3>2, <3>4, <4>1, <4>2, <5>1 DEF CheckedParse, GivenBy
      <4>3. CASE ~NextIsArgument(o)
        <5>1. r = Parse(st, o, Empty)
          BY <1>3, <4>1, <4>3 DEF CheckedParse, Errors
        <5> QED
          BY <1>1, <3>2, <3>4, <4>3, <5>1 DEF GivenBy
      <4> QED
        BY <4>2, <4>3
    <3> QED
      BY <3>3, <3>4
  <2> QED
    BY <2>1, <2>2, <2>3
<1>6. PICK given \in Texts : given = GivenBy(m, k) /\ r = Parse(st, o, given)
  BY <1>5
<1>7. o \in Declared /\ Program
  BY <1>2, <1>4 DEF TypeInv
<1> QED
  BY <1>6, <1>7, ParseEffect DEF Took

\* The values after k names of a flag.
NamesEffect(g, m, k) ==
  g[k].error = None =>
    \A o \in Declared :
      IF \E j \in 1 .. k : m_options[m.names[j]] = o
      THEN /\ g[k].count[o] # 0
           /\ ~IsContainer(o) =>
                g[k].value[o] = <<Meaning(o, IF m_options[m.names[k]] = o THEN GivenBy(m, k)
                                            ELSE m.arg)>>
      ELSE g[k].count[o] = m_count[o] /\ g[k].value[o] = value[o]

\* So do all the names of a flag together.
LEMMA NamesHaveEffect ==
  ASSUME TypeInv, Positions, Array, NEW m \in Matches, NEW g, NamesParsed(g, m),
         Len(m.names) > 1 => m.arg = Empty
  PROVE  \A k \in 0 .. Len(m.names) : NamesEffect(g, m, k)
<1> DEFINE n == Len(m.names)
           S == {k \in Nat : k <= n => NamesEffect(g, m, k)}
<1>1. n \in Nat /\ DOMAIN m.names = 1 .. n
  BY DEF Matches
<1>2. 0 \in S
  BY DEF NamesParsed, NamesEffect, Values
<1>3. ASSUME NEW k \in Nat, k \in S PROVE k + 1 \in S
  <2> SUFFICES ASSUME k + 1 <= n, g[k + 1].error = None, NEW o \in Declared
               PROVE  IF \E j \in 1 .. k + 1 : m_options[m.names[j]] = o
                      THEN /\ g[k + 1].count[o] # 0
                           /\ ~IsContainer(o) =>
                                g[k + 1].value[o] =
                                  <<Meaning(o, IF m_options[m.names[k + 1]] = o THEN GivenBy(m, k + 1)
                                              ELSE m.arg)>>
                      ELSE g[k + 1].count[o] = m_count[o] /\ g[k + 1].value[o] = value[o]
    BY DEF NamesEffect
  <2>1. /\ k + 1 \in 1 .. n /\ k + 1 \in DOMAIN m.names /\ k + 1 - 1 = k /\ k \in 0 .. n
        /\ k < n
    BY <1>1
  <2>2. g[k + 1] = ParseName(g[k], m, k + 1) /\ g[k] \in Results
    BY <2>1 DEF NamesParsed
  <2> DEFINE p == m_options[m.names[k + 1]]
  <2>3. /\ g[k].error = None /\ p \in Declared
        /\ o # p => g[k + 1].value[o] = g[k].value[o] /\ g[k + 1].count[o] = g[k].count[o]
        /\ g[k + 1].count[p] = g[k].count[p] + 1
        /\ ~IsContainer(p) => g[k + 1].value[p] = <<Meaning(p, GivenBy(m, k + 1))>>
    <3> DEFINE kk == k + 1
               st == g[k]
               r == g[kk]
    <3>1. kk \in DOMAIN m.names /\ p = m_options[m.names[kk]]
      BY <2>1
    <3>2. st \in Results /\ r = ParseName(st, m, kk) /\ r.error = None
      BY <2>2
    <3>3. Took(st, r, p, GivenBy(m, kk))
      <4> HIDE DEF kk, st, r, p
      <4> QED
        BY <3>1, <3>2, ParseNameEffect
    <3> QED
      BY <3>3 DEF Took
  <2>4. NamesEffect(g, m, k)
    BY <1>3, <2>1
  <2>5. CASE o = p
    <3>1. g[k].count \in [Declared -> Nat]
      BY <2>2 DEF Results
    <3>2. k + 1 \in 1 .. k + 1
      BY <2>1
    <3> HIDE DEF p
    <3>3. g[k + 1].count[o] # 0
      <4>1. g[k].count[p] \in Nat
        BY <2>3, <3>1
      <4> QED
        BY <2>3, <2>5, <4>1
    <3>4. ~IsContainer(o) => g[k + 1].value[o] = <<Meaning(o, GivenBy(m, k + 1))>>
      BY <2>3, <2>5
    <3>5. m_options[m.names[k + 1]] = o
      BY <2>5 DEF p
    <3> QED
      BY <3>2, <3>3, <3>4, <3>5
  <2>6. CASE o # p
    <3>1. (\E j \in 1 .. k + 1 : m_options[m.names[j]] = o)
            <=> (\E j \in 1 .. k : m_options[m.names[j]] = o)
      <4>1. 1 .. k + 1 = (1 .. k) \cup {k + 1}
        OBVIOUS
      <4> QED
        BY <2>6, <4>1
    <3>2. GivenBy(m, k) = m.arg
      BY <2>1 DEF GivenBy
    <3> HIDE DEF p
    <3> QED
      BY <2>3, <2>4, <2>6, <3>1, <3>2 DEF NamesEffect, p
  <2> QED
    BY <2>5, <2>6
<1> HIDE DEF S
<1>4. Nat \subseteq S
  BY <1>2, <1>3, Induction
<1> QED
  BY <1>1, <1>4 DEF S

\* The values after the defaults for the names of s.
DefaultEffect(r, s) ==
  r.error = None =>
    /\ r.count = m_count
    /\ \A o \in Declared : ~IsContainer(o) =>
         r.value[o] = IF /\ m_count[o] = 0 /\ Option(o).default # None
                         /\ \E n \in s : m_options[n] = o
                      THEN <<Option(o).default>> ELSE value[o]

\* The default of one more name, for an option that has no value.
LEMMA DefaultOfName ==
  ASSUME TypeInv, NEW s \in (SUBSET Names) \ {{}}, NEW x \in s, NEW st \in Results,
         DefaultEffect(st, s \ {x}), NEW r, r = WithDefault(x, st)
  PROVE  DefaultEffect(r, s)
<1> DEFINE p == m_options[x]
<1>1. x \in Names /\ (p # 0 => p \in Declared)
  BY OptionsTyped
<1>2. \A o \in Declared : o # p =>
        ((\E n \in s : m_options[n] = o) <=> \E n \in s \ {x} : m_options[n] = o)
  OBVIOUS
<1>3. "argument_incorrect_type" # None /\ 0 \notin Declared
  BY CommandLineAssumption DEF Errors, TypeInv, Program, Declared
<1>4. CASE p = 0 \/ st.error # None
  <2>1. r = st
    BY <1>4 DEF WithDefault
  <2> QED
    BY <1>2, <1>3, <1>4, <2>1 DEF DefaultEffect
<1>5. CASE p # 0 /\ st.error = None /\ (m_count[p] # 0 \/ Option(p).default = None)
  <2>1. r = st
    BY <1>5 DEF WithDefault
  <2> HIDE DEF p
  <2> QED
    BY <1>2, <1>5, <2>1 DEF DefaultEffect
<1>6. CASE p # 0 /\ st.error = None /\ m_count[p] = 0 /\ Option(p).default # None
  <2> DEFINE v == [st.value EXCEPT ![p] = Stored(p, @, Option(p).default)]
  <2>1. r = IF Fits(p, Option(p).default)
            THEN [st EXCEPT !.value[p] = Stored(p, @, Option(p).default)]
            ELSE [st EXCEPT !.error = "argument_incorrect_type"]
    BY <1>6 DEF WithDefault
  <2>2. CASE ~Fits(p, Option(p).default)
    <3>1. r.error = "argument_incorrect_type"
      BY <2>1, <2>2 DEF Results
    <3> QED
      BY <1>3, <3>1 DEF DefaultEffect
  <2>3. CASE Fits(p, Option(p).default)
    <3> HIDE DEF p
    <3>1. r = [st EXCEPT !.value = v]
      BY <2>1, <2>3 DEF Results
    <3>2. /\ \A o \in Declared : o # p => v[o] = st.value[o]
          /\ p \in Declared /\ v[p] = Stored(p, st.value[p], Option(p).default)
      BY <1>1, <1>6 DEF Results
    <3> HIDE DEF v
    <3>3. r.value = v /\ r.count = st.count
      BY <3>1 DEF Results
    <3>4. ~IsContainer(p) => v[p] = <<Option(p).default>>
      BY <3>2 DEF Stored
    <3>5. \E n \in s : m_options[n] = p
      BY DEF p
    <3> QED
      BY <1>2, <1>6, <3>2, <3>3, <3>4, <3>5 DEF DefaultEffect
  <2> QED
    BY <2>2, <2>3
<1> QED
  BY <1>4, <1>5, <1>6

\* After the loop every option without a value has its default, under whichever name.
LEMMA DefaultsHaveEffect ==
  ASSUME TypeInv
  PROVE  DefaultEffect(FoldSet(WithDefault, Values, Names), Names)
<1>1. PICK g : DefaultsGiven(g)
  BY DefaultsSteps
<1> DEFINE C == [s \in (SUBSET Names) \ {{}} |-> Picked(s)]
           G == {s \in SUBSET Names : DefaultEffect(g[s], s)}
<1>2. {} \in G
  BY <1>1 DEF DefaultsGiven, DefaultEffect, Values
<1>3. ASSUME NEW s \in (SUBSET Names) \ {{}}, s \ {C[s]} \in G PROVE s \in G
  <2> DEFINE x == Picked(s)
  <2>1. C[s] = x /\ x \in s
    BY DEF Picked
  <2>2. s \ {x} \in SUBSET Names /\ DefaultEffect(g[s \ {x}], s \ {x})
    BY <1>3, <2>1
  <2>3. g[s \ {x}] \in Results /\ g[s] = WithDefault(x, g[s \ {x}])
    BY <1>1, <2>2 DEF DefaultsGiven
  <2> HIDE DEF x, C
  <2>4. DefaultEffect(g[s], s)
    BY <2>1, <2>2, <2>3, DefaultOfName
  <2> QED
    BY <2>4
<1>4. SUBSET Names \subseteq G
  <2>1. Chooses(C, Names) /\ IsFiniteSet(Names)
    BY PickedChooses, CommandLineAssumption
  <2> HIDE DEF C, G
  <2> QED
    BY <1>2, <1>3, <2>1, SetInduction
<1>5. Names \in SUBSET Names
  OBVIOUS
<1> QED
  BY <1>1, <1>4, <1>5 DEF DefaultsGiven

\* An option that is positional under none of its names.
NotPositional(o) == \A p \in ToSet(command.positional) : OptionOf(p) # o

\* A positional argument is given to positional options only.
LEMMA PositionalLeavesAlone ==
  ASSUME TypeInv, EntriesInv, stage \notin Errors, stage # "declare",
         NEW text \in Texts, NEW next \in Stages, ConsumePositional(text, next),
         stage' \notin Errors, NEW o \in Declared, NotPositional(o)
  PROVE  value'[o] = value[o] /\ m_count'[o] = m_count[o]
<1>1. Len(command.positional) \in Nat /\ m_next_positional \in 1 .. Len(command.positional) + 1
  BY DEF TypeInv, Program, ParserTypeOK
<1>2. CASE Takers = {}
  BY <1>2 DEF ConsumePositional, Becomes, Values
<1>3. CASE Takers # {}
  <2> DEFINE j == Min(Takers)
             name == command.positional[j]
             p == m_options[name]
  <2>1. Takers \in SUBSET Nat /\ \A i \in Takers : i \in 1 .. Len(command.positional)
    BY <1>1 DEF Takers
  <2>2. j \in Takers /\ j \in 1 .. Len(command.positional)
    BY <1>3, <2>1, MinOfPlaces
  <2>3. name \in Names /\ name \in ToSet(command.positional)
    BY <2>2 DEF TypeInv, Program, ToSet
  <2>4. p # 0
    <3>1. \A i \in Takers : m_options[command.positional[i]] # 0
      BY DEF Takers
    <3> QED
      BY <2>2, <3>1
  <2>5. p \in Declared /\ p = OptionOf(name)
    BY <2>3, <2>4, OptionsTyped, EntriesAreOptions
  <2>6. p # o
    BY <2>3, <2>5 DEF NotPositional
  <2>7. Becomes(Parse(Values, p, text), next)
    BY <1>3 DEF ConsumePositional
  <2> HIDE DEF j, name, p
  <2> DEFINE r == Parse(Values, p, text)
  <2>8. r \in Results /\ Values \in Results /\ Program
    BY <2>5, ValuesTyped, ParseTyped DEF TypeInv
  <2>9. r.error = None
    BY <2>7, <2>8 DEF Becomes, Results
  <2>10. r.value[o] = Values.value[o] /\ r.count[o] = Values.count[o]
    BY <2>5, <2>6, <2>8, <2>9, ParseEffect
  <2> QED
    BY <2>7, <2>10 DEF Becomes, Values
<1> QED
  BY <1>2, <1>3

-----------------------------------------------------------------------------
(* What main() sees.                                                        *)

\* The options of which the rest is about: main() can ask for them, and only a
\* flag or a default gives them a value.
Simple(o) ==
  /\ o \in Declared /\ ~IsContainer(o) /\ NotPositional(o)
  /\ \E n \in Names : OptionOf(n) = o

\* Those of its flags that are before place c.
FlagsBefore(o, c) == {i \in FlagsOf(o) : i < c}

\* What an option has in the end if S are its flags.
Outcome(o, S) ==
  IF S # {} THEN ValueAt(o, Max(S))
  ELSE IF Option(o).default # None THEN <<Option(o).default>>
  ELSE <<>>

\* While flags are read, an option has what its last flag so far gave.
GivenSoFar(o) ==
  LET S == FlagsBefore(o, current)
  IN IF S = {} THEN m_count[o] = 0 /\ value[o] = <<>>
     ELSE m_count[o] # 0 /\ value[o] = ValueAt(o, Max(S))

\* What an option has in every stage of parse().
Settled(o) ==
  /\ stage \in {"declare", "flags", "defaults"} => GivenSoFar(o)
  /\ stage = "rest" => value[o] = Outcome(o, FlagsBefore(o, current))
  /\ stage = "parsed" => value[o] = Outcome(o, FlagsOf(o))

\* The inductive invariant for what main() sees.
ConfigInv == \A o \in Declared : Simple(o) => Settled(o)

\* Nor do the flags of an option change, and what they say.
LEMMA SameFlags ==
  ASSUME UNCHANGED <<command, args>>
  PROVE  /\ Declared' = Declared
         /\ \A o : /\ Simple(o)' = Simple(o) /\ FlagsOf(o)' = FlagsOf(o)
                   /\ \A c : FlagsBefore(o, c)' = FlagsBefore(o, c)
                   /\ \A i : ValueAt(o, i)' = ValueAt(o, i)
                   /\ \A S : Outcome(o, S)' = Outcome(o, S)
<1>1. Role' = Role
  BY SameMeaning
<1>2. \A n : OptionOf(n)' = OptionOf(n)
  BY DEF OptionOf, Option
<1>3. \A o : FlagsOf(o)' = FlagsOf(o)
  BY <1>1, <1>2 DEF FlagsOf, Given
<1>4. \A o : \A c : FlagsBefore(o, c)' = FlagsBefore(o, c)
  BY <1>3 DEF FlagsBefore
<1>5. \A i : LastOption(i)' = LastOption(i)
  BY <1>2 DEF LastOption
<1>6. \A o : \A i : ValueAt(o, i)' = ValueAt(o, i)
  BY <1>1, <1>5 DEF ValueAt, HasImplicit, Option
<1>7. \A o : \A S : Outcome(o, S)' = Outcome(o, S)
  BY <1>6 DEF Outcome, Option
<1>8. \A o : Simple(o)' = Simple(o)
  BY <1>2 DEF Simple, NotPositional, IsContainer, Option, Declared
<1> QED
  BY <1>3, <1>4, <1>6, <1>7, <1>8 DEF Declared

\* current passes one argument.
LEMMA FlagsPassed ==
  ASSUME Array, NEW c \in Nat, NEW o
  PROVE  /\ Role[c] \notin {"flag", "asks"} => FlagsBefore(o, c + 1) = FlagsBefore(o, c)
         /\ c \in FlagsOf(o) => FlagsBefore(o, c + 1) = FlagsBefore(o, c) \cup {c}
         /\ c \notin FlagsOf(o) => FlagsBefore(o, c + 1) = FlagsBefore(o, c)
<1>1. FlagsOf(o) \in SUBSET Nat
  BY DEF FlagsOf, Array
<1>2. Role[c] \notin {"flag", "asks"} => c \notin FlagsOf(o)
  BY DEF FlagsOf
<1> QED
  BY <1>1, <1>2 DEF FlagsBefore

\* The last flag so far is the one at c.
LEMMA LastFlag ==
  ASSUME NEW c \in Nat, NEW S, S \subseteq 0 .. c, c \in S
  PROVE  Max(S) = c
<1>1. S \in SUBSET (0 .. c) /\ S # {}
  OBVIOUS
<1>2. Max(S) \in S /\ \A y \in S : Max(S) >= y
  BY <1>1, MaxOfPlaces
<1>3. Max(S) \in 0 .. c /\ Max(S) >= c
  BY <1>1, <1>2
<1> QED
  BY <1>3

\* A step that passes arguments which are no flags, and touches no value.
LEMMA SettledMoves ==
  ASSUME UNCHANGED <<command, args>>, NEW o \in Declared, Simple(o), Settled(o),
         value'[o] = value[o], m_count'[o] = m_count[o],
         FlagsBefore(o, current') = FlagsBefore(o, current),
         \/ stage \in {"declare", "flags", "defaults"} /\ stage' \in {"declare", "flags", "defaults"}
         \/ stage = "rest" /\ stage' = "rest"
         \/ stage' \notin {"declare", "flags", "defaults", "rest", "parsed"}
  PROVE  Settled(o)'
  BY SameFlags DEF Settled, GivenSoFar

\* Before parse() no option has a value.
LEMMA InitConfigInv == ParserInit => ConfigInv
<1> SUFFICES ASSUME ParserInit, NEW o \in Declared PROVE GivenSoFar(o)
  BY DEF ConfigInv, Settled, ParserInit
<1>1. Array
  BY InitParserInv DEF ParserInv, ParserInit
<1>2. current = 1 /\ m_count[o] = 0 /\ value[o] = <<>>
  BY DEF ParserInit, Declared
<1>3. Role[0] = "program"
  BY RoleRecursion
<1>4. FlagsBefore(o, 1) = {}
  <2>1. FlagsBefore(o, 0) = {}
    BY <1>1 DEF FlagsBefore, FlagsOf, Array
  <2>2. FlagsBefore(o, 0 + 1) = FlagsBefore(o, 0)
    BY <1>1, <1>3, FlagsPassed
  <2> QED
    BY <2>1, <2>2
<1> QED
  BY <1>2, <1>4 DEF GivenSoFar

\* An argument that is no flag gives no value to an option that is not positional.
LEMMA PlainConfigInv ==
  ASSUME TypeInv, ParserInv, EntriesInv, KeptInv, ConfigInv, Plain PROVE ConfigInv'
<1>1. /\ stage = "flags" /\ current # argc /\ current' = current + 1
      /\ Match[argv[current]].kind = "plain" /\ UNCHANGED <<command, args>>
      /\ ConsumePositional(argv[current], stage)
  BY DEF Plain
<1>2. /\ current \in Nat /\ argv[current] = args[current] /\ argv[current] \in Texts /\ Array
      /\ current - 1 \in Nat /\ current - 1 + 1 = current
  BY <1>1, AtCurrent
<1>3. stage' \in {"flags"} \cup Errors
  BY StageBecomes
<1>4. Role[current] \notin {"flag", "asks"}
  <2>1. Role[current] = RoleAfter(Role[current - 1], current)
    BY <1>2, RoleRecursion
  <2> QED
    BY <1>1, <1>2, <2>1 DEF RoleAfter, Asks
<1>5. ASSUME NEW o \in Declared, Simple(o) PROVE Settled(o)'
  <2>1. Settled(o)
    BY <1>5 DEF ConfigInv
  <2>2. FlagsBefore(o, current') = FlagsBefore(o, current)
    BY <1>1, <1>2, <1>4, FlagsPassed
  <2>3. CASE stage' \in Errors
    BY <2>3 DEF Settled, Errors
  <2>4. CASE stage' \notin Errors
    <3>1. value'[o] = value[o] /\ m_count'[o] = m_count[o]
      BY <1>1, <1>2, <1>5, <2>4, PositionalLeavesAlone DEF Simple, Errors, Stages
    <3> QED
      BY <1>1, <1>3, <1>5, <2>1, <2>2, <2>4, <3>1, SettledMoves
  <2> QED
    BY <2>3, <2>4
<1> QED
  BY <1>1, <1>5, SameFlags DEF ConfigInv

\* What the loop gives for a flag is what the flag means at its place.
LEMMA MeaningHere ==
  ASSUME NEW o, NEW given, given \in Texts, NEW i,
         given = IF Role[i] = "asks" /\ LastOption(i) = o THEN args[i + 1] ELSE Match[args[i]].arg
  PROVE  ValueAt(o, i) = <<Meaning(o, given)>>
  BY DEF ValueAt, Meaning

\* A flag gives its options what it means at its place, and is their last so far.
LEMMA FlagConfigInv ==
  ASSUME TypeInv, ParserInv, EntriesInv, KeptInv, ConfigInv, Flag PROVE ConfigInv'
<1> DEFINE m == Match[argv[current]]
           n == Len(m.names)
           r == ParseNames(m)
<1>1. /\ stage = "flags" /\ current # argc /\ m.kind = "flag"
      /\ current' = current + IF TakesNext(m) THEN 2 ELSE 1
      /\ Becomes(r, stage)
      /\ UNCHANGED <<command, args>>
  BY DEF Flag
<1>2. /\ current \in Nat /\ current - 1 \in Nat /\ current - 1 + 1 = current
      /\ current \in Given /\ argv[current] = args[current] /\ argv[current] \in Texts
      /\ m \in Matches /\ Positions /\ Array /\ Unread
  BY <1>1, AtCurrent
<1>3. n > 1 => m.arg = Empty
  BY <1>1, <1>2, CommandLineAssumption
<1>4. m.names # <<>> /\ m.names \in Seq(Names) /\ n \in Nat /\ n >= 1 /\ DOMAIN m.names = 1 .. n
  <2>1. m.names # <<>>
    BY <1>1, <1>2, CommandLineAssumption
  <2> QED
    BY <1>2, <2>1 DEF Matches
<1>5. TakesNext(m) <=> Asks(current)
  BY <1>1, TakesWhatIsAsked
<1>6. Role[current] = IF Asks(current) THEN "asks" ELSE "flag"
  <2>1. Role[current] = RoleAfter(Role[current - 1], current)
    BY <1>2, RoleRecursion
  <2>2. Role[current - 1] \notin {"asks", "end", "rest"}
    BY <1>1 DEF KeptInv, RoleHere, Reading
  <2> QED
    BY <1>1, <1>2, <2>1, <2>2 DEF RoleAfter
<1>7. Role[current + 1] = RoleAfter(Role[current], current + 1)
  BY <1>2, RoleRecursion
<1>8. stage' \in {"flags"} \cup Errors
  BY StageBecomes
<1>9. \A o : FlagsBefore(o, current') = FlagsBefore(o, current + 1)
  <2> TAKE o
  <2>1. CASE Asks(current)
    <3>1. Role[current + 1] = "argument"
      BY <1>6, <1>7, <2>1 DEF RoleAfter
    <3>2. current + 1 \in Nat /\ current' = current + 1 + 1
      BY <1>1, <1>2, <1>5, <2>1
    <3> QED
      BY <1>2, <3>1, <3>2, FlagsPassed
  <2>2. CASE ~Asks(current)
    BY <1>1, <1>5, <2>2
  <2> QED
    BY <2>1, <2>2
<1>10. m.names[n] \in Names /\ \A k \in 1 .. n : m.names[k] \in Names
  BY <1>4
<1>11. \A k \in 1 .. n : m_options[m.names[k]] = OptionOf(m.names[k])
  BY <1>1, <1>10, EntriesAreOptions DEF Errors
<1>12. m_options[m.names[n]] = LastOption(current)
  <2>1. n \in 1 .. n
    BY <1>4
  <2> QED
    BY <1>2, <1>11, <2>1 DEF LastOption
<1>13. \A o : current \in FlagsOf(o) <=> \E k \in 1 .. n : m_options[m.names[k]] = o
  BY <1>2, <1>4, <1>6, <1>11 DEF FlagsOf
<1>14. PICK g : NamesEffect(g, m, n) /\ r = g[n] /\ r \in Results
  <2> HIDE DEF m
  <2>1. PICK g : NamesParsed(g, m)
    BY <1>2, ParseNamesSteps
  <2>2. n \in 0 .. n
    BY <1>4
  <2> QED
    BY <1>2, <1>3, <2>1, <2>2, NamesHaveEffect DEF NamesParsed
<1>15. ASSUME NEW o \in Declared, Simple(o), stage' \notin Errors PROVE Settled(o)'
  <2>1. r.error = None /\ value' = r.value /\ m_count' = r.count
    BY <1>1, <1>14, <1>15 DEF Becomes, Results
  <2>2. IF current \in FlagsOf(o)
        THEN /\ m_count'[o] # 0
             /\ value'[o] = <<Meaning(o, IF m_options[m.names[n]] = o THEN GivenBy(m, n) ELSE m.arg)>>
        ELSE m_count'[o] = m_count[o] /\ value'[o] = value[o]
    <3>1. n \in 0 .. n /\ ~IsContainer(o)
      BY <1>4, <1>15 DEF Simple
    <3> HIDE DEF m, n, r
    <3> QED
      BY <1>13, <1>14, <2>1, <3>1 DEF NamesEffect
  <2>3. stage' = "flags" /\ Settled(o)
    BY <1>8, <1>15 DEF ConfigInv
  <2>4. CASE current \notin FlagsOf(o)
    <3>1. FlagsBefore(o, current') = FlagsBefore(o, current)
      BY <1>2, <1>9, <2>4, FlagsPassed
    <3> QED
      BY <1>1, <1>15, <2>2, <2>3, <2>4, <3>1, SettledMoves
  <2>5. CASE current \in FlagsOf(o)
    <3> DEFINE S == FlagsBefore(o, current')
               given == IF m_options[m.names[n]] = o THEN GivenBy(m, n) ELSE m.arg
    <3>1. S \subseteq 0 .. current /\ current \in S
      <4>1. S = FlagsBefore(o, current) \cup {current}
        BY <1>2, <1>9, <2>5, FlagsPassed
      <4>2. FlagsBefore(o, current) \subseteq 0 .. current
        BY <1>2 DEF FlagsBefore, FlagsOf, Array
      <4> QED
        BY <1>2, <4>1, <4>2
    <3>2. Max(S) = current
      <4> HIDE DEF S
      <4> QED
        BY <1>2, <3>1, LastFlag
    <3>3. ValueAt(o, current) = <<Meaning(o, given)>>
      <4>1. GivenBy(m, n) = IF Asks(current) THEN args[current + 1] ELSE m.arg
        <5>1. TakesNext(m) => argv[current + 1] = args[current + 1]
          BY <1>2 DEF TakesNext, NextIsArgument, Array, Unread
        <5> QED
          BY <1>5, <5>1 DEF GivenBy
      <4>2. Asks(current) => args[current + 1] \in Texts
        BY <1>2 DEF Asks, Array
      <4>3. Role[current] = "asks" <=> Asks(current)
        BY <1>6
      <4>4. m = Match[args[current]] /\ m.arg \in Texts
        BY <1>2 DEF Matches
      <4>5. given = IF Role[current] = "asks" /\ LastOption(current) = o THEN args[current + 1]
                    ELSE Match[args[current]].arg
        <5> HIDE DEF m, n
        <5> QED
          BY <1>12, <4>1, <4>3, <4>4
      <4>6. given \in Texts
        <5> HIDE DEF m, n
        <5> QED
          BY <4>1, <4>2, <4>4
      <4> HIDE DEF given
      <4> QED
        BY <4>5, <4>6, MeaningHere
    <3>4. m_count'[o] # 0 /\ value'[o] = ValueAt(o, Max(S)) /\ S # {}
      BY <2>2, <2>5, <3>1, <3>2, <3>3
    <3> HIDE DEF given
    <3>5. GivenSoFar(o)'
      BY <1>1, <3>4, SameFlags DEF GivenSoFar
    <3> QED
      BY <2>3, <3>5 DEF Settled
  <2> QED
    BY <2>4, <2>5
<1>16. ASSUME stage' \in Errors, NEW o PROVE Settled(o)'
  BY <1>16 DEF Settled, Errors
<1> HIDE DEF m, n, r
<1> QED
  BY <1>1, <1>15, <1>16, SameFlags DEF ConfigInv

\* An option without a flag gets its default.
LEMMA DefaultsConfigInv ==
  ASSUME TypeInv, ParserInv, EntriesInv, ConfigInv, Defaults PROVE ConfigInv'
<1> DEFINE r == FoldSet(WithDefault, Values, Names)
<1>1. /\ stage = "defaults" /\ Becomes(r, "rest")
      /\ UNCHANGED <<command, args, current>>
  BY DEF Defaults
<1>2. stage' \in {"rest"} \cup Errors
  BY StageBecomes
<1>3. DefaultEffect(r, Names) /\ r \in Results
  <2>1. PICK g : DefaultsGiven(g)
    BY DefaultsSteps
  <2> QED
    BY <2>1, DefaultsHaveEffect DEF DefaultsGiven
<1> HIDE DEF r
<1>4. ASSUME NEW o \in Declared, Simple(o), stage' \notin Errors PROVE Settled(o)'
  <2>1. stage' = "rest" /\ r.error = None /\ value' = r.value
    BY <1>1, <1>3, <1>4 DEF Becomes, Results
  <2>2. \E n \in Names : m_options[n] = o
    <3>1. PICK n \in Names : OptionOf(n) = o
      BY <1>4 DEF Simple
    <3>2. stage \notin Errors /\ stage # "declare"
      BY <1>1 DEF Errors
    <3>3. m_options[n] = OptionOf(n)
      BY <3>2, EntriesAreOptions
    <3> QED
      BY <3>1, <3>3
  <2>3. value'[o] = IF m_count[o] = 0 /\ Option(o).default # None THEN <<Option(o).default>>
                    ELSE value[o]
    BY <1>3, <1>4, <2>1, <2>2 DEF DefaultEffect, Simple
  <2>4. GivenSoFar(o)
    BY <1>1, <1>4 DEF ConfigInv, Settled
  <2>5. value'[o] = Outcome(o, FlagsBefore(o, current))
    BY <2>3, <2>4 DEF GivenSoFar, Outcome
  <2> QED
    BY <1>1, <2>1, <2>5, SameFlags DEF Settled
<1>5. ASSUME stage' \in Errors, NEW o PROVE Settled(o)'
  BY <1>5 DEF Settled, Errors
<1> QED
  BY <1>1, <1>4, <1>5, SameFlags DEF ConfigInv

\* What comes after "--" changes no option that is not positional.
LEMMA RemainingConfigInv ==
  ASSUME TypeInv, ParserInv, EntriesInv, KeptInv, ConfigInv, Remaining PROVE ConfigInv'
<1>1. /\ stage = "rest" /\ current < argc /\ current' = current + 1
      /\ UNCHANGED <<command, args>> /\ ConsumePositional(argv[current], stage)
  BY DEF Remaining
<1>2. Positions /\ Array /\ RoleHere
  BY <1>1 DEF ParserInv, KeptInv, Reading
<1>3. current \in Nat /\ current - 1 \in Nat /\ current - 1 + 1 = current /\ argv[current] \in Texts
  BY <1>1, <1>2 DEF Positions, Array
<1>4. Role[current] \notin {"flag", "asks"}
  <2>1. Role[current - 1] \in {"end", "rest"}
    BY <1>1, <1>2 DEF RoleHere, Positions, Array
  <2>2. Role[current] = RoleAfter(Role[current - 1], current)
    BY <1>3, RoleRecursion
  <2> QED
    BY <2>1, <2>2 DEF RoleAfter
<1>5. stage' \in {"rest"} \cup Errors
  BY StageBecomes
<1>6. ASSUME NEW o \in Declared, Simple(o) PROVE Settled(o)'
  <2>1. Settled(o)
    BY <1>6 DEF ConfigInv
  <2>2. FlagsBefore(o, current') = FlagsBefore(o, current)
    BY <1>1, <1>2, <1>3, <1>4, FlagsPassed
  <2>3. CASE stage' \in Errors
    BY <2>3 DEF Settled, Errors
  <2>4. CASE stage' \notin Errors
    <3>1. value'[o] = value[o] /\ m_count'[o] = m_count[o]
      BY <1>1, <1>3, <1>6, <2>4, PositionalLeavesAlone DEF Simple, Errors, Stages
    <3> QED
      BY <1>1, <1>5, <1>6, <2>1, <2>2, <2>4, <3>1, SettledMoves
  <2> QED
    BY <2>3, <2>4
<1> QED
  BY <1>1, <1>6, SameFlags DEF ConfigInv

\* Every flag has been read.
LEMMA FinishConfigInv ==
  ASSUME TypeInv, ParserInv, ConfigInv, Finish PROVE ConfigInv'
<1>1. /\ stage = "rest" /\ current >= argc /\ stage' = "parsed"
      /\ UNCHANGED <<command, args, value>>
  BY DEF Finish, values
<1>2. Positions /\ Array
  BY <1>1 DEF ParserInv, Reading
<1>3. \A o : FlagsBefore(o, current) = FlagsOf(o)
  BY <1>1, <1>2 DEF FlagsBefore, FlagsOf, Positions, Array
<1> QED
  BY <1>1, <1>3, SameFlags DEF ConfigInv, Settled

\* Every step keeps ConfigInv.
LEMMA NextConfigInv ==
  ASSUME TypeInv, ParserInv, EntriesInv, KeptInv, ConfigInv, [ParserNext]_parserVars
  PROVE  ConfigInv'
<1>1. CASE Declare \/ CallParse \/ EndOfArguments
  <2>1. /\ UNCHANGED <<command, args, value, m_count, current>>
        /\ stage \in {"declare", "flags"} /\ stage' \in {"declare", "flags", "defaults"} \cup Errors
    BY <1>1 DEF Declare, AddOption, CallParse, EndOfArguments, values, Errors
  <2>2. ASSUME NEW o \in Declared, Simple(o) PROVE Settled(o)'
    <3>1. Settled(o)
      BY <2>2 DEF ConfigInv
    <3> QED
      BY <2>1, <2>2, <3>1, SettledMoves DEF Errors
  <2> QED
    BY <2>1, <2>2, SameFlags DEF ConfigInv
<1>2. CASE EndOfFlags
  <2>1. /\ UNCHANGED <<command, args, value, m_count>> /\ current' = current + 1
        /\ stage = "flags" /\ current # argc /\ Match[argv[current]].kind = "end"
        /\ stage' = "defaults"
    BY <1>2 DEF EndOfFlags, values
  <2>2. /\ current \in Nat /\ argv[current] = args[current] /\ Array
        /\ current - 1 \in Nat /\ current - 1 + 1 = current
    BY <2>1, AtCurrent
  <2>3. Role[current] \notin {"flag", "asks"}
    <3>1. Role[current] = RoleAfter(Role[current - 1], current)
      BY <2>2, RoleRecursion
    <3> QED
      BY <2>1, <2>2, <3>1 DEF RoleAfter, Asks
  <2>4. ASSUME NEW o \in Declared, Simple(o) PROVE Settled(o)'
    <3>1. Settled(o)
      BY <2>4 DEF ConfigInv
    <3>2. FlagsBefore(o, current') = FlagsBefore(o, current)
      BY <2>1, <2>2, <2>3, FlagsPassed
    <3> QED
      BY <2>1, <2>4, <3>1, <3>2, SettledMoves
  <2> QED
    BY <2>1, <2>4, SameFlags DEF ConfigInv
<1>3. CASE Report
  <2>1. UNCHANGED <<command, args>> /\ stage' \in {"done", "option_not_present"}
    BY <1>3 DEF Report
  <2>2. \A o : Settled(o)'
    BY <2>1 DEF Settled
  <2> QED
    BY <2>2 DEF ConfigInv
<1>4. CASE UNCHANGED parserVars
  <2>1. UNCHANGED <<command, args, value, m_count, current, stage>>
    BY <1>4 DEF parserVars, values
  <2> QED
    BY <2>1, SameFlags DEF ConfigInv, Settled, GivenSoFar
<1> QED
  BY <1>1, <1>2, <1>3, <1>4, PlainConfigInv, FlagConfigInv, DefaultsConfigInv, RemainingConfigInv,
     FinishConfigInv DEF ParserNext

\* Options::operator[] finds the option the name was declared for.
LEMMA ReportsAsGiven ==
  ASSUME TypeInv, EntriesInv, ConfigInv, Report PROVE ConfigAsGiven'
<1>1. /\ stage = "parsed" /\ UNCHANGED <<command, args, value, m_options>>
      /\ stage' = "done" => /\ \A n \in command.wanted : m_options[n] # 0
                            /\ config' = [n \in command.wanted |-> value[m_options[n]]]
  BY DEF Report, Present, As, options, values
<1> SUFFICES ASSUME stage' = "done", NEW n \in command.wanted,
                    NotPositional(OptionOf(n)), ~IsContainer(OptionOf(n))
             PROVE  config'[n] = Outcome(OptionOf(n), FlagsOf(OptionOf(n)))
  <2>1. /\ \A k : OptionOf(k)' = OptionOf(k)
        /\ \A k : IsContainer(k)' = IsContainer(k)
        /\ \A k : NotPositional(k)' = NotPositional(k)
    BY <1>1 DEF OptionOf, IsContainer, Option, NotPositional
  <2> QED
    BY <1>1, <2>1, SameFlags DEF ConfigAsGiven, Outcome, NotPositional, Option
<1>2. n \in Names /\ stage \notin Errors
  BY <1>1 DEF TypeInv, Program, Errors
<1>3. m_options[n] = OptionOf(n)
  BY <1>1, <1>2, EntriesAreOptions
<1>4. OptionOf(n) \in Declared
  BY <1>1, <1>2, <1>3, OptionsTyped
<1>5. Simple(OptionOf(n))
  BY <1>2, <1>4 DEF Simple
<1>6. value[OptionOf(n)] = Outcome(OptionOf(n), FlagsOf(OptionOf(n)))
  BY <1>1, <1>4, <1>5 DEF ConfigInv, Settled
<1> QED
  BY <1>1, <1>3, <1>6

\* main() sees, of every option that is neither positional nor a vector, what its last
\* flag says, or its default, whichever of its names was used.
THEOREM ConfigIsAsGiven == ParserSpec => []ConfigAsGiven
<1> DEFINE IInv == TypeInv /\ ParserInv /\ EntriesInv /\ KeptInv /\ ConfigInv
<1>1. ParserInit => IInv /\ ConfigAsGiven
  <2>1. ParserInit => stage # "done"
    BY DEF ParserInit
  <2> QED
    BY <2>1, InitTypeInv, InitParserInv, InitEntriesInv, InitKeptInv, InitConfigInv
    DEF ConfigAsGiven
<1>2. IInv /\ [ParserNext]_parserVars => IInv'
  BY NextTypeInv, NextParserInv, NextEntriesInv, NextKeptInv, NextConfigInv
<1>3. IInv /\ ConfigAsGiven /\ [ParserNext]_parserVars => ConfigAsGiven'
  <2> SUFFICES ASSUME IInv, ConfigAsGiven, [ParserNext]_parserVars PROVE ConfigAsGiven'
    OBVIOUS
  <2>1. CASE Report
    BY <2>1, ReportsAsGiven
  <2>2. CASE UNCHANGED parserVars
    <3>1. UNCHANGED <<command, args, config, stage>>
      BY <2>2 DEF parserVars
    <3>2. /\ \A k : OptionOf(k)' = OptionOf(k)
          /\ \A k : IsContainer(k)' = IsContainer(k)
      BY <3>1 DEF OptionOf, IsContainer, Option
    <3> QED
      BY <3>1, <3>2, SameFlags DEF ConfigAsGiven, Option
  <2>3. CASE ~Report /\ ParserNext
    <3>1. stage' # "done"
      <4>1. CASE Plain \/ Flag \/ Defaults \/ Remaining
        BY <4>1, StageBecomes DEF Errors
      <4>2. CASE Declare \/ CallParse \/ EndOfFlags \/ EndOfArguments \/ Finish
        BY <4>2 DEF Declare, AddOption, CallParse, EndOfFlags, EndOfArguments, Finish
      <4> QED
        BY <2>3, <4>1, <4>2 DEF ParserNext
    <3> QED
      BY <3>1 DEF ConfigAsGiven
  <2> QED
    BY <2>1, <2>2, <2>3
<1> QED
  BY <1>1, <1>2, <1>3, PTL DEF ParserSpec
=============================================================================
