------------------------------- MODULE GetOpt -------------------------------
(***************************************************************************)
(* The command line of a benchmark program, libbench/getopt.c as bench-main *)
(* calls it: getopt_long until it returns -1, and what is left in argv is  *)
(* the problems to benchmark.  Options may stand anywhere; getopt moves the *)
(* other arguments behind them in place, while it still takes options and  *)
(* their arguments from the same array.                                    *)
(*                                                                         *)
(* An argument is a sequence of characters, where a word that the program  *)
(* never takes apart counts as one.  The program name is left out, so that *)
(* argv[1] is the first argument here too.  What the program cannot reach  *)
(* is not modelled: RETURN_IN_ORDER, -W and flags that are set in place.   *)
(***************************************************************************)
EXTENDS Integers, SequencesExt

CONSTANTS CommandLines,  \* the arguments
          LongOptions    \* long_options, the table of getopt_long

\* No two options of the table have one name or one value: bench-main.c has
\* them sorted and switches over the values, where a duplicate is an error.
ASSUME OptionsAssumption ==
    /\ CommandLines \subseteq Seq(Seq(STRING))
    /\ LongOptions \subseteq [name : Seq(STRING), has_arg : {"no", "required", "optional"},
                              val : STRING \ {"?"}]
    /\ \A o, q \in LongOptions : o.name = q.name \/ o.val = q.val => o = q

VARIABLES args,       \* the arguments as they were written
          ordering,   \* "REQUIRE_ORDER" if POSIXLY_CORRECT is set
          argv, optind,
          nextchar,   \* what is left of an option element; NULL is the empty one
          firstNonopt, lastNonopt,
          bottom, top, after,   \* of exchange, and what follows it
          returned,   \* the options returned so far, with optarg
          optPc

optVars == <<args, ordering, argv, optind, nextchar, firstNonopt, lastNonopt,
             bottom, top, after, returned, optPc>>

-----------------------------------------------------------------------------
\* long_options of bench-main.c.
Long(name, has_arg, val) == [name |-> name, has_arg |-> has_arg, val |-> val]
BenchOptions ==
    {Long(<<"accuracy">>, "required", "a"),
     Long(<<"accuracy", "-rounds">>, "required", "405"),
     Long(<<"can-do">>, "required", "d"),
     Long(<<"help">>, "no", "h"),
     Long(<<"info">>, "required", "i"),
     Long(<<"info", "-all">>, "no", "I"),
     Long(<<"paranoid">>, "no", "p"),
     Long(<<"print", "-precision">>, "no", "402"),
     Long(<<"print", "-time-min">>, "no", "400"),
     Long(<<"random-seed">>, "required", "404"),
     Long(<<"report", "-benchmark">>, "no", "320"),
     Long(<<"report", "-mflops">>, "no", "300"),
     Long(<<"report", "-time">>, "no", "310"),
     Long(<<"report", "-verbose">>, "no", "330"),
     Long(<<"speed">>, "required", "s"),
     Long(<<"time", "-min">>, "required", "t"),
     Long(<<"time", "-repeat">>, "required", "r"),
     Long(<<"user-option">>, "required", "o"),
     Long(<<"ver", "bose">>, "optional", "v"),
     Long(<<"ver", "ify">>, "required", "y"),
     Long(<<"ver", "ify", "-rounds">>, "required", "401"),
     Long(<<"ver", "ify", "-tolerance">>, "required", "403")}

\* make_short_options: the options whose value isprint calls a letter.  For a
\* number above 255 isprint is undefined, and the code relies on "no".
Letters == {"a", "d", "h", "i", "I", "p", "s", "t", "r", "o", "v", "y"}
ShortOptions == {o \in LongOptions : o.val \in Letters}

Option(val, optarg) == [val |-> val, optarg |-> optarg]
NoArg == <<>>

argc == Len(args) + 1

\* NONOPTION_P; "-" is no option.
IsNonoption(arg) == ~(Len(arg) > 1 /\ arg[1] = "-")

-----------------------------------------------------------------------------
\* The first call, _getopt_initialize: the sequence of skipped arguments is empty.
OptInit == /\ args \in CommandLines
           /\ ordering \in {"PERMUTE", "REQUIRE_ORDER"}
           /\ argv = args
           /\ optind = 1 /\ firstNonopt = 1 /\ lastNonopt = 1
           /\ nextchar = <<>>
           /\ bottom = 0 /\ top = 0 /\ after = ""
           /\ returned = <<>>
           /\ optPc = "call"

\* A call within an option element, as -v in -pv.
Resume == /\ optPc = "call" /\ nextchar # <<>>
          /\ optPc' = "decode"
          /\ UNCHANGED <<args, ordering, argv, optind, nextchar, firstNonopt, lastNonopt,
                         bottom, top, after, returned>>

\* exchange is entered with the arguments between firstNonopt and lastNonopt
\* and the options between lastNonopt and the next argument.
EnterExchange(next, continue) ==
    /\ bottom' = firstNonopt /\ top' = next /\ after' = continue
    /\ optPc' = "exchange"

\* A call that advances to the next element.
Advance ==
    /\ optPc = "call" /\ nextchar = <<>>
    /\ IF ordering # "PERMUTE"
       THEN optPc' = "dashes" /\ UNCHANGED <<firstNonopt, bottom, top, after>>
       ELSE IF firstNonopt # lastNonopt /\ lastNonopt # optind
       THEN EnterExchange(optind, "skip") /\ UNCHANGED firstNonopt
       ELSE /\ firstNonopt' = IF lastNonopt # optind THEN optind ELSE firstNonopt
            /\ optPc' = "skip" /\ UNCHANGED <<bottom, top, after>>
    /\ UNCHANGED <<args, ordering, argv, optind, nextchar, lastNonopt, returned>>

\* The elements from i on and those from j on, len of them, change places.
Swapped(seq, i, j, len) ==
    [c \in DOMAIN seq |-> CASE c \in i .. i + len - 1 -> seq[c - i + j]
                            [] c \in j .. j + len - 1 -> seq[c - j + i]
                            [] OTHER -> seq[c]]

\* Mutant: the short bottom segment is exchanged with the near end of the top.
NearEnd ==
    /\ optPc = "exchange" /\ top > lastNonopt /\ lastNonopt > bottom
    /\ IF top - lastNonopt > lastNonopt - bottom
       THEN LET len == lastNonopt - bottom
            IN argv' = Swapped(argv, bottom, lastNonopt, len) /\ top' = top - len
               /\ UNCHANGED bottom
       ELSE LET len == top - lastNonopt
            IN argv' = Swapped(argv, bottom, lastNonopt, len) /\ bottom' = bottom + len
               /\ UNCHANGED top
    /\ UNCHANGED <<args, ordering, optind, nextchar, firstNonopt, lastNonopt, after,
                   returned, optPc>>

\* An iteration of exchange: the shorter of the two segments is exchanged with
\* the far end of the longer one and is then in its place.
Exchange ==
    /\ optPc = "exchange" /\ top > lastNonopt /\ lastNonopt > bottom
    /\ IF top - lastNonopt > lastNonopt - bottom
       THEN LET len == lastNonopt - bottom
            IN argv' = Swapped(argv, bottom, top - len, len) /\ top' = top - len
               /\ UNCHANGED bottom
       ELSE LET len == top - lastNonopt
            IN argv' = Swapped(argv, bottom, lastNonopt, len) /\ bottom' = bottom + len
               /\ UNCHANGED top
    /\ UNCHANGED <<args, ordering, optind, nextchar, firstNonopt, lastNonopt, after,
                   returned, optPc>>

ExchangeEnd ==
    /\ optPc = "exchange" /\ ~(top > lastNonopt /\ lastNonopt > bottom)
    /\ firstNonopt' = firstNonopt + optind - lastNonopt
    /\ lastNonopt' = optind
    /\ optPc' = after
    /\ bottom' = 0 /\ top' = 0 /\ after' = ""
    /\ UNCHANGED <<args, ordering, argv, optind, nextchar, returned>>

\* Additional arguments that are no options are skipped.
Skip == /\ optPc = "skip" /\ optind < argc /\ IsNonoption(argv[optind])
        /\ optind' = optind + 1
        /\ UNCHANGED <<args, ordering, argv, nextchar, firstNonopt, lastNonopt,
                       bottom, top, after, returned, optPc>>

SkipEnd == /\ optPc = "skip" /\ ~(optind < argc /\ IsNonoption(argv[optind]))
           /\ lastNonopt' = optind
           /\ optPc' = "dashes"
           /\ UNCHANGED <<args, ordering, argv, optind, nextchar, firstNonopt,
                          bottom, top, after, returned>>

\* "--" is passed like an option, and all that follows it is no option.
Dashes ==
    /\ optPc = "dashes" /\ optind # argc /\ argv[optind] = <<"-", "-">>
    /\ optind' = optind + 1
    /\ IF firstNonopt # lastNonopt /\ lastNonopt # optind + 1
       THEN EnterExchange(optind + 1, "rest") /\ UNCHANGED firstNonopt
       ELSE /\ firstNonopt' = IF firstNonopt = lastNonopt THEN optind + 1 ELSE firstNonopt
            /\ optPc' = "rest" /\ UNCHANGED <<bottom, top, after>>
    /\ UNCHANGED <<args, ordering, argv, nextchar, lastNonopt, returned>>

Rest == /\ optPc = "rest"
        /\ lastNonopt' = argc /\ optind' = argc
        /\ optPc' = "stop"
        /\ UNCHANGED <<args, ordering, argv, nextchar, firstNonopt, bottom, top, after, returned>>

NoDashes == /\ optPc = "dashes" /\ ~(optind # argc /\ argv[optind] = <<"-", "-">>)
            /\ optPc' = "stop"
            /\ UNCHANGED <<args, ordering, argv, optind, nextchar, firstNonopt, lastNonopt,
                           bottom, top, after, returned>>

\* The end of the options, -1, with optind back at the arguments skipped, or
\* the next option element without its "-" or "--".
Stop == /\ optPc = "stop" /\ (optind # argc => IsNonoption(argv[optind]))
        /\ optind' = IF optind = argc /\ firstNonopt # lastNonopt THEN firstNonopt ELSE optind
        /\ optPc' = "done"
        /\ UNCHANGED <<args, ordering, argv, nextchar, firstNonopt, lastNonopt,
                       bottom, top, after, returned>>

Element == /\ optPc = "stop" /\ optind # argc /\ ~IsNonoption(argv[optind])
           /\ nextchar' = SubSeq(argv[optind], IF argv[optind][2] = "-" THEN 3 ELSE 2,
                                 Len(argv[optind]))
           /\ optPc' = "decode"
           /\ UNCHANGED <<args, ordering, argv, optind, firstNonopt, lastNonopt,
                          bottom, top, after, returned>>

\* getopt returns to bench-main, which calls it again.
Return(val, optarg, next, chars) ==
    /\ returned' = Append(returned, Option(val, optarg))
    /\ optind' = next /\ nextchar' = chars
    /\ optPc' = "call"
    /\ UNCHANGED <<args, ordering, argv, firstNonopt, lastNonopt, bottom, top, after>>

\* The loop over the long options: an exact match ends it, an abbreviation is
\* ambiguous if two matches differ in more than their names.
NameOf(chars) == SelectInSeq(chars, LAMBDA c : c = "=")
Exact(name) == {o \in LongOptions : o.name = name}
Matches(name) == {o \in LongOptions : IsPrefix(name, o.name)}
Matched(name) ==
    CASE Exact(name) # {} -> Exact(name)
      [] Exact(name) = {} /\ \E o, q \in Matches(name) :
                                  o.has_arg # q.has_arg \/ o.val # q.val -> {}
      [] OTHER -> Matches(name)

LongOption ==
    /\ optPc = "decode" /\ argv[optind][2] = "-"
    /\ LET nameend == NameOf(nextchar)
           found == Matched(IF nameend = 0 THEN nextchar ELSE SubSeq(nextchar, 1, nameend - 1))
       IN \/ found = {} /\ Return("?", NoArg, optind + 1, <<>>)
          \/ \E o \in found :
                 CASE nameend # 0 ->
                          IF o.has_arg # "no"
                          THEN Return(o.val, SubSeq(nextchar, nameend + 1, Len(nextchar)),
                                      optind + 1, <<>>)
                          ELSE Return("?", NoArg, optind + 1, <<>>)
                   [] nameend = 0 /\ o.has_arg = "required" ->
                          IF optind + 1 < argc
                          THEN Return(o.val, argv[optind + 1], optind + 2, <<>>)
                          ELSE Return("?", NoArg, optind + 1, <<>>)
                   [] OTHER -> Return(o.val, NoArg, optind + 1, <<>>)

\* The option takes the rest of its element, or the next one, as its argument.
ShortArgument(c, has_arg, rest, next) ==
    CASE has_arg = "optional" -> Return(c, rest, IF rest # <<>> THEN next + 1 ELSE next, <<>>)
      [] has_arg = "required" /\ rest # <<>> -> Return(c, rest, next + 1, <<>>)
      [] has_arg = "required" /\ rest = <<>> ->
             IF next = argc THEN Return("?", NoArg, next, <<>>)
                            ELSE Return(c, argv[next], next + 1, <<>>)

\* optind is incremented at the last character of an element.
ShortOption ==
    /\ optPc = "decode" /\ argv[optind][2] # "-"
    /\ LET c == Head(nextchar)
           rest == Tail(nextchar)
           next == IF rest = <<>> THEN optind + 1 ELSE optind
           option == {o \in ShortOptions : o.val = c}
       IN \/ option = {} /\ Return("?", NoArg, next, rest)
          \/ \E o \in option : IF o.has_arg = "no" THEN Return(c, NoArg, next, rest)
                               ELSE ShortArgument(c, o.has_arg, rest, next)

OptNext == \/ Resume \/ Advance \/ Exchange \/ ExchangeEnd \/ Skip \/ SkipEnd
           \/ Dashes \/ NoDashes \/ Rest \/ Stop \/ Element \/ LongOption \/ ShortOption
OptSpec == OptInit /\ [][OptNext]_optVars

-----------------------------------------------------------------------------
\* What the arguments mean, read from the left without moving any of them.
\* An unknown option, one that lacks its argument or has one it must not have,
\* and an abbreviation of several options are "?".
HasArg(val) ==
    IF \E o \in ShortOptions : o.val = val THEN (CHOOSE o \in ShortOptions : o.val = val).has_arg
                                            ELSE "?"

\* An element of short options goes on to the first that takes an argument.
ShortMeaning(line, i) ==
    LET chars == line[i]
        has(c) == HasArg(chars[c])
        takers == {c \in 2 .. Len(chars) : has(c) \in {"required", "optional"}}
        last == IF takers = {} THEN Len(chars) ELSE Min(takers)
        attached == SubSeq(chars, last + 1, Len(chars))
        takes == IF has(last) = "required" /\ last = Len(chars) /\ i < Len(line) THEN 1 ELSE 0
        meant(c) == CASE has(c) = "?" -> Option("?", NoArg)
                      [] has(c) = "no" -> Option(chars[c], NoArg)
                      [] has(c) = "optional" \/ (has(c) = "required" /\ last < Len(chars)) ->
                             Option(chars[c], attached)
                      [] has(c) = "required" /\ last = Len(chars) ->
                             IF takes = 1 THEN Option(chars[c], line[i + 1]) ELSE Option("?", NoArg)
    IN [options |-> [c \in 1 .. last - 1 |-> meant(c + 1)], takes |-> takes]

LongMeaning(line, i) ==
    LET chars == SubSeq(line[i], 3, Len(line[i]))
        equals == NameOf(chars)
        name == IF equals = 0 THEN chars ELSE SubSeq(chars, 1, equals - 1)
        means(o) == \/ o.name = name
                    \/ (Exact(name) = {} /\ Matches(name) = {o})
        takes == IF equals = 0 /\ i < Len(line)
                    /\ \E o \in LongOptions : means(o) /\ o.has_arg = "required"
                 THEN 1 ELSE 0
        right(o) == CASE o.has_arg = "no" -> equals = 0
                      [] o.has_arg = "optional" -> TRUE
                      [] o.has_arg = "required" -> equals # 0 \/ takes = 1
        optarg == IF equals # 0 THEN SubSeq(chars, equals + 1, Len(chars))
                  ELSE IF takes = 1 THEN line[i + 1] ELSE NoArg
    IN [options |-> IF \E o \in LongOptions : means(o) /\ right(o)
                    THEN <<Option((CHOOSE o \in LongOptions : means(o)).val, optarg)>>
                    ELSE <<Option("?", NoArg)>>,
        takes |-> takes]

ElementMeaning(line, i) == IF line[i][2] = "-" THEN LongMeaning(line, i) ELSE ShortMeaning(line, i)

\* What the arguments from the i-th on mean.
MeaningFrom(line, order) ==
    LET from[i \in 1 .. Len(line) + 1] ==
            CASE i > Len(line) -> [options |-> <<>>, others |-> <<>>]
              [] i <= Len(line) /\ line[i] = <<"-", "-">> ->
                     [options |-> <<>>, others |-> SubSeq(line, i + 1, Len(line))]
              [] i <= Len(line) /\ IsNonoption(line[i]) ->
                     IF order = "PERMUTE"
                     THEN [options |-> from[i + 1].options,
                           others |-> <<line[i]>> \o from[i + 1].others]
                     ELSE [options |-> <<>>, others |-> SubSeq(line, i, Len(line))]
              [] OTHER ->
                     LET m == ElementMeaning(line, i)
                     IN [options |-> m.options \o from[i + 1 + m.takes].options,
                         others |-> from[i + 1 + m.takes].others]
    IN from
Meaning == MeaningFrom(args, ordering)[1]

\* The program gets the options it was given, in their order and each with its
\* own argument, and afterwards finds in argv from optind on all the other
\* arguments, the problems to benchmark, in their order (getopt.c:474-475).
OptionsInOrder ==
    optPc = "done" => /\ returned = Meaning.options
                      /\ SubSeq(argv, optind, Len(argv)) = Meaning.others
=============================================================================
