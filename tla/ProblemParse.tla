---------------------------- MODULE ProblemParse ----------------------------
(***************************************************************************)
(* problem_parse() of libbench/problem.c, character by character: letters  *)
(* for the kind of the transform, the sizes of its dimensions, and perhaps *)
(* the sizes of a vector of transforms.                                    *)
(***************************************************************************)
EXTENDS Integers, Sequences

CONSTANTS Texts,      \* sequences of characters
          MaxRank,    \* MAX_RANK
          NumberMax   \* INT_MAX; the product of the sizes is unsigned

ASSUME TextsAssumption == Texts \subseteq Seq(STRING)
ASSUME MaxRankAssumption == MaxRank \in Nat \ {0}
ASSUME NumberMaxAssumption == NumberMax \in Nat

VARIABLES text, at,   \* the text and the position of s in it
          goal,       \* the label in the code, "done", or "assertion"
          n,          \* the number under way
          problem

parseVars == <<text, at, goal, n, problem>>

UIntSize == 2 * (NumberMax + 1)
WrapNumber(i) == ((i + NumberMax + 1) % UIntSize) - (NumberMax + 1)

\* *s, the character at the end of the text being the terminating zero.
Char == IF at <= Len(text) THEN text[at] ELSE "end"

DigitChars == <<"0", "1", "2", "3", "4", "5", "6", "7", "8", "9">>
IsDigit(c) == \E d \in 1 .. 10 : DigitChars[d] = c
DigitValue(c) == (CHOOSE d \in 1 .. 10 : DigitChars[d] = c) - 1
IsSeparator(c) == c \in {"x", "X", "*", ","}
StartsVector(c) == c \in {"-", "+", "v", "V"}

\* What the letters say: the field and its value.
Says(field, value, chars) == {[char |-> c, field |-> field, value |-> value] : c \in chars}
Flags == Says("in_place", 1, {"i", "I"}) \cup Says("in_place", 0, {"o", "O"})
         \cup Says("split", 1, {"/"})
         \cup Says("sign", -1, {"f", "F", "-"}) \cup Says("sign", 1, {"b", "B", "+"})
         \cup Says("kind", "real", {"r", "R"}) \cup Says("kind", "complex", {"c", "C"})
IsFlag(c) == \E f \in Flags : f.char = c

-----------------------------------------------------------------------------
ParseInit == /\ text \in Texts /\ at = 1
             /\ goal = "L1" /\ n = 0
             /\ problem = [kind |-> "complex", sign |-> -1, in_place |-> 0, split |-> 0,
                           n |-> <<>>, size |-> 1, vn |-> <<>>, vsize |-> 1]

Letter == /\ goal = "L1"
          /\ \E f \in Flags : /\ f.char = Char
                              /\ problem' = [problem EXCEPT ![f.field] = f.value]
          /\ at' = at + 1
          /\ UNCHANGED <<text, goal, n>>

\* A number begins, with BENCH_ASSERT(isdigit(*s)).
Begin(label, position) ==
    /\ at' = position /\ n' = 0
    /\ goal' = IF position <= Len(text) /\ IsDigit(text[position]) THEN label ELSE "assertion"

Sizes == /\ goal = "L1" /\ ~IsFlag(Char)
         /\ Begin("L2", at)
         /\ UNCHANGED <<text, problem>>

Digit == /\ goal \in {"L2", "L4"} /\ IsDigit(Char)
         /\ n' = WrapNumber(10 * n + DigitValue(Char))
         /\ at' = at + 1
         /\ UNCHANGED <<text, goal, problem>>

\* The number is stored as the next size, and the products are taken.
Stored(which, product) ==
    [problem EXCEPT ![which] = Append(@, n), ![product] = (@ * n) % UIntSize]

\* Mutant: the assertion lets MAX_RANK sizes through.
OneTooMany(sizes) == Len(sizes) > MaxRank

TooMany(sizes) == Len(sizes) >= MaxRank

\* After the digits: BENCH_ASSERT(n > 0), the store, and the rank is checked
\* after it; then another number, the vector part, or the end.
Number(label, which, product) ==
    /\ goal = label /\ ~IsDigit(Char)
    /\ UNCHANGED text
    /\ IF n <= 0 THEN goal' = "assertion" /\ UNCHANGED <<at, n, problem>>
       ELSE /\ problem' = Stored(which, product)
            /\ IF TooMany(problem'[which]) THEN goal' = "assertion" /\ UNCHANGED <<at, n>>
               ELSE IF IsSeparator(Char) THEN Begin(label, at + 1)
               ELSE IF label = "L2" /\ StartsVector(Char) THEN Begin("L4", at + 1)
               ELSE goal' = "done" /\ UNCHANGED <<at, n>>

Size == Number("L2", "n", "size")
VectorSize == Number("L4", "vn", "vsize")

ParseNext == Letter \/ Sizes \/ Digit \/ Size \/ VectorSize

ParseSpec == ParseInit /\ [][ParseNext]_parseVars

-----------------------------------------------------------------------------
\* How a text is to be read: a stretch of it is as long as its characters are
\* of the right kind, and numbers are what stands between two separators.
FlagChars == {f.char : f \in Flags}
NumberChars == {DigitChars[d] : d \in 1 .. 10} \cup {"x", "X", "*", ","}

Stretch(from, chars) ==
    CHOOSE to \in from - 1 .. Len(text) :
        /\ \A c \in from .. to : text[c] \in chars
        /\ to < Len(text) => text[to + 1] \notin chars

FlagsEnd == Stretch(1, FlagChars)
SizesEnd == Stretch(FlagsEnd + 1, NumberChars)
HasVector == SizesEnd < Len(text) /\ StartsVector(text[SizesEnd + 1])
VectorEnd == Stretch(SizesEnd + 2, NumberChars)

\* What the last letter of the first ones that is about a field says of it.
LastFlag(field, default, to) ==
    LET said == {c \in 1 .. to : \E f \in Flags : f.char = text[c] /\ f.field = field}
        last == CHOOSE c \in said : \A d \in said : d <= c
    IN IF said = {} THEN default ELSE (CHOOSE f \in Flags : f.char = text[last]).value

\* What stands between the separators of a stretch, up to each of its positions.
Extended(fields, char) ==
    IF IsSeparator(char) THEN Append(fields, <<>>)
                         ELSE [fields EXCEPT ![Len(fields)] = Append(@, char)]
FieldsUpTo(from, to) ==
    LET F[c \in from - 1 .. to] == IF c < from THEN <<<<>>>> ELSE Extended(F[c - 1], text[c])
    IN F
Fields(from, to) == FieldsUpTo(from, to)[to]

ValueOf(digits) ==
    LET V[d \in 0 .. Len(digits)] == IF d = 0 THEN 0 ELSE 10 * V[d - 1] + DigitValue(digits[d])
    IN V[Len(digits)]
ValuesOf(fields) == [f \in DOMAIN fields |-> ValueOf(fields[f])]
TotalOf(sizes) == LET T[d \in 0 .. Len(sizes)] == IF d = 0 THEN 1 ELSE T[d - 1] * sizes[d]
                  IN T[Len(sizes)]

SizeFields == Fields(FlagsEnd + 1, SizesEnd)
VectorFields == IF HasVector THEN Fields(SizesEnd + 2, VectorEnd) ELSE <<>>
AllFields == {SizeFields[f] : f \in DOMAIN SizeFields}
             \cup {VectorFields[f] : f \in DOMAIN VectorFields}

WellFormed == /\ \A f \in AllFields : f # <<>> /\ ValueOf(f) > 0
              /\ Len(SizeFields) < MaxRank /\ Len(VectorFields) < MaxRank
Fits == /\ \A f \in AllFields : ValueOf(f) <= NumberMax
        /\ TotalOf(ValuesOf(SizeFields)) < UIntSize
        /\ TotalOf(ValuesOf(VectorFields)) < UIntSize

\* A text gives a problem exactly if all its numbers are there, positive, and
\* fewer than MAX_RANK, and then the problem is the one the text describes,
\* the last of two contradicting letters counting: provided that the numbers
\* fit in an int and their products in an unsigned, which the code does not
\* look at.  No size is stored beyond the arrays, whatever the text.
ParsesAsWritten ==
    /\ Len(problem.n) <= MaxRank /\ Len(problem.vn) <= MaxRank
    /\ (goal \in {"done", "assertion"} /\ Fits) => (goal = "done" <=> WellFormed)
    /\ (goal = "done" /\ Fits) =>
           problem = [kind |-> LastFlag("kind", "complex", FlagsEnd),
                      sign |-> LastFlag("sign", -1, FlagsEnd),
                      in_place |-> LastFlag("in_place", 0, FlagsEnd),
                      split |-> LastFlag("split", 0, FlagsEnd),
                      n |-> ValuesOf(SizeFields),
                      size |-> TotalOf(ValuesOf(SizeFields)),
                      vn |-> ValuesOf(VectorFields),
                      vsize |-> TotalOf(ValuesOf(VectorFields))]
=============================================================================
