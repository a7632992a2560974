------------------------------ MODULE Checkers ------------------------------
(***************************************************************************)
(* How the judge compares a program's output with its own (dmoj/checkers), *)
(* and how it reads the exit status of a checker program (dmoj/contrib).   *)
(*                                                                         *)
(* A text is a sequence over Chars, of which "_" stands for the blanks and *)
(* "n" for the line ends.  A behaviour writes the two texts a character at *)
(* a time, in any order; the properties are about every pair it gets to.   *)
(***************************************************************************)
EXTENDS Integers, Sequences, FiniteSets

CONSTANTS
    Letters,
    JudgeLength, ProcessLength,     \* bounds of the texts
    Value                           \* bound of a case's points

Chars == Letters \cup {"_", "n"}

VARIABLES
    judge, process,     \* judge_output and process_output
    helper,             \* a checker program that ended, or NoHelper
    floats              \* two numbers to compare

vars == <<judge, process, helper, floats>>

NoHelper == [code |-> -1]

\* Its exit status and the numbers it printed: points for testlib, part/whole
\* for coci; -1 when it printed none.
Helpers == [code : 0 .. 8, part : -1 .. Value + 1, whole : 1 .. Value + 1, value : 0 .. Value]

\* Numbers in units of 1/10: a singleton, or {} for NaN.  The precision gives
\* epsilon, 1 or 1/10.
Range10 == -20 .. 20
Float == {{}} \cup {{x} : x \in Range10}
NoFloats == [process |-> {}, judge |-> {}, precision |-> 0]
Floats == [process : Float, judge : Float, precision : {0, 1}]

Init ==
    /\ judge = <<>> /\ process = <<>>
    /\ \/ helper \in Helpers \cup {NoHelper} /\ floats = NoFloats
       \/ helper = NoHelper /\ floats \in Floats

Write ==
    /\ helper = NoHelper /\ floats = NoFloats
    /\ \E c \in Chars :
         \/ Len(judge) < JudgeLength /\ judge' = Append(judge, c) /\ UNCHANGED process
         \/ Len(process) < ProcessLength /\ process' = Append(process, c) /\ UNCHANGED judge
    /\ UNCHANGED <<helper, floats>>

Spec == Init /\ [][Write]_vars

-------------------------------------------------------------------------------
(* Texts *)

White(c) == c \in {"_", "n"}

Least(S) == CHOOSE x \in S : \A y \in S : x <= y

Sorted(S) ==
    [k \in 1 .. Cardinality(S) |-> CHOOSE x \in S : Cardinality({y \in S : y < x}) = k - 1]

\* The first position from i on that is not white, or is.
SkipWhite(s, i) == Least({k \in i .. Len(s) : ~White(s[k])} \cup {Len(s) + 1})
SkipBlack(s, i) == Least({k \in i .. Len(s) : White(s[k])} \cup {Len(s) + 1})

\* bytes.split
Tokens(s) ==
    LET starts == Sorted({k \in DOMAIN s : ~White(s[k]) /\ (k = 1 \/ White(s[k - 1]))})
    IN  [k \in DOMAIN starts |-> SubSeq(s, starts[k], SkipBlack(s, starts[k]) - 1)]

\* re.split at line ends
Lines(s) ==
    LET ends == Sorted({k \in DOMAIN s : s[k] = "n"} \cup {0, Len(s) + 1})
    IN  [k \in 1 .. Len(ends) - 1 |-> SubSeq(s, ends[k] + 1, ends[k + 1] - 1)]

NonEmpty(lines) ==
    LET kept == Sorted({k \in DOMAIN lines : lines[k] # <<>>})
    IN  [k \in DOMAIN kept |-> lines[kept[k]]]

RStrip(l) == SubSeq(l, 1, Cardinality({k \in DOMAIN l : \E m \in k .. Len(l) : ~White(l[m])}))
Strip(l) == SubSeq(RStrip(l), SkipWhite(RStrip(l), 1), Len(RStrip(l)))

\* Two sequences are equal once they are sorted.
SameBag(a, b) ==
    /\ Len(a) = Len(b)
    /\ \A x \in {a[k] : k \in DOMAIN a} :
         Cardinality({k \in DOMAIN a : a[k] = x}) = Cardinality({k \in DOMAIN b : b[k] = x})

-------------------------------------------------------------------------------
(* The checkers *)

\* skip_spaces, from i to k: 2 for a line end, 1 for blanks, 0 for nothing.
Saw(s, i, k) ==
    IF \E m \in i .. k - 1 : s[m] = "n" THEN 2 ELSE IF k > i THEN 1 ELSE 0

\* Any white space will do between tokens.
StandardBlanks(j, p) ==
    LET from[x \in 1 .. Len(j) + 1] == [y \in 1 .. Len(p) + 1 |->
            LET js == SkipWhite(j, x)
                ps == SkipWhite(p, y)
                size == SkipBlack(j, js) - js
            IN  IF js > Len(j) \/ ps > Len(p)
                THEN js > Len(j) /\ ps > Len(p)
                ELSE /\ ps + size <= Len(p) + 1
                     /\ SubSeq(j, js, js + size - 1) = SubSeq(p, ps, ps + size - 1)
                     /\ from[js + size][ps + size]]
    IN  from[SkipWhite(j, 1)][SkipWhite(p, 1)]

\* check_standard: the loop over the judge's tokens.
Standard(j, p) ==
    LET from[x \in 1 .. Len(j) + 1] == [y \in 1 .. Len(p) + 1 |->
            LET js == SkipWhite(j, x)
                ps == SkipWhite(p, y)
                size == SkipBlack(j, js) - js
            IN  IF js > Len(j) \/ ps > Len(p)
                THEN js > Len(j) /\ ps > Len(p)
                ELSE /\ Saw(j, x, js) = Saw(p, y, ps)
                     /\ ps + size <= Len(p) + 1
                     /\ SubSeq(j, js, js + size - 1) = SubSeq(p, ps, ps + size - 1)
                     /\ from[js + size][ps + size]]
    IN  from[SkipWhite(j, 1)][SkipWhite(p, 1)]

SortedLines(j, p) ==
    LET lines(s) == [k \in DOMAIN NonEmpty(Lines(s)) |-> Tokens(NonEmpty(Lines(s))[k])]
    IN  SameBag(lines(j), lines(p))

SortedTokens(j, p) == SameBag(Tokens(j), Tokens(p))

RStripped(j, p) ==
    LET stripped(s) == [k \in DOMAIN Lines(s) |-> RStrip(Lines(s)[k])]
    IN  stripped(j) = stripped(p)

Identical(j, p) == j = p

\* linecount and linematches, in units of 1/(number of lines) of the case's
\* points; NotPassed is False.
NotPassed == [passed |-> FALSE, points |-> 0, of |-> 1]

LineCount(j, p) ==
    LET jl == NonEmpty(Lines(j))
        pl == NonEmpty(Lines(p))
        count == Cardinality({k \in DOMAIN pl : Strip(jl[k]) = Strip(pl[k])})
    IN  IF Len(pl) > Len(jl) THEN NotPassed
        ELSE IF jl = <<>> THEN [passed |-> TRUE, points |-> 1, of |-> 1]
        ELSE [passed |-> count = Len(jl), points |-> count, of |-> Len(jl)]

\* With a point for each line.
LineMatches(j, p) ==
    LET jl == NonEmpty(Lines(j))
        pl == NonEmpty(Lines(p))
        count == Cardinality({k \in DOMAIN pl : jl[k] = pl[k]})
    IN  IF Len(pl) # Len(jl) THEN NotPassed
        ELSE [passed |-> count > 0, points |-> count, of |-> Len(jl)]

\* 1/epsilon, and the distance of two numbers.
Inverse(n) == IF n.precision = 0 THEN 1 ELSE 10
Distance(x, y) == IF x < y THEN y - x ELSE x - y

\* verify_absolute, verify_relative, verify_default: NaN is like no number.
Absolute(n) ==
    \E p \in n.process, j \in n.judge : Inverse(n) * Distance(p, j) <= 10

Relative(n) ==
    \E p \in n.process, j \in n.judge :
        LET ends == {j * (Inverse(n) - 1), j * (Inverse(n) + 1)}
        IN  \E low, high \in ends : low <= p * Inverse(n) /\ p * Inverse(n) <= high

Tolerance(n) ==
    \E p \in n.process, j \in n.judge :
        \/ Inverse(n) * Distance(p, j) <= 10
        \/ /\ Inverse(n) * Distance(j, 0) >= 10
           /\ Inverse(n) * Distance(j, p) <= Distance(j, 0)

-------------------------------------------------------------------------------
(* Checker programs *)

InternalError == [passed |-> FALSE, points |-> -1]
Verdict(ok, points) == [passed |-> ok, points |-> points]

\* parse_helper_file_error; a program that ended in peace gives no verdict,
\* which is an error as well.
HelperError == InternalError

Default(h) ==
    CASE h.code = 0 -> Verdict(TRUE, h.value)
      [] h.code = 1 -> Verdict(FALSE, 0)
      [] OTHER -> HelperError

Testlib(h) ==
    CASE h.code \in {0, 1} -> Default(h)
      [] h.code = 7 -> IF h.part \in 0 .. h.value THEN Verdict(TRUE, h.part) ELSE InternalError
      [] h.code = 2 -> Verdict(FALSE, 0)
      [] OTHER -> HelperError

\* The fraction part/whole, in units of 1/whole.
Coci(h) ==
    IF h.code # 7 THEN Testlib(h)
    ELSE IF h.part \in 0 .. h.whole THEN Verdict(TRUE, h.part * h.value)
    ELSE InternalError

-------------------------------------------------------------------------------
(* Properties *)

\* The standard checker compares tokens, and whether the white space between
\* two of them ends a line; nothing else of the white space matters.
StandardIsTokens ==
    LET starts(s) == Sorted({k \in DOMAIN s : ~White(s[k]) /\ (k = 1 \/ White(s[k - 1]))})
        newLine(s) == [k \in 2 .. Len(starts(s)) |->
                          \E m \in starts(s)[k - 1] .. starts(s)[k] : s[m] = "n"]
    IN  Standard(judge, process) <=>
            Tokens(judge) = Tokens(process) /\ newLine(judge) = newLine(process)

\* What a strict checker accepts a tolerant one accepts too; the default mode of
\* floats is no stricter than either of the other two.
StricterAcceptsLess ==
    /\ Identical(judge, process) => RStripped(judge, process)
    /\ RStripped(judge, process) => Standard(judge, process)
    /\ Standard(judge, process) => SortedTokens(judge, process)
    /\ SortedLines(judge, process) => SortedTokens(judge, process)
    /\ LineMatches(judge, process).passed => LineCount(judge, process).points > 0
    /\ Absolute(floats) \/ Relative(floats) => Tolerance(floats)

\* No checker gives more points than the case is worth, and no number that a
\* checker program prints makes it.
PointsWithinValue ==
    /\ \A r \in {LineCount(judge, process), LineMatches(judge, process)} :
         r.points <= r.of /\ (r.passed => r.points > 0)
    /\ helper # NoHelper =>
         /\ Default(helper).points <= helper.value
         /\ Testlib(helper).points <= helper.value
         /\ Coci(helper).points <= helper.value * (IF helper.code = 7 THEN helper.whole ELSE 1)

\* The checkers agree with what they are documented to compare, with one
\* another, and with the value of the case.
CheckersSound == StandardIsTokens /\ StricterAcceptsLess /\ PointsWithinValue
===============================================================================
