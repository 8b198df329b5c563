---------------------------- MODULE ColorArgument ----------------------------
(***************************************************************************)
(* What =setcolor takes for a color: parseLeaderboardColorArgument and     *)
(* formatHexColor of the leaderboard's color-utils, with the conversions   *)
(* of JavaScript they are built from.                                      *)
(*                                                                         *)
(* An input is a sequence of words, and a word a sequence of characters,   *)
(* of which only hexadecimal digits and the minus sign are told apart.     *)
(* What is stripped before it matters (#, commas, parentheses) is left     *)
(* out, and so are the 0x prefix and the words RANDOM and DEFAULT.  The    *)
(* bases, the width of a hexadecimal color and the size of a word of       *)
(* memory are parameters, so that small ones can be explored in full.      *)
(***************************************************************************)
EXTENDS Integers, Sequences

CONSTANTS
    Hex,        \* 16
    Decimal,    \* 10
    Width,      \* digits of a hexadecimal color: 6
    Channel,    \* values of a channel: 256
    NamedColor, \* colors.json, from inputs to colors
    NaN,
    NotAColor   \* null

ASSUME BasesAssumption ==
    /\ Hex \in Nat /\ Decimal \in 2..Hex
    /\ Width \in Nat \ {0} /\ Channel \in Nat \ {0, 1}
    /\ NaN \notin Int

MaxColor == Channel * Channel * Channel - 1
AnyColor == 0..MaxColor

Digit == 0..(Hex - 1)
Minus == Hex
Other == Hex + 1
Word  == Seq(0..Other)

------------------------------------------------------------------------------
(***************************************************************************)
(* JavaScript.                                                             *)
(***************************************************************************)

Value(digits, base) ==
    LET Read[i \in 0..Len(digits)] == IF i = 0 THEN 0 ELSE Read[i - 1] * base + digits[i]
    IN  Read[Len(digits)]

\* How many characters parseInt reads of a word without its sign.
Digits(word, base) ==
    CHOOSE n \in 0..Len(word) :
        /\ \A i \in 1..n : word[i] < base
        /\ n = Len(word) \/ word[n + 1] >= base

Unsigned(word, base) ==
    LET n == Digits(word, base) IN IF n = 0 THEN NaN ELSE Value(SubSeq(word, 1, n), base)

\* Number.parseInt
ParseInt(word, base) ==
    IF word # <<>> /\ word[1] = Minus
    THEN LET n == Unsigned(Tail(word), base) IN IF n = NaN THEN NaN ELSE -n
    ELSE Unsigned(word, base)

\* A number shifted to the left by the channels that unit stands for, as <<
\* does it: NaN is 0, and the result has 32 bits, of which the first is the
\* sign.  A channel has 8.
Shifted(n, unit) ==
    LET word == Channel * Channel * Channel * Channel
        bits == IF n = NaN THEN 0 ELSE (n * unit) % word
    IN  IF 2 * bits < word THEN bits ELSE bits - word

\* What is left of a number when its last k digits are taken off.
Quotients(n, base) ==
    LET Left[k \in 0..(n + 1)] == IF k = 0 THEN n ELSE Left[k - 1] \div base
    IN  Left

Written(n, base) ==
    LET left   == Quotients(n, base)
        length == CHOOSE k \in 1..(n + 1) : left[k] = 0 /\ \A j \in 1..(k - 1) : left[j] # 0
    IN  [i \in 1..length |-> left[length - i] % base]

\* MaxColor is written with Width digits.
ASSUME WidthAssumption == Len(Written(MaxColor, Hex)) = Width

PadStart(word, length) ==
    [i \in 1..(length - Len(word)) |-> 0] \o word

------------------------------------------------------------------------------
(***************************************************************************)
(* color-utils.ts                                                          *)
(***************************************************************************)

\* resolveColor: the check at its end.
InRange(n) == IF n \in AnyColor THEN n ELSE NotAColor

\* resolveColor of an array.
ResolveRgb(r, g, b) ==
    IF b = NaN THEN NotAColor ELSE InRange(Shifted(r, Channel * Channel) + Shifted(g, Channel) + b)

\* resolveColor of a string: names first, then what padStart makes a
\* hexadecimal color of.
ResolveText(text) ==
    IF text \in DOMAIN NamedColor THEN NamedColor[text]
    ELSE IF Len(text) \in 1..Width /\ \A i \in 1..Len(text) : text[i] \in Digit
         THEN InRange(Value(text, Hex))
         ELSE NotAColor

\* No name is taken for a hexadecimal color: "DC" alone has only their
\* digits, and it is too short.
ASSUME NamesAssumption ==
    \A text \in DOMAIN NamedColor :
        ~(Len(text) = Width /\ \A i \in 1..Width : text[i] \in Digit)

\* The words with "_" between them.
Compact(words) ==
    LET Joined[n \in 1..Len(words)] ==
            IF n = 1 THEN words[1] ELSE Joined[n - 1] \o <<Other>> \o words[n]
    IN  Joined[Len(words)]

\* MUTANT of IsNumber: whatever starts with a digit is a decimal number.
StartsLikeNumber(text) == ParseInt(text, Decimal) # NaN
\* A text as long as a hexadecimal color is none other.
IsNumber(text) == Len(text) # Width /\ ParseInt(text, Decimal) # NaN

\* parseLeaderboardColorArgument
ReadColor(words) ==
    LET text == Compact(words) IN
    IF Len(words) = 3 /\ ParseInt(words[1], Decimal) # NaN
    THEN ResolveRgb(ParseInt(words[1], Decimal), ParseInt(words[2], Decimal), ParseInt(words[3], Decimal))
    ELSE IF IsNumber(text) THEN InRange(ParseInt(text, Decimal)) ELSE ResolveText(text)

\* formatHexColor
FormatHexColor(color) == PadStart(Written(color, Hex), Width)

Red(color)   == color \div (Channel * Channel)
Green(color) == (color \div Channel) % Channel
Blue(color)  == color % Channel

\* What somebody who sees the color may type: what the answer to =setcolor
\* prints, or the three channels.
Spellings(color) ==
    {<<FormatHexColor(color)>>,
     <<Written(Red(color), Decimal), Written(Green(color), Decimal),
       Written(Blue(color), Decimal)>>}
==============================================================================
