----------------------------- MODULE ReadValue -----------------------------
(***************************************************************************)
(* read_value (lib/read.c): the line in which the user types a number, and *)
(* what the number is read as.                                             *)
(*                                                                         *)
(* buffer holds the n characters typed so far.  base need not be kept: it  *)
(* is recomputed from the buffer after every key.                          *)
(***************************************************************************)
EXTENDS Integers, Sequences, SequencesExt

CONSTANTS
    WORD,               \* bits of uintptr_t
    UnitShift         \* what a suffix K, P, M, G or T adds to the shift

Size     == 2^WORD
Numbers  == 0 .. Size - 1
Units == DOMAIN UnitShift

ASSUME ReadValueAssumption ==
    /\ WORD \in Nat /\ Size \in Nat \ {0}
    /\ Units \subseteq {"K", "P", "M", "G", "T"}
    /\ \A c \in Units : UnitShift[c] \in 0 .. WORD - 1

Decimals == {"0", "1", "2", "3", "4", "5", "6", "7", "8", "9"}
Letters  == {"a", "b", "c", "d", "e", "f"}
Chars    == Decimals \cup Letters \cup {"x"} \cup Units

Line(width) == [buffer |-> <<>>, width |-> width, got_suffix |-> FALSE]

IsHex(buffer) == Len(buffer) >= 2 /\ buffer[1] = "0" /\ buffer[2] = "x"

-----------------------------------------------------------------------------
(***************************************************************************)
(* One key.  A suffix is typed in lower case and kept in upper case.  A    *)
(* suffix may follow a suffix: only digits look at got_suffix.             *)
(***************************************************************************)
Accepts(line, c) ==
    LET n == Len(line.buffer)
    IN  /\ n < line.width
        /\ \/ c \in Decimals /\ ~line.got_suffix
           \/ c \in Letters /\ IsHex(line.buffer) /\ ~line.got_suffix
           \/ c \in Units /\ n > 0 /\ line.buffer[n] # "x"
           \/ c = "x" /\ n = 1 /\ line.buffer[1] = "0"

Typed(line, c) ==
    [line EXCEPT !.buffer = Append(@, c), !.got_suffix = @ \/ c \in Units]

\* Mutant of Rubbed: the suffix is rubbed out and still counted.
RubbedOnly(line) == [line EXCEPT !.buffer = SubSeq(@, 1, Len(@) - 1)]

Rubbed(line) ==
    [line EXCEPT !.buffer = SubSeq(@, 1, Len(@) - 1), !.got_suffix = FALSE]

-----------------------------------------------------------------------------
(***************************************************************************)
(* The number.  A character counts as its distance from '0', or from 'a'   *)
(* if it is a small letter: the letters of a hexadecimal number are 0 to   *)
(* 5, and a suffix that is not the last character is a digit, too.         *)
(***************************************************************************)
Position(c, s) == CHOOSE i \in DOMAIN s : s[i] = c

CharValue(c) ==
    CASE c \in Letters  -> Position(c, <<"a", "b", "c", "d", "e", "f">>) - 1
      [] c \in Decimals -> Position(c, <<"0", "1", "2", "3", "4", "5", "6", "7", "8", "9">>) - 1
      [] OTHER          -> [K |-> 27, P |-> 32, M |-> 29, G |-> 23, T |-> 36][c]

\* The characters that are read as digits: without 0x and the last suffix.
DigitsOf(line) ==
    SubSeq(line.buffer, IF IsHex(line.buffer) THEN 3 ELSE 1,
           Len(line.buffer) - IF line.got_suffix THEN 1 ELSE 0)

Base(line) == IF IsHex(line.buffer) THEN 16 ELSE 10

\* Mutant of Value: the base is multiplied after the digit is added.
ValueLate(line) ==
    FoldLeft(LAMBDA value, c : ((value + CharValue(c)) * Base(line)) % Size, 0, DigitsOf(line))

Value(line) ==
    FoldLeft(LAMBDA value, c : (value * Base(line) + CharValue(c)) % Size, 0, DigitsOf(line))

TotalShift(line, shift) ==
    IF line.got_suffix THEN shift + UnitShift[Last(line.buffer)] ELSE shift

\* The words that read_value may return.  `value >> shift` with a negative
\* shift is undefined in C: the processors take the number of places modulo
\* the width of the word, and the compiler may choose either direction.
ReadValues(line, shift) ==
    LET s      == TotalShift(line, shift)
        value  == Value(line)
        up     == (value * 2^(s % WORD)) % Size
        down   == value \div 2^(s % WORD)
    IN  Numbers \cap (IF s >= 0 THEN {up} ELSE {up, down})

-----------------------------------------------------------------------------
(***************************************************************************)
(* What lib/read.h says the number is: a number in base 16 or 10, scaled   *)
(* by its suffix and by 2^shift.                                           *)
(***************************************************************************)
DigitValue(c) == IF c \in Letters THEN CharValue(c) + 10 ELSE CharValue(c)

\* Digits, with at most one suffix and that at the end.
WellFormed(line) == \A i \in DOMAIN DigitsOf(line) : DigitsOf(line)[i] \notin Units

Scaled(n, s) == IF s >= 0 THEN n * 2^s ELSE n \div 2^(-s)

Documented(line, shift) ==
    LET d     == DigitsOf(line)
        Place == [i \in DOMAIN d |-> DigitValue(d[i]) * Base(line)^(Len(d) - i)]
    IN  Scaled(FoldLeft(+, 0, Place), TotalShift(line, shift)) % Size
=============================================================================
