----------------------------- MODULE Vsnprintf -----------------------------
(***************************************************************************)
(* lib/vsnprintf.c.  A format is a sequence of items: a character to copy  *)
(* (conv "lit", which also stands for %% and for a conversion the code     *)
(* does not know), or a directive with its flags, width, conversion and    *)
(* argument.  Characters are their ASCII codes, a string a sequence of     *)
(* them.  Unsigned numbers are below UINT_MOD.                             *)
(***************************************************************************)
EXTENDS Integers, SequencesExt

CONSTANT UINT_MOD       \* 2^32 in the code

CHAR_MOD == 256

Digit(d) == IF d < 10 THEN 48 + d ELSE 65 + d - 10

\* utoa_s: the digits come out lowest first and are reversed.
utoa_s(v, base) ==
    LET digits[n \in 0..v] ==
            <<Digit(n % base)>> \o (IF n \div base = 0 THEN <<>> ELSE digits[n \div base])
    IN Reverse(digits[v])

itoa_s(i) == IF i < 0 THEN <<45>> \o utoa_s((-i) % UINT_MOD, 10) ELSE utoa_s(i, 10)

copy_str(src, n) == SubSeq(src, 1, Min({n, Len(src)}))

fill_padding(size, padding, padding_len) ==
    [i \in 1..Min({size, padding_len}) |-> padding]

\* copy_with_padding not counting the padding against the room (mutant).
copy_with_padding_overrun(size, str, left, padding, width) ==
    LET padding_len == IF width > Len(str) THEN width - Len(str) ELSE 0
        filled == fill_padding(size, padding, padding_len)
        copied == copy_str(str, size)
    IN IF left THEN copied \o filled ELSE filled \o copied

\* What copy_with_padding writes into `size' bytes.
copy_with_padding(size, str, left, padding, width) ==
    LET padding_len == IF width > Len(str) THEN width - Len(str) ELSE 0
        first == fill_padding(size, padding, padding_len)
        copied == copy_str(str, IF left THEN size ELSE size - Len(first))
    IN IF left THEN copied \o fill_padding(size - Len(copied), padding, padding_len)
       ELSE first \o copied

\* A - overrides a 0; of 0 and blank the last one counts.
is_left(item) == "-" \in ToSet(item.flags)
padding_of(item) ==
    LET pads == SelectSeq(item.flags, LAMBDA f : f # "-")
    IN IF ~is_left(item) /\ pads # <<>> /\ Last(pads) = "0" THEN 48 ELSE 32

\* The text of a directive before it is padded.
text_of(item) ==
    CASE item.conv = "s" -> item.arg
      [] item.conv = "d" -> itoa_s(item.arg)
      [] item.conv = "u" -> utoa_s(item.arg, 10)
      [] item.conv = "x" -> utoa_s(item.arg, 16)
      [] item.conv = "p" -> <<48, 120>> \o utoa_s(item.arg, 16)

\* One round of the loop, with `size' bytes left in the buffer.
print_item(item, size) ==
    IF item.conv = "lit" THEN <<item.arg>>
    ELSE IF item.conv = "c" THEN <<item.arg % CHAR_MOD>>      \* an int stored as a char
    ELSE copy_with_padding(size, text_of(item), is_left(item), padding_of(item), item.width)

\* The bytes written, the buffer up to its terminating 0, which takes the place
\* of the last character when the buffer is full, and the number returned.
vsnprintf(size, fmt) ==
    LET put(cur, item) ==
            IF Len(cur) < size THEN cur \o print_item(item, size - Len(cur)) ELSE cur
        text[n \in 0..Len(fmt)] == IF n = 0 THEN <<>> ELSE put(text[n - 1], fmt[n])
        str == text[Len(fmt)]
        len == IF Len(str) < size THEN Len(str) ELSE IF size > 0 THEN size - 1 ELSE 0
    IN [written |-> Len(str), str |-> SubSeq(str, 1, len), ret |-> len]

-----------------------------------------------------------------------------
(* What the text should be, with room enough.                              *)

\* A directive with an argument of its type.  The character 0 is none: printed by a
\* %c it would end the text for print_string.
IsItem(item) ==
    CASE item.conv = "lit" -> item.arg \in Int
      [] item.conv = "c" -> item.arg \in Int /\ item.arg % CHAR_MOD # 0
      [] item.conv = "s" -> item.arg \in Seq(Int) /\ item.width \in Nat
      [] item.conv = "d" -> /\ item.arg \in -(UINT_MOD \div 2)..(UINT_MOD \div 2) - 1
                            /\ item.width \in Nat
      [] item.conv \in {"u", "x", "p"} -> item.arg \in 0..UINT_MOD - 1 /\ item.width \in Nat
      [] OTHER -> FALSE

IsFormat(fmt) == Len(fmt) \in Nat /\ \A i \in 1..Len(fmt) : IsItem(fmt[i])

\* As many digits as the powers of the base ask for, the highest first.
Numeral(v, base) ==
    LET pow[n \in 0..v + 1] == IF n = 0 THEN 1 ELSE base * pow[n - 1]
        k == CHOOSE n \in 1..v + 1 : pow[n] > v /\ (n > 1 => pow[n - 1] <= v)
    IN [i \in 1..k |-> Digit((v \div pow[k - i]) % base)]

Unpadded(item) ==
    CASE item.conv = "s" -> item.arg
      [] item.conv = "d" -> IF item.arg < 0 THEN <<45>> \o Numeral(-item.arg, 10)
                            ELSE Numeral(item.arg, 10)
      [] item.conv = "u" -> Numeral(item.arg, 10)
      [] item.conv = "x" -> Numeral(item.arg, 16)
      [] item.conv = "p" -> <<48, 120>> \o Numeral(item.arg, 16)

\* The text in its field.
Padded(text, left, padding, width) ==
    LET field == IF width > Len(text) THEN width ELSE Len(text)
        skip == IF left THEN 0 ELSE field - Len(text)
    IN [i \in 1..field |-> IF i - skip \in DOMAIN text THEN text[i - skip] ELSE padding]

Printed(item) ==
    IF item.conv = "lit" THEN <<item.arg>>
    ELSE IF item.conv = "c" THEN <<item.arg % CHAR_MOD>>
    ELSE Padded(Unpadded(item), is_left(item), padding_of(item), item.width)

AllPrinted(fmt) ==
    LET text[n \in 0..Len(fmt)] == IF n = 0 THEN <<>> ELSE text[n - 1] \o Printed(fmt[n])
    IN text[Len(fmt)]

\* stdio.h: "Writes at most size - 1 of the characters printed into the output
\* string(null-terminated). Returns the number of characters printed"; and
\* nothing is written past the end of the buffer.
IsFormatted(size, fmt, out) ==
    LET all == AllPrinted(fmt)
        room == IF size = 0 THEN 0 ELSE size - 1
    IN  /\ out.str = SubSeq(all, 1, Min({room, Len(all)})) /\ out.ret = Len(out.str)
        /\ out.written <= size
=============================================================================
