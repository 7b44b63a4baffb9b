------------------------------- MODULE Format -------------------------------
(***************************************************************************)
(* Formatted output, kernel/lib/vsprintf.c: vsprintf() reads the format    *)
(* one phase of a directive per step, and number() is an operator.         *)
(*                                                                         *)
(* Characters are strings of length one; "nul" ends the format.  An        *)
(* argument is a word, or a string for %s.  A word is a number below Word; *)
(* as an int it is negative from Word \div 2 on.                           *)
(*                                                                         *)
(* want is not a variable of the kernel: it is the directive that the      *)
(* format was written for, if it was written for one.                      *)
(***************************************************************************)
EXTENDS Integers, Sequences, SequencesExt, FiniteSetsExt

CONSTANTS
  Word,      \* values of an int (2^32)
  Directive, \* directives to be written as formats, with their argument
  Garbage    \* other formats, with arguments enough

ASSUME FormatAssumption ==
  /\ Word \in Nat /\ Word > 1 /\ Word % 2 = 0

VARIABLES
  fmt, args,    \* parameters; args is what va_arg() has not taken yet
  p,            \* the index of fmt
  pc,           \* the phase of the directive
  flags, field_width, precision,
  out,          \* what has been written to buf
  stored,       \* the number %n has stored
  want

vars == <<fmt, args, p, pc, flags, field_width, precision, out, stored, want>>

Letters == [large |-> <<"0", "1", "2", "3", "4", "5", "6", "7", "8", "9",
                        "A", "B", "C", "D", "E", "F">>,
            small |-> <<"0", "1", "2", "3", "4", "5", "6", "7", "8", "9",
                        "a", "b", "c", "d", "e", "f">>]

\* atoi() of one digit, and the digit.
is_digit(ch) == \E k \in 1 .. 10 : Letters.large[k] = ch
Digit(ch)    == CHOOSE k \in 0 .. 9 : Letters.large[k + 1] = ch

Times(n, ch) == [k \in 1 .. n |-> ch]   \* none if n <= 0

-----------------------------------------------------------------------------
(* number()                                                                *)

\* Mutant: a signed division, which stops at once for the least int.
ReversedDigitsSigned(num, base) ==
  LET rest[n \in 0 .. Word - 1] ==
        IF n = 0 \/ n >= Word \div 2 THEN << >>
        ELSE <<n % base>> \o rest[n \div base]
  IN  IF num = 0 THEN <<0>> ELSE rest[num]

\* tmp[]: divl is an unsigned division, whatever the sign of num.
ReversedDigits(num, base) ==
  LET rest[n \in 0 .. Word - 1] ==
        IF n = 0 THEN << >> ELSE <<n % base>> \o rest[n \div base]
  IN  IF num = 0 THEN <<0>> ELSE rest[num]

Negative(num) == num >= Word \div 2

SignOf(num, type) ==
  CASE "SIGN" \in type /\ Negative(num) -> <<"-">>
    [] "PLUS" \in type                  -> <<"+">>
    [] "SPACE" \in type                 -> <<" ">>
    [] OTHER                            -> << >>

SpecialOf(base, type) ==
  CASE "SPECIAL" \in type /\ base = 16 -> <<"0", IF "SMALL" \in type THEN "x" ELSE "X">>
    [] "SPECIAL" \in type /\ base = 8  -> <<"0">>
    [] OTHER                           -> << >>

\* Mutant: the sign is not counted in the width.
RoomUnsigned(size, sign, special, digits, prec) ==
  size - Len(special) - Max({Len(digits), prec})

\* What is left of the width for padding.
Room(size, sign, special, digits, prec) ==
  size - Len(sign) - Len(special) - Max({Len(digits), prec})

\* The padding before the sign, between sign and digits, and after them.
\* LEFT takes ZEROPAD away.
Padded(room, type) ==
  CASE "LEFT" \in type    -> [before |-> << >>, within |-> << >>, after |-> Times(room, " ")]
    [] "ZEROPAD" \in type -> [before |-> << >>, within |-> Times(room, "0"), after |-> << >>]
    [] OTHER              -> [before |-> Times(room, " "), within |-> << >>, after |-> << >>]

number(num, base, size, prec, type) ==
  LET sign    == SignOf(num, type)
      special == SpecialOf(base, type)
      abs     == IF "SIGN" \in type /\ Negative(num) THEN (-num) % Word ELSE num
      digits  == ReversedDigits(abs, base)
      letters == IF "SMALL" \in type THEN Letters.small ELSE Letters.large
      pad     == Padded(Room(size, sign, special, digits, prec), type)
  IN  pad.before \o sign \o special \o pad.within
        \o Times(prec - Len(digits), "0")
        \o [k \in 1 .. Len(digits) |-> letters[Reverse(digits)[k] + 1]]
        \o pad.after

-----------------------------------------------------------------------------
(* vsprintf()                                                              *)

\* The format under which a directive is written.
Written(d) ==
  d.flags \o d.width \o (IF d.precision = << >> THEN << >> ELSE <<".">> \o d.precision)
    \o <<d.conversion>>

Start(f, a) ==
  /\ fmt = f /\ args = a
  /\ p = 1 /\ pc = "char"
  /\ flags = {} /\ field_width = -1 /\ precision = -1
  /\ out = << >> /\ stored = -1

\* A directive is followed by a character that is copied.
Init ==
  \/ \E d \in Directive : Start(<<"%">> \o Written(d) \o <<"!">>, <<d.arg>>) /\ want = d
  \/ \E g \in Garbage : Start(g.fmt, g.args) /\ want = [conversion |-> "none"]

Read(k) == IF k <= Len(fmt) THEN fmt[k] ELSE "nul"
Here    == Read(p)

\* The character after the digits that begin at k, and their value: skip_atoi().
AfterDigits(k) == CHOOSE m \in k .. Len(fmt) + 1 :
                    /\ ~ is_digit(Read(m))
                    /\ \A j \in k .. m - 1 : is_digit(Read(j))
skip_atoi(k)   == FoldLeft(LAMBDA v, ch : v * 10 + Digit(ch), 0,
                           SubSeq(fmt, k, AfterDigits(k) - 1))

\* *fmt is not a '%' and is copied, or it begins a directive, or it is the end.
NextChar ==
  /\ pc = "char"
  /\ \/ /\ Here = "nul"
        /\ pc' = "done" /\ UNCHANGED <<p, flags, out>>
     \/ /\ Here = "%"
        /\ pc' = "flags" /\ p' = p + 1 /\ flags' = {} /\ UNCHANGED out
     \/ /\ Here \notin {"nul", "%"}
        /\ out' = Append(out, Here) /\ p' = p + 1 /\ UNCHANGED <<pc, flags>>
  /\ UNCHANGED <<fmt, args, field_width, precision, stored, want>>

FlagOf == [ch \in {"-", "+", " ", "#", "0"} |->
             CASE ch = "-" -> "LEFT" [] ch = "+" -> "PLUS" [] ch = " " -> "SPACE"
               [] ch = "#" -> "SPECIAL" [] ch = "0" -> "ZEROPAD"]

\* Mutant: a flag is looked at again instead of skipped.
FlagsAgain ==
  /\ pc = "flags"
  /\ IF Here \in DOMAIN FlagOf
     THEN flags' = flags \cup {FlagOf[Here]} /\ UNCHANGED <<p, pc>>
     ELSE pc' = "width" /\ UNCHANGED <<flags, p>>
  /\ UNCHANGED <<fmt, args, field_width, precision, out, stored, want>>

Flags ==
  /\ pc = "flags"
  /\ IF Here \in DOMAIN FlagOf
     THEN flags' = flags \cup {FlagOf[Here]} /\ p' = p + 1 /\ UNCHANGED pc
     ELSE pc' = "width" /\ UNCHANGED <<flags, p>>
  /\ UNCHANGED <<fmt, args, field_width, precision, out, stored, want>>

SignedArg == IF Negative(Head(args)) THEN Head(args) - Word ELSE Head(args)

\* A '*' takes an argument and is not skipped.
Width ==
  /\ pc = "width" /\ pc' = "precision"
  /\ \/ /\ is_digit(Here)
        /\ field_width' = skip_atoi(p) /\ p' = AfterDigits(p)
        /\ UNCHANGED <<args, flags>>
     \/ /\ Here = "*"
        /\ field_width' = IF SignedArg < 0 THEN - SignedArg ELSE SignedArg
        /\ flags' = IF SignedArg < 0 THEN flags \cup {"LEFT"} ELSE flags
        /\ args' = Tail(args) /\ UNCHANGED p
     \/ /\ ~ is_digit(Here) /\ Here # "*"
        /\ field_width' = -1 /\ UNCHANGED <<args, flags, p>>
  /\ UNCHANGED <<fmt, precision, out, stored, want>>

\* A '.' without a number means 0, and so does a negative argument.
Precision ==
  /\ pc = "precision" /\ pc' = "qualifier"
  /\ \/ /\ Here # "."
        /\ precision' = -1 /\ UNCHANGED <<args, p>>
     \/ /\ Here = "." /\ is_digit(Read(p + 1))
        /\ precision' = skip_atoi(p + 1) /\ p' = AfterDigits(p + 1)
        /\ UNCHANGED args
     \/ /\ Here = "." /\ Read(p + 1) = "*"
        /\ precision' = Max({SignedArg, 0})
        /\ args' = Tail(args) /\ p' = p + 1
     \/ /\ Here = "." /\ ~ is_digit(Read(p + 1)) /\ Read(p + 1) # "*"
        /\ precision' = 0 /\ p' = p + 1 /\ UNCHANGED args
  /\ UNCHANGED <<fmt, flags, field_width, out, stored, want>>

Qualifier ==
  /\ pc = "qualifier" /\ pc' = "convert"
  /\ p' = IF Here \in {"h", "l", "L"} THEN p + 1 ELSE p
  /\ UNCHANGED <<fmt, args, flags, field_width, precision, out, stored, want>>

Base == [ch \in {"o", "p", "x", "X", "d", "i", "u", "b"} |->
           CASE ch = "o" -> 8 [] ch = "b" -> 2 [] ch \in {"d", "i", "u"} -> 10
             [] OTHER -> 16]

\* %p without a width is a word of eight digits.
TypeOf(ch) == flags \cup (CASE ch = "x" -> {"SMALL"}
                            [] ch \in {"d", "i"} -> {"SIGN"}
                            [] ch = "p" /\ field_width = -1 -> {"ZEROPAD"}
                            [] OTHER -> {})
SizeOf(ch) == IF ch = "p" /\ field_width = -1 THEN 8 ELSE field_width

ConvertNumber ==
  /\ pc = "convert" /\ Here \in DOMAIN Base
  /\ out' = out \o number(Head(args), Base[Here], SizeOf(Here), precision, TypeOf(Here))
  /\ args' = Tail(args)
  /\ p' = p + 1 /\ pc' = "char"
  /\ UNCHANGED <<fmt, flags, field_width, precision, stored, want>>

Justified(text) ==
  LET pad == Times(field_width - Len(text), " ")
  IN  IF "LEFT" \in flags THEN text \o pad ELSE pad \o text

Cut(s) == IF precision < 0 THEN s ELSE SubSeq(s, 1, Min({Len(s), precision}))

\* %c and %s
ConvertText ==
  /\ pc = "convert" /\ Here \in {"c", "s"}
  /\ out' = out \o Justified(IF Here = "c" THEN <<Head(args)>> ELSE Cut(Head(args)))
  /\ args' = Tail(args)
  /\ p' = p + 1 /\ pc' = "char"
  /\ UNCHANGED <<fmt, flags, field_width, precision, stored, want>>

\* %n
ConvertCount ==
  /\ pc = "convert" /\ Here = "n"
  /\ stored' = Len(out)
  /\ args' = Tail(args)
  /\ p' = p + 1 /\ pc' = "char"
  /\ UNCHANGED <<fmt, flags, field_width, precision, out, want>>

\* Mutant: the end of the format is skipped as if it were a character.
ConvertOtherSkips ==
  /\ pc = "convert" /\ Here \notin DOMAIN Base \cup {"c", "s", "n"}
  /\ out' = out \o (IF Here = "%" THEN << >> ELSE <<"%">>)
                \o (IF Here = "nul" THEN << >> ELSE <<Here>>)
  /\ p' = p + 1
  /\ pc' = "char"
  /\ UNCHANGED <<fmt, args, flags, field_width, precision, stored, want>>

\* Anything else is copied, with a '%' in front; the end is not skipped.
ConvertOther ==
  /\ pc = "convert" /\ Here \notin DOMAIN Base \cup {"c", "s", "n"}
  /\ out' = out \o (IF Here = "%" THEN << >> ELSE <<"%">>)
                \o (IF Here = "nul" THEN << >> ELSE <<Here>>)
  /\ p' = IF Here = "nul" THEN p ELSE p + 1
  /\ pc' = "char"
  /\ UNCHANGED <<fmt, args, flags, field_width, precision, stored, want>>

Next == \/ NextChar \/ Flags \/ Width \/ Precision \/ Qualifier
        \/ ConvertNumber \/ ConvertText \/ ConvertCount \/ ConvertOther

Spec == Init /\ [][Next]_vars /\ WF_vars(Next)

-----------------------------------------------------------------------------
(* Properties                                                              *)

\* vsprintf() never reads behind the end of the format, wherever it stops in
\* the middle of a directive.
InFormat == p <= Len(fmt) + 1

\* vsprintf() returns, for every format.
Returns == <>(pc = "done")

\* The rest is about a format written for one directive, when it is printed.
Printed == pc = "done" /\ want.conversion # "none"
Field   == SubSeq(out, 1, Len(out) - 1)

IsNumber  == want.conversion \in DOMAIN Base
Signed    == want.conversion \in {"d", "i"}
Magnitude == IF Signed /\ Negative(want.arg) THEN Word - want.arg ELSE want.arg
Text      == IF want.conversion = "c" THEN <<want.arg>> ELSE want.arg

Decimal(seq) == FoldLeft(LAMBDA v, ch : v * 10 + Digit(ch), 0, seq)
Asks(ch)     == Contains(want.flags, ch)

\* What a reader takes the digits of the field for: what follows the x of 0x,
\* in the base of the conversion.
Hex(ch)     == CHOOSE k \in 0 .. 15 : ch \in {Letters.large[k + 1], Letters.small[k + 1]}
IsHex(ch)   == \E k \in 1 .. 16 : ch \in {Letters.large[k], Letters.small[k]}
ValueRead   == LET xs == {k \in 1 .. Len(Field) : Field[k] \in {"x", "X"}}
                   ds == SelectSeq(SubSeq(Field, Max(xs \cup {0}) + 1, Len(Field)), IsHex)
               IN  FoldLeft(LAMBDA v, ch : v * Base[want.conversion] + Hex(ch), 0, ds)

\* A printed number reads as the argument, its sign included: also the least
\* int, whose negation is itself.  A printed string is the beginning of the
\* argument that the precision allows.
ReadsBack ==
  Printed =>
    IF IsNumber
    THEN /\ ValueRead = Magnitude
         /\ Contains(Field, "-") <=> Signed /\ Negative(want.arg)
    ELSE SelectSeq(Field, LAMBDA ch : ch # " ") =
           IF want.precision = << >> \/ want.conversion = "c" THEN Text
           ELSE SubSeq(Text, 1, Min({Len(Text), Decimal(want.precision)}))

\* The characters a directive needs without padding.
Needs ==
  IF IsNumber
  THEN LET b == Base[want.conversion]
           n == CHOOSE k \in 1 .. 32 : /\ b^k > Magnitude
                                       /\ k > 1 => b^(k - 1) <= Magnitude
       IN  (IF Asks("+") \/ Asks(" ") \/ (Signed /\ Negative(want.arg)) THEN 1 ELSE 0)
             + (CASE Asks("#") /\ b = 16 -> 2 [] Asks("#") /\ b = 8 -> 1 [] OTHER -> 0)
             + Max({n, Decimal(want.precision)})
  ELSE Len(SelectSeq(Field, LAMBDA ch : ch # " "))

\* A field is exactly as wide as asked for, or as its contents if they are
\* wider: sign, prefix and precision count.
WidthKept ==
  Printed =>
    LET w == IF want.width = << >> /\ want.conversion = "p" THEN 8
             ELSE Decimal(want.width)
    IN  Len(Field) = Max({w, Needs})

\* Blanks are on one side only: on the right with '-', else on the left, and
\* not there either when a number is filled with zeros.  The blank that
\* stands for a sign is on the left always.
Aligned ==
  Printed =>
    LET blanks == {k \in 1 .. Len(Field) : Field[k] = " "}
        sign   == IF Asks(" ") /\ ~ Asks("+") /\ IsNumber
                     /\ ~ (Signed /\ Negative(want.arg)) THEN 1 ELSE 0
        core   == (1 .. Len(Field)) \ blanks
    IN  core # {} =>
          /\ blanks \cap Min(core) .. Max(core) = {}
          /\ Asks("-") => Min(core) = 1 + sign
          /\ ~ Asks("-") => Max(core) = Len(Field)
          /\ Asks("0") /\ ~ Asks("-") /\ IsNumber => Min(core) = 1 + sign

\* The layout of a field, for every combination of flags, width and precision:
\* number() reduces the size in four places, and what is left pads one side.
FieldLaidOut == WidthKept /\ Aligned

=============================================================================
