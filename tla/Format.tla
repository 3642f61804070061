------------------------------- MODULE Format -------------------------------
(***************************************************************************)
(* vsprintf() and i2a() of lib/io.c.  A character is its code.  A format   *)
(* is the sequence of its parts: a character that is copied (%% is one of  *)
(* them) or a directive, with its flag 0, its width and its conversion.    *)
(* The directives are parsed in the source character by character; here    *)
(* they are given.  The buffers are written without a look at their size:  *)
(* vsprintf below is what they hold when the text is InBounds, and nothing *)
(* is said of a text that is not.                                          *)
(***************************************************************************)
EXTENDS Integers, Sequences, FiniteSets

CONSTANTS
  IntMax,      \* the greatest int, 2^31 - 1 in the program
  InnerLen     \* STR_DEFAULT_LEN, the size of inner_buf: 1024

ASSUME FormatAssumption ==
  /\ IntMax \in Nat \ {0}
  /\ InnerLen \in Nat

Ints == -IntMax - 1 .. IntMax

Lit(c)                 == [conv |-> "copy", char |-> c]
Directive(conv)        == [conv |-> conv, zero |-> FALSE, width |-> 0]
Wide(conv, zero, width) == [conv |-> conv, zero |-> zero, width |-> width]

(* The letters that vsprintf() knows, "?" for any other, and "cut" for the *)
(* 0 of a format that ends within a directive, as one that ends in %.      *)
Conversions == {"c", "x", "d", "s", "?", "cut"}

(* A char that is not the 0 at the end of a string.                        *)
Byte == 1 .. 255

(* The width is what nr_align has come to.                                 *)
Parts ==
  [conv : {"copy"}, char : Byte]
    \cup [conv : Conversions, zero : BOOLEAN, width : 0 .. IntMax]

(* The / and % of C, which truncate towards 0, and the negation of an int. *)
Quot(a, b)  == IF a < 0 THEN -((-a) \div b) ELSE a \div b
Rem(a, b)   == a - b * Quot(a, b)
Negated(m)  == IF -m \in Ints THEN -m ELSE m

Digit(m) == IF m < 10 THEN m + 48 ELSE m - 10 + 65

i2a(val, base) ==
  LET written[m \in Ints] ==
        LET q == Quot(m, base) IN
          (IF q # 0 THEN written[q] ELSE <<>>) \o <<Digit(Rem(m, base))>>
  IN  written[val]

(* inner_buf up to its first 0, where strLen() and the copy stop.          *)
Inner(part, arg) ==
  CASE part.conv = "c" -> IF arg = 0 THEN <<>> ELSE <<arg>>
    [] part.conv = "x" -> i2a(arg, 16)
    [] part.conv = "d" -> IF arg < 0 THEN <<45>> \o i2a(Negated(arg), 10) ELSE i2a(arg, 10)
    [] part.conv = "s" -> arg
    [] OTHER           -> <<>>

(* Mutant: the text is padded by the width, not up to it.                  *)
PaddedBy(part, s) ==
  [k \in 1 .. part.width |-> IF part.zero THEN 48 ELSE 32] \o s

Padded(part, s) ==
  [k \in 1 .. part.width - Len(s) |-> IF part.zero THEN 48 ELSE 32] \o s

TakesArg(part) == part.conv \in {"c", "x", "d", "s"}

(* One turn of the for loop: p is what buf holds, next the argument        *)
(* p_next_arg points to.                                                   *)
Formatted(args, acc, part) ==
  IF part.conv = "copy"
  THEN [acc EXCEPT !.p = Append(@, part.char)]
  ELSE [p    |-> acc.p \o Padded(part, Inner(part, IF TakesArg(part) THEN args[acc.next] ELSE 0)),
        next |-> IF TakesArg(part) THEN acc.next + 1 ELSE acc.next]

vsprintf(fmt, args) ==
  LET turns[i \in 0 .. Len(fmt)] ==
        IF i = 0 THEN [p |-> <<>>, next |-> 1] ELSE Formatted(args, turns[i - 1], fmt[i])
  IN  turns[Len(fmt)].p

(* The argument of part i: those before it have taken theirs.              *)
ArgOf(fmt, i) == Cardinality({j \in 1 .. i : TakesArg(fmt[j])})

(* With a buffer of that size vsprintf() writes and reads its own memory   *)
(* only: each argument fits into inner_buf with the 0 that strCpy() copies *)
(* and strLen() looks for, the text fits into the buffer, and the format   *)
(* does not end within a directive, behind which the loop reads on.        *)
InBounds(fmt, args, size) ==
  /\ \A i \in 1 .. Len(fmt) :
       /\ fmt[i].conv # "cut"
       /\ TakesArg(fmt[i]) => Len(Inner(fmt[i], args[ArgOf(fmt, i)])) < InnerLen
  /\ Len(vsprintf(fmt, args)) <= size

-----------------------------------------------------------------------------
(* What a text should be, defined without the code: a number is written    *)
(* with as many digits as it needs, the k-th being what its name says, and *)
(* a field is filled on its left up to its width.                          *)
Numeral(n, base) ==
  LET weight[k \in Nat] == IF k = 0 THEN 1 ELSE base * weight[k - 1]
      size == CHOOSE k \in 1 .. n + 1 : n < weight[k] /\ (k > 1 => n >= weight[k - 1])
  IN  [i \in 1 .. size |-> Digit((n \div weight[size - i]) % base)]

Plain(part, arg) ==
  CASE part.conv = "c" -> IF arg = 0 THEN <<>> ELSE <<arg>>
    [] part.conv = "x" -> Numeral(arg, 16)
    [] part.conv = "d" -> (IF arg < 0 THEN <<45>> ELSE <<>>) \o Numeral(IF arg < 0 THEN -arg ELSE arg, 10)
    [] part.conv = "s" -> arg

Field(part, arg) ==
  LET s    == Plain(part, arg)
      size == IF part.width > Len(s) THEN part.width ELSE Len(s)
  IN [i \in 1 .. size |->
        IF i > size - Len(s) THEN s[i - (size - Len(s))]
        ELSE IF part.zero THEN 48 ELSE 32]

Meaning(fmt, args, i) ==
  IF fmt[i].conv = "copy" THEN <<fmt[i].char>>
  ELSE IF TakesArg(fmt[i]) THEN Field(fmt[i], args[ArgOf(fmt, i)])
  ELSE Field([fmt[i] EXCEPT !.conv = "s"], <<>>)

Reference(fmt, args) ==
  LET upTo[i \in 0 .. Len(fmt)] == IF i = 0 THEN <<>> ELSE upTo[i - 1] \o Meaning(fmt, args, i)
  IN  upTo[Len(fmt)]

(* The arguments are those the format takes: characters, numbers, and      *)
(* strings, which end before their first 0.                                *)
Fits(fmt, args) ==
  \A i \in 1 .. Len(fmt) :
    LET arg == args[ArgOf(fmt, i)] IN
      /\ fmt[i].conv = "c" => arg \in Byte \cup {0}
      /\ fmt[i].conv \in {"x", "d"} => arg \in Ints
      /\ fmt[i].conv = "s" => arg \in Seq(Byte)

(* i2a() writes no sign: %x of a negative number, and %d of the number     *)
(* whose negation does not fit, do not come out as numerals.               *)
Representable(fmt, args) ==
  \A i \in 1 .. Len(fmt) :
    /\ fmt[i].conv = "x" => args[ArgOf(fmt, i)] >= 0
    /\ fmt[i].conv = "d" => args[ArgOf(fmt, i)] # -IntMax - 1
=============================================================================
