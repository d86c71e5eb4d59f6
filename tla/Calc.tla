-------------------------------- MODULE Calc --------------------------------
(***************************************************************************)
(* The calculator of kernel/shell.c: a recursive-descent parser that       *)
(* evaluates while it reads, against the meaning of an expression.         *)
(*                                                                         *)
(* Integers have CALC_BITS bits and wrap, as the machine's do.  Dividing   *)
(* the smallest integer by -1 raises the divide exception.                 *)
(***************************************************************************)
EXTENDS Integers, Sequences

CONSTANTS
  CALC_BITS,
  Alphabets                       \* pairs of a set of characters and a length

VARIABLES alphabet, args          \* what is typed, from which characters
calcVars == <<alphabet, args>>

MIN == -(2^(CALC_BITS - 1))
Narrow(v) == ((v - MIN) % 2^CALC_BITS) + MIN
Digit == [c \in {"0", "1", "8"} |-> IF c = "0" THEN 0 ELSE IF c = "1" THEN 1 ELSE 8]
Ch(s, i) == IF i \in 1..Len(s) THEN s[i] ELSE "end"

\* What the parser returns: where it stands, the error (3 for the exception) and the value.
Parsed(pos, err, val) == [pos |-> pos, err |-> err, val |-> val]

calc_skip_ws(s, pos) ==
  LET f[i \in pos..(Len(s) + 1)] == IF Ch(s, i) = " " THEN f[i + 1] ELSE i
  IN IF pos > Len(s) THEN pos ELSE f[pos]

\* The digits of a number in a base, read from pos on.
ReadDigits(s, pos, base, digit) ==
  LET f[i \in pos..(Len(s) + 1)] == IF Ch(s, i) \in DOMAIN digit THEN f[i + 1] ELSE i
      end == IF pos > Len(s) THEN pos ELSE f[pos]
      v[i \in (pos - 1)..(end - 1)] == IF i < pos THEN 0 ELSE Narrow(v[i - 1] * base + digit[s[i]])
  IN Parsed(end, IF end = pos THEN 1 ELSE 0, v[end - 1])

\* idiv truncates.
Quotient(a, b) ==
  LET q == (IF a < 0 THEN -a ELSE a) \div (IF b < 0 THEN -b ELSE b)
  IN IF (a < 0) = (b < 0) THEN q ELSE -q
Divide(op, a, b) == IF op = "/" THEN Quotient(a, b) ELSE a - b * Quotient(a, b)

RECURSIVE calc_parse_factor(_, _), TermRest(_, _), ExprRest(_, _)

\* What is left after an operator of a term or of a sum: val is the value so far.
Multiplied(op, left, right) ==
  IF right.err = 3 THEN right
  ELSE IF op = "*" THEN [right EXCEPT !.val = Narrow(left * @)]
  ELSE IF right.val = 0 THEN Parsed(right.pos, 2, 0)
  ELSE IF left = MIN /\ right.val = -1 THEN Parsed(right.pos, 3, 0)
  ELSE [right EXCEPT !.val = Divide(op, left, @)]
Added(op, left, right) == [right EXCEPT !.val = Narrow(IF op = "+" THEN left + @ ELSE left - @)]

\* The loops over the operators of a term and of a sum.
calc_parse_term(s, pos) == TermRest(s, calc_parse_factor(s, pos))
TermRest(s, c) ==
  LET pos == calc_skip_ws(s, c.pos)
  IN IF c.err # 0 THEN c
     ELSE IF Ch(s, pos) \notin {"*", "/", "%"} THEN [c EXCEPT !.pos = pos]
     ELSE TermRest(s, Multiplied(Ch(s, pos), c.val, calc_parse_factor(s, pos + 1)))

calc_parse_expr(s, pos) == ExprRest(s, calc_parse_term(s, pos))
ExprRest(s, c) ==
  LET pos == calc_skip_ws(s, c.pos)
  IN IF c.err # 0 THEN c
     ELSE IF Ch(s, pos) \notin {"+", "-"} THEN [c EXCEPT !.pos = pos]
     ELSE ExprRest(s, Added(Ch(s, pos), c.val, calc_parse_term(s, pos + 1)))

Closed(s, in) ==
  LET pos == calc_skip_ws(s, in.pos)
  IN IF in.err = 3 THEN in
     ELSE IF Ch(s, pos) = ")" THEN [in EXCEPT !.pos = pos + 1] ELSE Parsed(pos, 1, in.val)
calc_parse_factor(s, start) ==
  LET pos == calc_skip_ws(s, start)
  IN IF Ch(s, pos) = "+" THEN calc_parse_factor(s, pos + 1)
     ELSE IF Ch(s, pos) = "-" THEN [calc_parse_factor(s, pos + 1) EXCEPT !.val = Narrow(-@)]
     ELSE IF Ch(s, pos) = "(" THEN Closed(s, calc_parse_expr(s, pos + 1))
     ELSE IF Ch(s, pos) = "0" /\ Ch(s, pos + 1) = "x" THEN ReadDigits(s, pos + 2, 16, Digit)
     ELSE ReadDigits(s, pos, 10, Digit)

\* The command: a value, "error" for either message, or "trap".
Reported(s, c) ==
  IF c.err = 3 THEN <<"trap">>
  ELSE IF c.err # 0 \/ calc_skip_ws(s, c.pos) <= Len(s) THEN <<"error">>
  ELSE <<"value", c.val>>
calc(s) == Reported(s, calc_parse_expr(s, 1))

-----------------------------------------------------------------------------
CalcInit == args = <<>>
type_char == Len(args) < alphabet[2] /\ (\E c \in alphabet[1] : args' = Append(args, c)) /\ UNCHANGED alphabet
CalcNext == type_char

-----------------------------------------------------------------------------
(***************************************************************************)
(* The meaning of an expression: it is divided at its last operator of the *)
(* lowest precedence outside parentheses.                                  *)
(***************************************************************************)
RECURSIVE SumOf(_), Product(_), Atom(_)

Invalid == <<"invalid">>
Nesting(s, i) == Len(SelectSeq(SubSeq(s, 1, i), LAMBDA c : c = "(")) - Len(SelectSeq(SubSeq(s, 1, i), LAMBDA c : c = ")"))
\* An operator stands between operands if an operand ends before it.
Binary(s, i) == \E j \in 1..(i - 1) : s[j] \in (DOMAIN Digit) \cup {")"} /\ \A k \in (j + 1)..(i - 1) : s[k] = " "
Splits(s, ops) == {i \in 1..Len(s) : s[i] \in ops /\ Nesting(s, i) = 0 /\ Binary(s, i)}
LastOf(S) == CHOOSE i \in S : \A j \in S : j <= i

Combine(l, op, r) ==
  IF Invalid \in {l, r} THEN Invalid
  ELSE IF l[1] # "value" THEN l
  ELSE IF r[1] # "value" THEN r
  ELSE IF op = "+" THEN <<"value", Narrow(l[2] + r[2])>>
  ELSE IF op = "-" THEN <<"value", Narrow(l[2] - r[2])>>
  ELSE IF op = "*" THEN <<"value", Narrow(l[2] * r[2])>>
  ELSE IF r[2] = 0 THEN <<"error">>
  ELSE IF l[2] = MIN /\ r[2] = -1 THEN <<"trap">>
  ELSE <<"value", Divide(op, l[2], r[2])>>

SumOf(s) ==
  LET i == LastOf(Splits(s, {"+", "-"}))
  IN IF Splits(s, {"+", "-"}) = {} THEN Product(s)
     ELSE Combine(SumOf(SubSeq(s, 1, i - 1)), s[i], Product(SubSeq(s, i + 1, Len(s))))
Product(s) ==
  LET i == LastOf(Splits(s, {"*", "/", "%"}))
  IN IF Splits(s, {"*", "/", "%"}) = {} THEN Atom(s)
     ELSE Combine(Product(SubSeq(s, 1, i - 1)), s[i], Atom(SubSeq(s, i + 1, Len(s))))
Atom(s) ==
  LET rest == SubSeq(s, 2, Len(s))
      Value(t, base) == LET v[i \in 0..Len(t)] == IF i = 0 THEN 0 ELSE Narrow(v[i - 1] * base + Digit[t[i]]) IN <<"value", v[Len(t)]>>
      Number(t) == t # <<>> /\ \A i \in 1..Len(t) : t[i] \in DOMAIN Digit
  IN IF s = <<>> THEN Invalid
     ELSE IF s[1] = " " THEN Atom(rest)
     ELSE IF s[Len(s)] = " " THEN Atom(SubSeq(s, 1, Len(s) - 1))
     ELSE IF s[1] = "+" THEN Atom(rest)
     ELSE IF s[1] = "-" THEN Combine(<<"value", 0>>, "-", Atom(rest))
     ELSE IF s[1] = "(" /\ s[Len(s)] = ")" THEN SumOf(SubSeq(s, 2, Len(s) - 1))
     ELSE IF Number(s) THEN Value(s, 10)
     ELSE IF Len(s) > 2 /\ s[1] = "0" /\ s[2] = "x" /\ Number(SubSeq(s, 3, Len(s))) THEN Value(SubSeq(s, 3, Len(s)), 16)
     ELSE Invalid

\* calc prints the value of every expression, with the usual precedence and from left to
\* right, reports an error where it divides by zero, and prints no value for anything else.
Evaluates ==
  LET Agree(shown, meaning) == IF meaning = Invalid THEN shown[1] # "value" ELSE shown = meaning
  IN Agree(calc(args), SumOf(args))
=============================================================================
