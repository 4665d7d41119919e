-------------------------------- MODULE Calc -------------------------------
(***************************************************************************)
(* The calculator of gui.c: fixed-point numbers in signed words, products  *)
(* and quotients through a two-word product and a bit by bit division.  An *)
(* expression arrives token by token; parentheses are left out.            *)
(***************************************************************************)
EXTENDS Integers, Sequences, SequencesExt

CONSTANTS
    W,              \* bits of a word, even; 32
    CALC_FIX,       \* 1000
    Limit,          \* the 1000000000 of calc_eval
    Literals,       \* numbers in the expression, in units of 1 / CALC_FIX
    MaxOps          \* bound: operators in an expression

\* What the constants must satisfy.
CalcAssumption ==
    /\ W \in Nat \ {0} /\ W % 2 = 0
    /\ CALC_FIX \in 1..2^(W - 1) - 1 /\ Limit \in 1..2^(W - 1) - 1
    /\ Literals \subseteq 0..2^(W - 1) - 1

VARIABLE st     \* sum, sign and term of calc_expr and calc_term; err; ops; exact: the
                \* same two values without a word size, as history; ok: every value so
                \* far fits in a signed word

Word == 2^W
Half == 2^(W \div 2)
Signed(v) == ((v + Word \div 2) % Word) - Word \div 2
Abs(v) == (IF v < 0 THEN -v ELSE v) % Word

\* u64_add and u64_mul32: two words, by the four products of the halves.
Add2(a, b) ==
    LET lo == (a.lo + b.lo) % Word
    IN  [lo |-> lo, hi |-> (a.hi + b.hi + IF lo < a.lo THEN 1 ELSE 0) % Word]

Shifted(p) == [lo |-> (p * Half) % Word, hi |-> p \div Half]

Mul2(a, b) ==
    LET a0 == a % Half a1 == a \div Half
        b0 == b % Half b1 == b \div Half
    IN  Add2(Add2(Add2([lo |-> a0 * b0, hi |-> 0], Shifted(a1 * b0)), Shifted(a0 * b1)),
             [lo |-> 0, hi |-> a1 * b1])

\* u64_div_u32: from the highest bit on; the shifted remainder is a word.
Bits(p) == [i \in 1..2 * W |-> IF i <= W THEN (p.hi \div 2^(W - i)) % 2
                               ELSE (p.lo \div 2^(2 * W - i)) % 2]
Step_Bug(d, acc, bit) ==
    LET r == (2 * acc.r + bit) % Word
    IN  IF r > d THEN [r |-> r - d, q |-> 2 * acc.q + 1] ELSE [r |-> r, q |-> 2 * acc.q]
Step(d, acc, bit) ==
    LET r == (2 * acc.r + bit) % Word
    IN  IF r >= d THEN [r |-> r - d, q |-> 2 * acc.q + 1] ELSE [r |-> r, q |-> 2 * acc.q]
Div2(p, d) == FoldLeft(LAMBDA acc, bit : Step(d, acc, bit), [r |-> 0, q |-> 0], Bits(p)).q

\* calc_mul_fix, calc_div_fix: only a quotient beyond an unsigned word is an overflow.
Signs(a, b, q) == Signed(IF (a < 0) # (b < 0) THEN -q ELSE q)
MulFix(a, b) == Div2(Mul2(Abs(a), Abs(b)), CALC_FIX)
DivFix(a, b) == Div2(Mul2(Abs(a), CALC_FIX), Abs(b))

\* Division of integers towards zero.
Trunc(a, b) ==
    LET q == (IF a < 0 THEN -a ELSE a) \div (IF b < 0 THEN -b ELSE b)
    IN  IF (a < 0) # (b < 0) THEN -q ELSE q
Fits(v) == v \in -(Word \div 2)..Word \div 2 - 1

Start == [sum |-> 0, sign |-> 1, term |-> 0, err |-> 0, ops |-> 0, shown |-> 0,
          exact |-> [sum |-> 0, term |-> 0], ok |-> TRUE, state |-> "empty"]
Init == st = Start

Operand(b, neg) == IF neg THEN -b ELSE b

First(b, neg) ==
    /\ st.state = "empty"
    /\ st' = [st EXCEPT !.term = Operand(b, neg), !.exact.term = Operand(b, neg),
                        !.state = "term"]

More == st.state = "term" /\ st.err = 0 /\ st.ops < MaxOps

Multiply(b, neg) ==
    LET c == Operand(b, neg)
        q == MulFix(st.term, c)
        e == Trunc(st.exact.term * c, CALC_FIX)
    IN  /\ More
        /\ st' = IF q >= Word THEN [st EXCEPT !.err = 3, !.ok = @ /\ Fits(e)]
                 ELSE [st EXCEPT !.term = Signs(st.term, c, q), !.exact.term = e,
                                 !.ok = @ /\ Fits(e), !.ops = @ + 1]

Over(b, neg) ==
    LET c == Operand(b, neg)
        q == DivFix(st.term, c)
        e == Trunc(st.exact.term * CALC_FIX, c)
    IN  /\ More
        /\ st' = IF c = 0 THEN [st EXCEPT !.err = 2]
                 ELSE IF q >= Word THEN [st EXCEPT !.err = 3, !.ok = @ /\ Fits(e)]
                 ELSE [st EXCEPT !.term = Signs(st.term, c, q), !.exact.term = e,
                                 !.ok = @ /\ Fits(e), !.ops = @ + 1]

\* The term is added to the sum, or taken from it; nothing looks for a carry.
Summed(s) ==
    LET e == s.exact.sum + s.sign * s.exact.term
    IN  [s EXCEPT !.sum = Signed(s.sum + s.sign * s.term), !.exact.sum = e,
                  !.ok = @ /\ Fits(e)]

Plus(sign, b) ==
    /\ More
    /\ st' = [Summed(st) EXCEPT !.sign = sign, !.term = b, !.exact.term = b, !.ops = @ + 1]

\* calc_eval, with its last check of the result.
Equals ==
    /\ st.state = "term"
    /\ LET s == Summed(st)
       IN  st' = IF st.err # 0 THEN [st EXCEPT !.state = "shown"]
                 ELSE IF s.sum > Limit \/ s.sum < -Limit
                 THEN [s EXCEPT !.err = 3, !.state = "shown"]
                 ELSE [s EXCEPT !.shown = s.sum, !.state = "shown"]

Again == st.state = "shown" /\ st' = Start

Next ==
    \/ \E b \in Literals, neg \in BOOLEAN : First(b, neg) \/ Multiply(b, neg) \/ Over(b, neg)
    \/ \E b \in Literals, sign \in {1, -1} : Plus(sign, b)
    \/ Equals \/ Again

\* As long as every value of the expression fits in a signed word, the result is
\* that of integer arithmetic cut towards zero, and an overflow is reported exactly
\* when it is beyond the limit.  (A value that does not fit is not always reported:
\* sums wrap, and a product between 2^31 and 2^32 comes out negative.)
Right ==
    st.state = "shown" /\ st.ok =>
        \/ st.err = 2
        \/ st.err = 0 /\ st.shown = st.exact.sum /\ st.shown \in -Limit..Limit
        \/ st.err = 3 /\ st.exact.sum \notin -Limit..Limit
=============================================================================
