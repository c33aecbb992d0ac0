------------------------------ MODULE Numbers ------------------------------
(* The evaluable functors of is/2 (machine/arithmetic_ops.rs, arithmetic.rs)
   over the four representations of a number: fixnums in a heap cell, big
   integers and rationals in the arena, and floats.  The widths are small but
   stand in the same relation as in the program: a product of fixnums may
   exceed a machine word, a sum may not; floats have fewer mantissa bits than
   a fixnum has bits, so a fixnum may change when it becomes a float.

   A number is a record [t, n, d] with value n/d (d = 1 for integers, 0 for an
   infinite float); an error is a record [error].  The big-integer and
   rational libraries are taken to be exact.  The transcendental functions
   and powers of floats are not modelled, nor is the sign of a zero.        *)
EXTENDS Integers, Sequences, FiniteSets

CONSTANTS FixBits,      \* bits of Fixnum (56)
          WordBits,     \* bits of i64 and of the shift count's limit (64)
          Mantissa,     \* bits of a float's mantissa (53)
          FracBits,     \* the least positive float is 2^-FracBits
          MaxExp        \* greatest exponent
ASSUME WidthsAssumption == /\ FixBits \in Nat /\ WordBits \in Nat /\ Mantissa \in Nat
                           /\ Mantissa < FixBits /\ FixBits + 1 < WordBits
                           /\ WordBits < 2 * FixBits - 1
                           /\ FracBits \in Nat /\ MaxExp \in Nat /\ FixBits < Mantissa + MaxExp

FixMin == -(2^(FixBits - 1))
FixMax == 2^(FixBits - 1) - 1
InFix(n) == FixMin <= n /\ n <= FixMax
InWord(n) == -(2^(WordBits - 1)) <= n /\ n < 2^(WordBits - 1)

Fix(n) == [t |-> "fix", n |-> n, d |-> 1]
Big(n) == [t |-> "int", n |-> n, d |-> 1]
Flt(n, d) == [t |-> "flt", n |-> n, d |-> d]
Err(kind) == [error |-> kind]
IsErr(x) == "error" \in DOMAIN x

(* Only an i64 that does not fit becomes an Integer; an Integer stays one
   however small it is.                                                     *)
FixNum(n) == IF InFix(n) THEN Fix(n) ELSE Big(n)
CheckedWord(n) == IF InWord(n) THEN Fix(n) ELSE Big(n)    \* mutant of Checked
Checked(n) == IF InWord(n) THEN FixNum(n) ELSE Big(n)

AbsOf(n) == IF n < 0 THEN -n ELSE n
IsizeGcd[n1 \in Nat, n2 \in Nat] ==
  CASE n1 = 0 -> n2
    [] n2 = 0 -> n1
    [] n1 % 2 = 0 /\ n2 % 2 = 0 -> 2 * IsizeGcd[n1 \div 2, n2 \div 2]
    [] n1 % 2 = 0 /\ n2 % 2 = 1 -> IsizeGcd[n1 \div 2, n2]
    [] n1 % 2 = 1 /\ n2 % 2 = 0 -> IsizeGcd[n1, n2 \div 2]
    [] OTHER -> IF n1 > n2 THEN IsizeGcd[n2, n1 - n2] ELSE IsizeGcd[n1, n2 - n1]
Rat(n, d) == LET g == IsizeGcd[AbsOf(n), AbsOf(d)]
                 s == IF d < 0 THEN -1 ELSE 1
             IN [t |-> "rat", n |-> s * (n \div g), d |-> s * (d \div g)]

IsInteger(x) == x.t \in {"fix", "int"}
IsNegative(x) == x.n < 0
IsZero(x) == x.n = 0
Is(t, x, y) == t \in {x.t, y.t}
BothFix(x, y) == x.t = "fix" /\ y.t = "fix"

---------------------------------------------------------------------------
(* Floats: m * 2^e with m < 2^Mantissa, in units of 2^-FracBits. *)
Unit == 2^FracBits
Infinite == 2^(Mantissa + MaxExp + FracBits)
FloatUnits == {m * 2^e : m \in 0..(2^Mantissa - 1), e \in 0..(MaxExp + FracBits)} \cup {Infinite}
EvenMantissa(k) == LET e == CHOOSE e \in 0..(Mantissa + MaxExp) :
                              k < 2^(Mantissa + e) /\ \A f \in 0..(e - 1) : k >= 2^(Mantissa + f)
                   IN (k \div 2^e) % 2 = 0

(* Round to nearest, ties to even. *)
RoundF(n, d) ==
  LET a == AbsOf(n) * Unit
      lo == CHOOSE k \in FloatUnits : k * d <= a /\ \A j \in FloatUnits : j * d <= a => j <= k
      hi == CHOOSE k \in FloatUnits : k * d >= a /\ \A j \in FloatUnits : j * d >= a => j >= k
      k  == IF a >= Infinite * d THEN Infinite
            ELSE CASE a - lo * d < hi * d - a -> lo
                   [] a - lo * d > hi * d - a -> hi
                   [] OTHER -> IF EvenMantissa(lo) THEN lo ELSE hi
      q  == Rat(IF n < 0 THEN -k ELSE k, Unit)
  IN IF k = Infinite THEN Flt(IF n < 0 THEN -1 ELSE 1, 0) ELSE Flt(q.n, q.d)

RndF(x) == IF x.t = "flt" THEN x ELSE RoundF(x.n, x.d)
ClassifyFloat(f) == IF f.d = 0 THEN Err("float_overflow") ELSE f
ResultF(x) == ClassifyFloat(RndF(x))
OnFloats(F(_, _), x, y) ==
  LET f1 == ResultF(x) f2 == ResultF(y)
  IN IF IsErr(f1) THEN f1 ELSE IF IsErr(f2) THEN f2 ELSE F(f1, f2)
AddF(x, y) == ClassifyFloat(RoundF(x.n * y.d + y.n * x.d, x.d * y.d))
MulF(x, y) == ClassifyFloat(RoundF(x.n * y.n, x.d * y.d))
DivF(x, y) == IF y.n = 0 THEN Err("zero_divisor")
              ELSE LET q == Rat(x.n * y.d, x.d * y.n) IN ClassifyFloat(RoundF(q.n, q.d))

---------------------------------------------------------------------------
(* arithmetic_ops.rs *)
Add(x, y) == CASE Is("flt", x, y) -> OnFloats(AddF, x, y)
               [] Is("rat", x, y) -> Rat(x.n * y.d + y.n * x.d, x.d * y.d)
               [] BothFix(x, y)   -> Checked(x.n + y.n)
               [] OTHER           -> Big(x.n + y.n)
Mul(x, y) == CASE Is("flt", x, y) -> OnFloats(MulF, x, y)
               [] Is("rat", x, y) -> Rat(x.n * y.n, x.d * y.d)
               [] BothFix(x, y)   -> Checked(x.n * y.n)
               [] OTHER           -> Big(x.n * y.n)
Neg(x) == IF x.t = "fix" THEN Checked(-x.n) ELSE [x EXCEPT !.n = -x.n]
Abs(x) == CASE x.t = "fix" -> IF InFix(AbsOf(x.n)) THEN Fix(AbsOf(x.n)) ELSE Big(FixMax + 1)
            [] OTHER       -> [x EXCEPT !.n = AbsOf(x.n)]
Sub(x, y) == Add(x, Neg(y))
Div(x, y) == IF IsZero(y) THEN Err("zero_divisor") ELSE OnFloats(DivF, x, y)

(* Comparison: a float on either side makes the other side a float, an
   infinite one if need be.                                                 *)
Cmp(x, y) == LET a == IF y.t = "flt" THEN RndF(x) ELSE x
                 b == IF x.t = "flt" THEN RndF(y) ELSE y
                 l == a.n * (IF b.d = 0 THEN IF a.d = 0 THEN 1 ELSE 0 ELSE b.d)
                 r == b.n * (IF a.d = 0 THEN IF b.d = 0 THEN 1 ELSE 0 ELSE a.d)
             IN IF l < r THEN -1 ELSE IF l > r THEN 1 ELSE 0
CmpFloats(x, y, Choose(_, _, _)) ==
  LET f1 == ResultF(x) f2 == ResultF(y)
  IN IF IsErr(f1) THEN f1 ELSE IF IsErr(f2) THEN f2 ELSE Choose(Cmp(f1, f2), f1, f2)
ExactKinds(x, y) == (IsInteger(x) /\ IsInteger(y)) \/ (x.t = "rat" /\ y.t = "rat")
MaxN(x, y) == LET Pick(c, f1, f2) == IF c < 0 THEN y ELSE IF c = 0 THEN f2 ELSE x
             IN IF ~ExactKinds(x, y) THEN CmpFloats(x, y, Pick)
                ELSE CASE x.t = "fix" /\ y.t = "int" -> IF Cmp(y, x) > 0 THEN y ELSE x
                       [] OTHER -> IF Cmp(x, y) > 0 THEN x ELSE y
MinN(x, y) == LET Pick(c, f1, f2) == IF c < 0 THEN x ELSE IF c = 0 THEN f1 ELSE y
             IN IF ~ExactKinds(x, y) THEN CmpFloats(x, y, Pick)
                ELSE CASE x.t = "fix" /\ y.t = "int" -> IF Cmp(y, x) < 0 THEN y ELSE x
                       [] OTHER -> IF Cmp(x, y) < 0 THEN x ELSE y

RationalFromNumber(x) == IF x.t = "rat" THEN x ELSE Rat(x.n, x.d)
RDiv(x, y) == LET a == RationalFromNumber(x) b == RationalFromNumber(y)
              IN IF IsZero(b) THEN Err("zero_divisor") ELSE Rat(a.n * b.d, a.d * b.n)

(* The culprit of a type error is the second operand when only it is wrong. *)
TypeError(x, y) == Err(IF IsInteger(x) THEN "type_error_2" ELSE "type_error_1")
OnIntegers(F(_, _), x, y) == IF IsInteger(x) /\ IsInteger(y) THEN F(x, y) ELSE TypeError(x, y)
Quot(a, b) == LET q == AbsOf(a) \div AbsOf(b) IN IF (a < 0) = (b < 0) THEN q ELSE -q
RemFloor(a, b) == LET r == a % AbsOf(b) IN IF b < 0 /\ r # 0 THEN r + b ELSE r
IDiv(x, y) == LET F(a, b) == IF IsZero(b) THEN Err("zero_divisor")
                             ELSE IF BothFix(a, b) THEN Checked(Quot(a.n, b.n))
                             ELSE Big(Quot(a.n, b.n))
              IN OnIntegers(F, x, y)
Modulus(x, y) == LET F(a, b) == IF IsZero(b) THEN Err("zero_divisor")
                                ELSE IF BothFix(a, b) THEN FixNum(RemFloor(a.n, b.n))
                                ELSE Big(RemFloor(a.n, b.n))
                 IN OnIntegers(F, x, y)
Remainder(x, y) == LET F(a, b) == IF IsZero(b) THEN Err("zero_divisor")
                                  ELSE IF BothFix(a, b) THEN FixNum(a.n - b.n * Quot(a.n, b.n))
                                  ELSE Big(a.n - b.n * Quot(a.n, b.n))
                   IN OnIntegers(F, x, y)
IntFloorDiv(x, y) == LET m == Modulus(x, y)
                     IN IF IsErr(m) THEN m ELSE IDiv(Sub(x, m), y)
Gcd(x, y) == LET g == IsizeGcd[AbsOf(x.n), AbsOf(y.n)]
             IN CASE BothFix(x, y) -> FixNum(g)
                  [] x.t = "flt" \/ (x.t = "rat" /\ y.t # "flt") -> Err("type_error_1")
                  [] y.t \in {"flt", "rat"} -> Err("type_error_2")
                  [] OTHER -> Big(g)

(* Shifts.  A count that does not fit is clamped; a negative one shifts the
   other way.  Counts of WordBits and more empty a fixnum.                  *)
ShiftedRight(n, k) == n \div 2^k
LeadingZeros(n) == CHOOSE z \in 0..WordBits : n < 2^(WordBits - z) /\ (z < WordBits => n >= 2^(WordBits - z - 1))
CheckedSignedShl(n, k) == k = 0 \/ k < LeadingZeros(AbsOf(n))
ShrBy(x, k) == IF x.t = "fix" THEN FixNum(IF k < WordBits THEN ShiftedRight(x.n, k) ELSE 0)
               ELSE Big(ShiftedRight(x.n, k))
ShlBy(x, k) == IF x.t = "fix" /\ CheckedSignedShl(x.n, k) THEN FixNum(x.n * 2^k) ELSE Big(x.n * 2^k)
Shr(x, y) == LET F(a, b) == IF IsNegative(b) THEN ShlBy(a, -b.n) ELSE ShrBy(a, b.n)
             IN OnIntegers(F, x, y)
Shl(x, y) == LET F(a, b) == IF IsNegative(b) THEN ShrBy(a, -b.n) ELSE ShlBy(a, b.n)
             IN OnIntegers(F, x, y)

BitAnd[a \in Int, b \in Int] ==
  IF a = 0 \/ b = 0 THEN 0 ELSE IF a = -1 THEN b ELSE IF b = -1 THEN a
  ELSE (a % 2) * (b % 2) + 2 * BitAnd[a \div 2, b \div 2]
OnBits(n, x, y) == IF BothFix(x, y) THEN FixNum(n) ELSE Big(n)
And(x, y) == LET F(a, b) == OnBits(BitAnd[a.n, b.n], a, b) IN OnIntegers(F, x, y)
Or(x, y)  == LET F(a, b) == OnBits(-1 - BitAnd[-1 - a.n, -1 - b.n], a, b) IN OnIntegers(F, x, y)
Xor(x, y) == LET F(a, b) == OnBits(a.n + b.n - 2 * BitAnd[a.n, b.n], a, b) IN OnIntegers(F, x, y)
BitwiseComplement(x) == CASE x.t = "fix" -> Fix(-1 - x.n)
                          [] x.t = "int" -> Big(-1 - x.n)
                          [] OTHER       -> Err("type_error_1")

(* n ^ power, ignoring the sign of power; int_pow asks for it only when the
   base is 1, 0 or -1 or the exponent is not negative.                      *)
BinaryPow[n \in Int, power \in Nat] ==
  IF power = 0 THEN 1
  ELSE IF power = 1 THEN n
  ELSE (IF power % 2 = 1 THEN n ELSE 1) * BinaryPow[n * n, power \div 2]
IntPow(x, y) == CASE IsZero(x) /\ IsNegative(y) -> Err("undefined")
                  [] AbsOf(x.n) > 1 /\ IsNegative(y) -> Err("type_error_1")
                  [] BothFix(x, y) /\ ~IsNegative(y) -> Checked(BinaryPow[x.n, y.n])
                  [] OTHER -> Big(BinaryPow[x.n, AbsOf(y.n)])

(* Roundings.  rnd_i floors, and is the one place where a big integer that
   fits becomes a fixnum; the bounds it compares a float with are the fixnum
   bounds as floats, and a float at the upper one wraps.                    *)
WrapFix(n) == ((n - FixMin) % 2^FixBits) + FixMin
RndI(x) ==
  LET f == x.n \div x.d
  IN IF x.t = "flt" /\ Cmp(Flt(f, 1), RndF(Fix(FixMin))) >= 0 /\ Cmp(Flt(f, 1), RndF(Fix(FixMax))) <= 0
     THEN Fix(WrapFix(f))
     ELSE FixNum(f)
Floor(x) == RndI(x)
Ceiling(x) == Neg(Floor(Neg(x)))
Truncate(x) == IF IsNegative(x) THEN Neg(Floor(Abs(x))) ELSE Floor(x)
Round(x) == LET away == (2 * AbsOf(x.n) + x.d) \div (2 * x.d)
                r == IF x.n < 0 THEN -away ELSE away
            IN IF IsInteger(x) THEN RndI(x)
               ELSE RndI(IF x.t = "rat" THEN Big(r) ELSE RoundF(r, 1))
FloatIntegerPart(x) == LET f == ResultF(x)
                       IN IF IsErr(f) THEN f ELSE ClassifyFloat(RoundF(Quot(f.n, f.d), 1))
FloatFractionalPart(x) == LET f == ResultF(x)
                          IN IF IsErr(f) THEN f ELSE ClassifyFloat(RoundF(f.n - f.d * Quot(f.n, f.d), f.d))
Sign(x) == LET s == IF x.n < 0 THEN -1 ELSE IF x.n > 0 THEN 1 ELSE 0
           IN IF x.t = "flt" THEN Flt(s, 1) ELSE Fix(s)

---------------------------------------------------------------------------
(* The two evaluable tables: the same names in arith_eval_by_metacall and in
   get_unary_instr / get_binary_instr.                                      *)
UnaryNames == {"-", "+", "abs", "sign", "\\", "floor", "ceiling", "truncate", "round",
               "float", "float_integer_part", "float_fractional_part"}
BinaryNames == {"+", "-", "*", "/", "//", "div", "rdiv", "mod", "rem", "gcd", "max", "min",
                ">>", "<<", "/\\", "\\/", "xor", "^"}
EvalUnary(name, x) ==
  CASE name = "-" -> Neg(x)
    [] name = "+" -> x
    [] name = "abs" -> Abs(x)
    [] name = "sign" -> Sign(x)
    [] name = "\\" -> BitwiseComplement(x)
    [] name = "floor" -> Floor(x)
    [] name = "ceiling" -> Ceiling(x)
    [] name = "truncate" -> Truncate(x)
    [] name = "round" -> Round(x)
    [] name = "float" -> ResultF(x)
    [] name = "float_integer_part" -> FloatIntegerPart(x)
    [] name = "float_fractional_part" -> FloatFractionalPart(x)
    [] OTHER -> Err("evaluable")
EvalBinary(name, x, y) ==
  CASE name = "+" -> Add(x, y)
    [] name = "-" -> Sub(x, y)
    [] name = "*" -> Mul(x, y)
    [] name = "/" -> Div(x, y)
    [] name = "//" -> IDiv(x, y)
    [] name = "div" -> IntFloorDiv(x, y)
    [] name = "rdiv" -> RDiv(x, y)
    [] name = "mod" -> Modulus(x, y)
    [] name = "rem" -> Remainder(x, y)
    [] name = "gcd" -> Gcd(x, y)
    [] name = "max" -> MaxN(x, y)
    [] name = "min" -> MinN(x, y)
    [] name = ">>" -> Shr(x, y)
    [] name = "<<" -> Shl(x, y)
    [] name = "/\\" -> And(x, y)
    [] name = "\\/" -> Or(x, y)
    [] name = "xor" -> Xor(x, y)
    [] name = "^" -> IntPow(x, y)
    [] OTHER -> Err("evaluable")

---------------------------------------------------------------------------
(* What the operations promise, in terms of the integers themselves. *)
Bit(n, i) == (n \div 2^i) % 2
Divides(b, n) == n % AbsOf(b) = 0
IsResult(name, a, b, v) ==
  CASE name = "+" -> v = a + b
    [] name = "-" -> v = a - b
    [] name = "*" -> v = a * b
    [] name = "//" -> AbsOf(a) - AbsOf(v) * AbsOf(b) \in 0..(AbsOf(b) - 1) /\ v * a * b >= 0
    [] name = "div" -> IF b > 0 THEN a - v * b \in 0..(b - 1) ELSE v * b - a \in 0..(-b - 1)
    [] name = "mod" -> Divides(b, a - v) /\ (IF b > 0 THEN v \in 0..(b - 1) ELSE -v \in 0..(-b - 1))
    [] name = "rem" -> Divides(b, a - v) /\ AbsOf(v) < AbsOf(b) /\ v * a >= 0
    [] name = "gcd" -> IF a = 0 /\ b = 0 THEN v = 0
                       ELSE /\ v > 0 /\ Divides(v, a) /\ Divides(v, b)
                            /\ \A c \in (v + 1)..(AbsOf(a) + AbsOf(b)) : ~(Divides(c, a) /\ Divides(c, b))
    [] name = "max" -> v \in {a, b} /\ v >= a /\ v >= b
    [] name = "min" -> v \in {a, b} /\ v <= a /\ v <= b
    [] name = ">>" -> IF b < 0 THEN v = a * 2^(-b) ELSE a - v * 2^b \in 0..(2^b - 1)
    [] name = "<<" -> IF b >= 0 THEN v = a * 2^b ELSE a - v * 2^(-b) \in 0..(2^(-b) - 1)
    [] name = "/\\" -> \A i \in 0..WordBits : Bit(v, i) = Bit(a, i) * Bit(b, i)
    [] name = "\\/" -> \A i \in 0..WordBits : (Bit(v, i) = 0) <=> (Bit(a, i) + Bit(b, i) = 0)
    [] name = "xor" -> \A i \in 0..WordBits : (Bit(v, i) = 0) <=> (Bit(a, i) = Bit(b, i))
    [] name = "^" -> v = IF b = 0 THEN 1 ELSE a^AbsOf(b)
Refuses(name, a, b) ==
  CASE name \in {"//", "div", "mod", "rem"} /\ b = 0 -> {"zero_divisor"}
    [] name = "^" /\ b < 0 /\ a = 0 -> {"undefined"}
    [] name = "^" /\ b < 0 /\ AbsOf(a) > 1 -> {"type_error_1"}
    [] OTHER -> {}

(* An integer operation gives the mathematical result, or the error the
   standard asks for, however its operands are represented: the switch from
   machine words to big integers and the unnormalised big integers that come
   back never show in the value, and a fixnum never leaves its range.       *)
IntegerExact(name, x, y) ==
  LET r == EvalBinary(name, x, y)
      e == Refuses(name, x.n, y.n)
  IN IF IsErr(r) THEN r.error \in e
     ELSE /\ e = {}
          /\ IsInteger(r) /\ IsResult(name, x.n, y.n, r.n)
          /\ r.t = "fix" => InFix(r.n)

(* floor, ceiling, truncate and round of an integer, rational or float give
   the integer the standard names, and a fixnum never leaves its range; the
   float 2^(FixBits - 1), which wraps, is excepted (see WrapFix).           *)
RoundsExactly(x) ==
  LET f == Floor(x) c == Ceiling(x) t == Truncate(x) r == Round(x)
      Least(v) == AbsOf(2 * (v.n * x.d - x.n)) <= x.d
  IN /\ \A v \in {f, c, t, r} : IsInteger(v) /\ (v.t = "fix" => InFix(v.n))
     /\ f.n * x.d <= x.n /\ x.n < (f.n + 1) * x.d
     /\ (c.n - 1) * x.d < x.n /\ x.n <= c.n * x.d
     /\ t.n = IF x.n < 0 THEN c.n ELSE f.n
     /\ Least(r) /\ (AbsOf(2 * (r.n * x.d - x.n)) = x.d => AbsOf(r.n) * x.d > AbsOf(x.n))

(* Comparison agrees with the exact order on numbers that are not floats,
   never reverses it when a float is involved, is antisymmetric, and max and
   min return a bound of both operands in the same order.                   *)
OrderFaithful(x, y) ==
  LET exact == x.n * y.d - y.n * x.d
      c == Cmp(x, y)
      hi == MaxN(x, y)
      lo == MinN(x, y)
  IN /\ c = -Cmp(y, x)
     /\ exact * c >= 0
     /\ "flt" \notin {x.t, y.t} \/ x.t = y.t => ((exact = 0) <=> (c = 0))
     /\ IsErr(hi) \/ (Cmp(hi, x) >= 0 /\ Cmp(hi, y) >= 0)
     /\ IsErr(lo) \/ (Cmp(lo, x) <= 0 /\ Cmp(lo, y) <= 0)
=============================================================================
