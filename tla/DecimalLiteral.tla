--------------------------- MODULE DecimalLiteral ---------------------------
(***************************************************************************)
(* DecimalLiteral (JSONNumberConstraints.swift): the exact decimal values  *)
(* of numeric constraints and of the literals a model writes.              *)
(*                                                                         *)
(* A value is m * 10^e, normalized as in the source: no trailing zero in   *)
(* m, and zero is 0 * 10^0, so that equal values are equal records.  The   *)
(* digit-string arithmetic of the source is integer arithmetic here.       *)
(* An optional is a set with at most one element.                          *)
(***************************************************************************)
EXTENDS Integers, FiniteSetsExt

\* The bound on significands, aligned ones included: what TLC's integers hold.
MaxDigits == 9

Decimal(m, e) ==
    IF m = 0 THEN [m |-> 0, e |-> 0]
    ELSE LET zeros == Max({k \in 0..MaxDigits - 1 : m % 10 ^ k = 0})
         IN [m |-> m \div 10 ^ zeros, e |-> e + zeros]

Zero == Decimal(0, 0)

Abs(n) == IF n < 0 THEN -n ELSE n
Scaled(d, k) == Decimal(d.m, d.e + k)
Negated(d) == [d EXCEPT !.m = -@]
Magnitude(d) == [d EXCEPT !.m = Abs(@)]
IsInteger(d) == d.e >= 0

\* The decade of a value that is not zero: 10^n <= |d| < 10^(n+1).
DecadicExponent(d) == Min({k \in 1..MaxDigits : Abs(d.m) < 10 ^ k}) - 1 + d.e

-----------------------------------------------------------------------------
(* Order                                                                   *)

Common(a, b) == Min({a.e, b.e})
Aligned(d, e) == d.m * 10 ^ (d.e - e)

\* compareMagnitudes, of values that are not zero.
MagnitudeLess(a, b) ==
    LET da == DecadicExponent(a)
        db == DecadicExponent(b)
    IN \/ da < db
       \/ da = db /\ Abs(Aligned(a, Common(a, b))) < Abs(Aligned(b, Common(a, b)))

Less(a, b) ==
    \/ a.m <= 0 /\ b.m > 0
    \/ a.m < 0 /\ b.m = 0
    \/ a.m > 0 /\ b.m > 0 /\ MagnitudeLess(a, b)
    \/ a.m < 0 /\ b.m < 0 /\ MagnitudeLess(b, a)

LessEq(a, b) == a = b \/ Less(a, b)

-----------------------------------------------------------------------------
(* Arithmetic                                                              *)

AddInteger(d, n) == Decimal(Aligned(d, 0) + n, 0)
FloorInteger(d) == IF IsInteger(d) THEN d ELSE Decimal(d.m \div 10 ^ (-d.e), 0)
CeilInteger(d) == Negated(FloorInteger(Negated(d)))

\* The integers next to the quotient, by > 0.
FloorDivide(d, by) == Aligned(d, Common(d, by)) \div Aligned(by, Common(d, by))
CeilDivide(d, by) == -FloorDivide(Negated(d), by)

PowMod(k, modulus) ==
    LET power[i \in 0..k] == IF i = 0 THEN 1 % modulus ELSE (power[i - 1] * 10) % modulus
    IN power[k]

\* modulus divides |m| * 10^k.
Divides(modulus, m, k) ==
    IF k >= 0 THEN ((Abs(m) % modulus) * PowMod(k, modulus)) % modulus = 0
    ELSE /\ -k < MaxDigits
         /\ Abs(m) % 10 ^ (-k) = 0
         /\ (Abs(m) \div 10 ^ (-k)) % modulus = 0

IsMultiple(d, of) == d = Zero \/ Divides(Abs(of.m), d.m, d.e - of.e)

\* The exponent k for which d = base * 10^k, neither of them zero.
PowerOfTenRatio(d, base) == IF d.m = base.m THEN {d.e - base.e} ELSE {}

\* A multiple of d > 0 is an integer exactly if it is a multiple of this one.
LeastPositiveIntegerMultiple(d) ==
    IF IsInteger(d) THEN d
    ELSE LET gcd == Max({g \in 1..d.m : d.m % g = 0 /\ 10 ^ (-d.e) % g = 0})
         IN Decimal(d.m \div gcd, 0)

-----------------------------------------------------------------------------
(* Intervals: bounds are optional records of a value and whether it belongs *)

Bound(d, inclusive) == [value |-> d, inclusive |-> inclusive]

IntervalContainsMultiple(lower, upper, multiple) ==
    \A l \in lower, u \in upper :
        (IF l.inclusive THEN CeilDivide(l.value, multiple) ELSE FloorDivide(l.value, multiple) + 1)
            <= (IF u.inclusive THEN FloorDivide(u.value, multiple)
                ELSE CeilDivide(u.value, multiple) - 1)

IntervalNonempty(lower, upper) ==
    \A l \in lower, u \in upper :
        Less(l.value, u.value) \/ (l.value = u.value /\ l.inclusive /\ u.inclusive)

\* The largest k for which base * 10^k is at most (below, when strict) the limit.
MaxExponentScaling(base, limit, strict) ==
    IF limit.m <= 0 THEN {}
    ELSE LET k == DecadicExponent(limit) - DecadicExponent(base)
             fits == IF strict THEN MagnitudeLess(Scaled(base, k), limit)
                     ELSE ~MagnitudeLess(limit, Scaled(base, k))
         IN {IF fits THEN k ELSE k - 1}

\* The smallest k for which base * 10^k is at least (above, when strict) the limit;
\* none when every k does.
MinExponentScaling(base, limit, strict) ==
    IF limit.m <= 0 THEN {}
    ELSE LET k == DecadicExponent(limit) - DecadicExponent(base)
             fits == IF strict THEN MagnitudeLess(limit, Scaled(base, k))
                     ELSE ~MagnitudeLess(Scaled(base, k), limit)
         IN {IF fits THEN k ELSE k + 1}
=============================================================================
