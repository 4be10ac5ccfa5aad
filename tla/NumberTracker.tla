---------------------------- MODULE NumberTracker ----------------------------
(***************************************************************************)
(* NumericConstraintSet and ExponentReachability                           *)
(* (JSONNumberConstraints.swift), NumberTracker (JSONGrammar.swift): which *)
(* number literals a constrained field accepts, and, after every byte of   *)
(* one, whether some completion of what has been read is accepted.         *)
(*                                                                         *)
(* Constraints are optional bounds, an optional multipleOf and an optional *)
(* set of allowed values (the enum).  A prefix is what has been read: its  *)
(* digits as integers and their numbers, and the state of its exponent.    *)
(* The loops of the source are quantifiers over the windows they visit.    *)
(***************************************************************************)
EXTENDS DecimalLiteral, Sequences, SequencesExt

\* An exponent above this is no value for exactValue.
MaximumExponent == 1000000

\* The windows scaledIntervalContainsMultiple visits at most.
ScanLimit == 800

\* The source's 40 scales of an exponent prefix and its 512 powers of ten for a
\* multiple: these suffice for exponents below 10^6 and multiples below 2^8.
ScaleLimit == 6
GammaLimit == 8

-----------------------------------------------------------------------------
(* Acceptance                                                              *)

Accepts(c, v) ==
    /\ \A min \in c.minimum : LessEq(min, v)
    /\ \A max \in c.maximum : LessEq(v, max)
    /\ \A min \in c.exclusiveMinimum : Less(min, v)
    /\ \A max \in c.exclusiveMaximum : Less(v, max)
    /\ \A multiple \in c.multipleOf : IsMultiple(v, multiple)
    /\ \A values \in c.allowed : v \in values

-----------------------------------------------------------------------------
(* Bounds                                                                  *)

Largest(values) == {v \in values : \A w \in values : LessEq(w, v)}
Smallest(values) == {v \in values : \A w \in values : LessEq(v, w)}

\* integerInterval, inclusive bounds: the exclusive ones move to the next integer.
LowerIntegers(c) ==
    {CeilInteger(min) : min \in c.minimum}
        \cup {AddInteger(FloorInteger(min), 1) : min \in c.exclusiveMinimum}
UpperIntegers(c) ==
    {FloorInteger(max) : max \in c.maximum}
        \cup {AddInteger(CeilInteger(max), -1) : max \in c.exclusiveMaximum}

IntegerInterval(c) == [lower |-> Largest(LowerIntegers(c)), upper |-> Smallest(UpperIntegers(c))]

\* An exclusive bound wins over an equal inclusive one.
EffectiveBounds(c) ==
    LET lowers == Largest(c.minimum \cup c.exclusiveMinimum)
        uppers == Smallest(c.maximum \cup c.exclusiveMaximum)
    IN [lower |-> {Bound(v, v \notin c.exclusiveMinimum) : v \in lowers},
        upper |-> {Bound(v, v \notin c.exclusiveMaximum) : v \in uppers}]

Mirrored(bounds) == {Bound(Negated(b.value), b.inclusive) : b \in bounds}

MagnitudeInterval(c, negative) ==
    LET bounds == EffectiveBounds(c)
    IN IF negative THEN [lower |-> Mirrored(bounds.upper), upper |-> Mirrored(bounds.lower)]
       ELSE bounds

Inclusive(values) == {Bound(v, TRUE) : v \in values}

IsEmptyInterval(interval) ==
    \E l \in interval.lower, u \in interval.upper : Less(u, l)

\* Some literal of the kind is accepted: asked when the schema is compiled.
IsSatisfiable(c, kind) ==
    LET integers == IntegerInterval(c)
        bounds == EffectiveBounds(c)
    IN IF c.allowed # {} THEN \E v \in UNION c.allowed : Accepts(c, v)
       ELSE IF kind = "integer" THEN
          /\ ~IsEmptyInterval(integers)
          /\ \A multiple \in c.multipleOf :
                IntervalContainsMultiple(Inclusive(integers.lower), Inclusive(integers.upper),
                                         LeastPositiveIntegerMultiple(multiple))
       ELSE
          /\ IntervalNonempty(bounds.lower, bounds.upper)
          /\ \A multiple \in c.multipleOf :
                IntervalContainsMultiple(bounds.lower, bounds.upper, multiple)

-----------------------------------------------------------------------------
(* Prefixes                                                                *)

\* digits: the whole and fraction digits as one integer.  The exponent is none, bare
\* (only its letter), signed, or has digits.
NoPrefix == [negative |-> FALSE, whole |-> 0, digits |-> 0, hasFraction |-> FALSE, places |-> 0,
             exponent |-> [at |-> "none"]]

\* numberMagnitudeInterval: the reachable magnitudes are x * 10^e, base <= x < top.
Base(p) == Decimal(p.digits, -p.places)
Top(p) == Decimal(p.digits + 1, -p.places)

\* The digit d comes next.
AppendDigit(p, d) ==
    CASE p.exponent.at = "none" ->
           [p EXCEPT !.digits = @ * 10 + d,
                     !.whole = IF p.hasFraction THEN @ ELSE @ + 1,
                     !.places = IF p.hasFraction THEN @ + 1 ELSE @]
      [] p.exponent.at = "bare" ->
           [p EXCEPT !.exponent = [at |-> "digits", negative |-> FALSE, value |-> d]]
      [] p.exponent.at = "sign" ->
           [p EXCEPT !.exponent = [at |-> "digits", negative |-> @.negative, value |-> d]]
      [] OTHER -> [p EXCEPT !.exponent.value = @ * 10 + d]

ConsumeStart(p, b) == IF b = 45 THEN [p EXCEPT !.negative = TRUE] ELSE AppendDigit(p, b - 48)

Consume(p, b) ==
    CASE b \in {43, 45} -> [p EXCEPT !.exponent = [at |-> "sign", negative |-> b = 45]]
      [] b = 46 -> [p EXCEPT !.hasFraction = TRUE]
      [] b \in {69, 101} -> [p EXCEPT !.exponent = [at |-> "bare"]]
      [] OTHER -> AppendDigit(p, b - 48)

\* The value of a literal that may end here.
ExactValue(p) ==
    LET value(e) == {Decimal(IF p.negative THEN -p.digits ELSE p.digits, e - p.places)}
    IN CASE p.exponent.at = "none" -> value(0)
         [] p.exponent.at = "digits" ->
              IF p.exponent.value > MaximumExponent THEN {}
              ELSE value(IF p.exponent.negative THEN -p.exponent.value ELSE p.exponent.value)
         [] OTHER -> {}

-----------------------------------------------------------------------------
(* Integers: digits only, so the windows digits * 10^j .. (digits + 1) * 10^j - 1 *)

HasDigits(p) == p.whole > 0

IntegerReaches(v, p) ==
    IF v = Zero THEN p.digits = 0
    ELSE /\ (v.m < 0) = p.negative
         /\ \/ ~HasDigits(p)
            \/ p.digits # 0 /\ \E j \in 0..MaxDigits : Abs(Aligned(v, 0)) \div 10 ^ j = p.digits

\* The windows that meet the interval, by their j.
FirstWindow(p, lower) ==
    LET exponents == UNION {MinExponentScaling(Top(p), l, TRUE) :
                              l \in {l \in lower : Less(Base(p), l)}}
    IN Max({0} \cup exponents)

LastWindow(p, upper) == UNION {MaxExponentScaling(Base(p), u, FALSE) : u \in upper}

\* Without an upper bound the windows from here on are wider than the multiple.
WideWindow(first, multiple) == Max({first + 1, DecadicExponent(multiple) + 1})

WindowHasMultiple(p, j, lower, upper, multiple) ==
    LET first == Scaled(Base(p), j)
        last == AddInteger(Scaled(Top(p), j), -1)
    IN IntervalContainsMultiple(Inclusive(Largest(lower \cup {first})),
                                Inclusive(Smallest(upper \cup {last})), multiple)

IntegerWindows(p, lower, upper, multiples) ==
    LET first == FirstWindow(p, lower)
    IN /\ \A u \in upper : ~Less(u, Base(p))
       /\ \A last \in LastWindow(p, upper) : first <= last
       /\ \A multiple \in multiples :
             LET narrow == IF Less(multiple, Top(p)) THEN {}
                           ELSE MinExponentScaling(Top(p), multiple, TRUE)
                 start == Max({first} \cup narrow)
                 ends == IF upper = {} THEN {WideWindow(start, multiple)} ELSE LastWindow(p, upper)
             IN \E end \in ends : \E j \in start..end :
                   WindowHasMultiple(p, j, lower, upper, multiple)

IntegerHasCompletion(c, p) ==
    LET interval == IntegerInterval(c)
        lower == IF p.negative THEN {Negated(u) : u \in interval.upper} ELSE interval.lower
        upper == IF p.negative THEN {Negated(l) : l \in interval.lower} ELSE interval.upper
        multiples == {LeastPositiveIntegerMultiple(multiple) : multiple \in c.multipleOf}
        clipped == Inclusive(Largest(lower \cup {Zero}))
    IN IF c.allowed # {} THEN \E v \in UNION c.allowed : Accepts(c, v) /\ IntegerReaches(v, p)
       ELSE IF HasDigits(p) /\ p.digits = 0 THEN Accepts(c, Zero)
       ELSE
          /\ ~IsEmptyInterval(interval)
          /\ IF HasDigits(p) THEN IntegerWindows(p, lower, upper, multiples)
             ELSE /\ multiples = {} => IntervalNonempty(clipped, Inclusive(upper))
                  /\ \A multiple \in multiples :
                        IntervalContainsMultiple(clipped, Inclusive(upper), multiple)

-----------------------------------------------------------------------------
(* Numbers without an exponent: the windows [Base, Top) * 10^e, every e    *)

NumberReaches(v, p) ==
    IF v = Zero THEN p.digits = 0
    ELSE /\ (v.m < 0) = p.negative
         /\ \/ p.digits = 0
            \/ \E d \in -1..1 :
                 LET aligned == Scaled(Magnitude(v),
                                       DecadicExponent(Base(p)) - DecadicExponent(v) + d)
                 IN LessEq(Base(p), aligned) /\ Less(aligned, Top(p))

FirstScale(p, lower) == UNION {MinExponentScaling(Top(p), l.value, TRUE) : l \in lower}
LastScale(p, upper) == UNION {MaxExponentScaling(Base(p), u.value, ~u.inclusive) : u \in upper}

ScaledIntersects_LowerInclusive(p, interval) ==
    /\ \A u \in interval.upper : u.value.m > 0
    /\ \A first \in UNION {MinExponentScaling(Top(p), l.value, FALSE) : l \in interval.lower},
         last \in LastScale(p, interval.upper) : first <= last

\* scaledIntervalIntersects: some window meets both bounds.
ScaledIntersects(p, interval) ==
    /\ \A u \in interval.upper : u.value.m > 0
    /\ \A first \in FirstScale(p, interval.lower), last \in LastScale(p, interval.upper) :
          first <= last

\* The tighter of a bound and an end of the window; the bound when they are equal
\* and the window's end belongs to it.
ClippedLower(bound, l) == IF bound = {} \/ \E b \in bound : Less(b.value, l) THEN {Bound(l, TRUE)}
                          ELSE bound
ClippedUpper(bound, u) == IF \E b \in bound : Less(b.value, u) THEN bound ELSE {Bound(u, FALSE)}

\* scaledIntervalContainsMultiple: in windows below `floor` lies no multiple but zero.
ScaledContainsMultiple(p, interval, multiple) ==
    LET floor == DecadicExponent(multiple) - DecadicExponent(Base(p)) - 1
        first == Max({floor} \cup FirstScale(p, interval.lower))
    IN \/ interval.upper = {}
       \/ /\ \A u \in interval.upper : u.value.m > 0
          /\ \E last \in LastScale(p, interval.upper) :
               \E e \in first..Min({last, first + ScanLimit - 1}) :
                  IntervalContainsMultiple(
                      ClippedLower(interval.lower, Scaled(Base(p), e)),
                      ClippedUpper(interval.upper, Scaled(Top(p), e)), multiple)

\* What a zero prefix still reaches: every magnitude of the interval.
FromZero(lower) ==
    IF lower = {} \/ \E l \in lower : l.value.m < 0 THEN {Bound(Zero, TRUE)} ELSE lower

PlainHasCompletion(c, p) ==
    LET interval == MagnitudeInterval(c, p.negative)
    IN IF c.allowed # {} THEN \E v \in UNION c.allowed : Accepts(c, v) /\ NumberReaches(v, p)
       ELSE IF p.digits = 0 THEN
          IF c.multipleOf = {} THEN IntervalNonempty(FromZero(interval.lower), interval.upper)
          ELSE \E multiple \in c.multipleOf :
                  IntervalContainsMultiple(FromZero(interval.lower), interval.upper, multiple)
       ELSE IF c.multipleOf = {} THEN ScaledIntersects(p, interval)
       ELSE \E multiple \in c.multipleOf : ScaledContainsMultiple(p, interval, multiple)

-----------------------------------------------------------------------------
(* Numbers with an exponent: the values Base * 10^e of the reachable e     *)

Sign(x) == IF x.negative THEN -1 ELSE 1

ExponentWindow_Unsigned(x, scale) ==
    [low |-> x.value * 10 ^ scale, high |-> (x.value + 1) * 10 ^ scale - 1]

\* The windows of the exponents whose digits begin with those of x, which are not all
\* zero: for a negative exponent they lie below zero.
ExponentWindow(x, scale) ==
    LET low == x.value * 10 ^ scale
        high == (x.value + 1) * 10 ^ scale - 1
    IN IF x.negative THEN [low |-> -high, high |-> -low] ELSE [low |-> low, high |-> high]

\* ExponentReachability.contains.
ExponentReaches(x, e) ==
    IF x.at = "bare" THEN TRUE
    ELSE IF x.at = "sign" \/ x.value = 0 THEN e * Sign(x) >= 0
    ELSE \E scale \in 0..ScaleLimit :
            ExponentWindow(x, scale).low <= e /\ e <= ExponentWindow(x, scale).high

\* ExponentReachability.intersects, prefixIntersects.
ExponentIntersects(x, lower, upper) ==
    /\ \A l \in lower, u \in upper : l <= u
    /\ IF x.at = "bare" THEN TRUE
       ELSE IF x.at = "sign" \/ x.value = 0 THEN
          IF x.negative THEN \A l \in lower : l <= 0 ELSE \A u \in upper : u >= 0
       ELSE \E scale \in 0..ScaleLimit :
               LET window == ExponentWindow(x, scale)
               IN (\A l \in lower : l <= window.high) /\ (\A u \in upper : window.low <= u)

\* The smallest e for which base * 10^e is a multiple; as base is normalized, no
\* negative power of ten is to be looked at.
MultipleExponent(base, multiple) ==
    LET gammas == {g \in 0..GammaLimit : Divides(multiple.m, base.m, g)}
    IN IF gammas = {} THEN {} ELSE {Min(gammas) + multiple.e - base.e}

ExponentHasCompletion(c, p) ==
    LET base == Base(p)
        bounds == MagnitudeInterval(c, p.negative)
        thresholds == UNION {MultipleExponent(base, multiple) : multiple \in c.multipleOf}
        lower == thresholds \cup UNION {MinExponentScaling(base, l.value, ~l.inclusive) :
                                           l \in bounds.lower}
        upper == UNION {MaxExponentScaling(base, u.value, ~u.inclusive) : u \in bounds.upper}
    IN IF base = Zero THEN Accepts(c, Zero)
       ELSE IF c.allowed # {} THEN
          \E v \in UNION c.allowed :
              /\ Accepts(c, v)
              /\ v # Zero /\ (v.m < 0) = p.negative
              /\ \E e \in PowerOfTenRatio(Magnitude(v), base) : ExponentReaches(p.exponent, e)
       ELSE
          /\ \A u \in bounds.upper : u.value.m > 0
          /\ c.multipleOf = {} \/ thresholds # {}
          /\ ExponentIntersects(p.exponent, IF lower = {} THEN {} ELSE {Max(lower)}, upper)

-----------------------------------------------------------------------------
(* The tracker                                                             *)

HasCompletion(c, kind, p) ==
    IF kind = "integer" THEN IntegerHasCompletion(c, p)
    ELSE IF p.exponent.at = "none" THEN PlainHasCompletion(c, p)
    ELSE ExponentHasCompletion(c, p)

AcceptsExactly(c, p) == \E v \in ExactValue(p) : Accepts(c, v)
=============================================================================
