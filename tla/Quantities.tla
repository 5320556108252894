------------------------------ MODULE Quantities ------------------------------
(* How two quantities stated in texts compare (gate/numeric.py).  A quantity has *)
(* its readings as integers of the smallest unit that matters (values), the step *)
(* its writer rounded to and a unit; a date or a year is a range of days with    *)
(* its granularity.  Percentages are in hundredths of a point.  Where a text has *)
(* its numerals is not modelled, what a numeral may mean is.                     *)
EXTENDS Integers, FiniteSets, Sequences, SequencesExt

(* parse_number: a numeral is its groups of digits (number and length) and the   *)
(* mark between them, "both" when the last one differs from the others.  Its     *)
(* readings are in thousandths, the language's own first; <<>> when it has none. *)
Whole(groups) == FoldLeft(LAMBDA acc, g : 1000 * acc + g.n, 0, groups)
Power(digits) == CASE digits = 0 -> 1 [] digits = 1 -> 10 [] digits = 2 -> 100 [] OTHER -> 1000
Readings(numeral, language) ==
    LET groups == numeral.groups
        thousands == 1000 * Whole(groups)
        decimal == 1000 * Whole(Front(groups)) + Last(groups).n * Power(3 - Last(groups).digits)
        grouped == IF \A i \in 2..Len(groups) : groups[i].digits = 3 THEN <<thousands>> ELSE <<>>
        decimals == IF Len(groups) = 2 THEN <<decimal>> ELSE <<>>
    IN IF numeral.mark = "none" THEN <<thousands>>
       ELSE IF numeral.mark = "both" THEN <<decimal>>
       ELSE IF (numeral.mark = ".") = (language = "tr") THEN grouped \o decimals ELSE decimals \o grouped

(* _decimals: how many its writer chose, under the preferred reading.            *)
Decimals(numeral, reading) ==
    IF numeral.mark = "none" \/ (reading % 1000 = 0 /\ Last(numeral.groups).digits > 2) THEN 0
    ELSE Last(numeral.groups).digits

(* _build: a numeral with its scale and unit as a quantity.                      *)
Stated(kind, unit, numeral, scale, language) ==
    LET readings == Readings(numeral, language)
    IN [kind |-> kind, unit |-> unit, values |-> {scale * x : x \in ToSet(readings)},
        step |-> scale * Power(3 - Decimals(numeral, Head(readings)))]

Dated == {"date", "year"}
Exactly == [relative |-> 0, points |-> 0, days |-> 0]
Distance(x, y) == IF x > y THEN x - y ELSE y - x

(* _close: equal within a percentage of the larger one.                          *)
Within(x, y, percent) == 100 * Distance(x, y) <= percent * (IF x > y THEN x ELSE y)

(* round() to a multiple of the step, ties to the even one.                      *)
Rounded(x, step) ==
    LET down == x \div step twice == 2 * (x % step)
    IN IF twice > step \/ (twice = step /\ down % 2 = 1) THEN down + 1 ELSE down

(* _rounds_to: the precise reading, written as coarsely as the other quantity.   *)
RoundsTo(precise, coarse, reading) == Rounded(precise, coarse.step) = Rounded(reading, coarse.step)

(* Two days must be the same day; a coarser statement may contain a finer one.   *)
Inside(p, q) == q.from <= p.from /\ p.to <= q.to
DatesMatch(p, q, days) ==
    \/ p.from = q.from /\ p.to = q.to /\ p.grain = q.grain
    \/ days > 0 /\ p.grain # q.grain /\ (Inside(p, q) \/ Inside(q, p))

(* A bare year and a plain number may be the same words.                         *)
YearIsNumber(p, q) == {p.kind, q.kind} = {"year", "number"} /\ p.values \cap q.values # {}

NumbersMatch(p, q, relative) ==
    /\ p.kind = "money" /\ q.kind = "money" => p.unit = q.unit
    /\ \E a \in p.values, b \in q.values :
          \/ Within(a, b, relative)
          \/ relative > 0 /\ (RoundsTo(b, p, a) \/ RoundsTo(a, q, b))

QuantitiesMatch(p, q, tolerance) ==
    CASE p.kind \in Dated /\ q.kind \in Dated -> DatesMatch(p, q, tolerance.days)
      [] (p.kind \in Dated) # (q.kind \in Dated) -> YearIsNumber(p, q)
      [] "percent" \in {p.kind, q.kind} /\ {p.kind, q.kind} \cap Dated = {} ->
            /\ p.kind = q.kind
            /\ \E a \in p.values, b \in q.values : Distance(a, b) <= tolerance.points
      [] OTHER -> NumbersMatch(p, q, tolerance.relative)

MatchesAny(p, quantities, tolerance) == \E q \in quantities : QuantitiesMatch(p, q, tolerance)
=============================================================================
