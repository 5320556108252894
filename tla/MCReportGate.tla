----------------------------- MODULE MCReportGate -----------------------------
(* ReportGate on ledgers of up to three findings and drafts that go wrong in the *)
(* ways the rules look for.                                                      *)
EXTENDS ReportGate

(* $1.23 thousand and the like; "1.230" may also be read as one thousand 230.    *)
Amount(fraction, digits) ==
    Stated("money", "USD", [groups |-> <<[n |-> 1, digits |-> 1], [n |-> fraction, digits |-> digits]>>,
                            mark |-> "."], 1, "en")
In(month, day, grain) ==
    [kind |-> "date", grain |-> grain, from |-> 100 * month + (IF day = 0 THEN 1 ELSE day),
     to |-> 100 * month + (IF day = 0 THEN 31 ELSE day)]

\* What masking leaves of $18.929.000.000.000: <IP_ADDRESS>.000.
Remnant == Stated("money", "USD", [groups |-> <<[n |-> 0, digits |-> 3]>>, mark |-> "none"], 1, "tr")

Reads(figures, counts) == [figures |-> figures, counts |-> counts, readable |-> TRUE]
Unread == [figures |-> {}, counts |-> {}, readable |-> FALSE]

(* Document 2 is a copy of document 1.                                           *)
Finding(status, stale, docs, figures, text) ==
    [status |-> status, stale |-> stale, docs |-> docs, origins |-> {IF d = 2 THEN 1 ELSE d : d \in docs},
     figures |-> figures, readable |-> TRUE, text |-> text]
Words == <<Reads({}, {})>>
(* The masking of an address takes the number it belongs to along; that of a     *)
(* long number may leave its last group, or one that cannot be read.             *)
FourLedgers == { <<>>,
    <<Finding("supported", FALSE, {1, 2, 3}, {Amount(23, 2)}, <<Reads({Amount(23, 2)}, {}), Reads({}, {})>>),
      Finding("single_source", TRUE, {2}, {}, Words)>>,
    <<Finding("contested", FALSE, {1}, {Amount(230, 3)}, <<Reads({Amount(230, 3)}, {}), Reads({Remnant}, {})>>),
      Finding("single_source", FALSE, {3}, {In(3, 12, "day")}, Words),
      Finding("contested", FALSE, {4}, {Amount(26, 2)}, Words)>>,
    <<Finding("supported", FALSE, {1, 3}, {Amount(23, 2)}, <<Reads({Amount(23, 2)}, {}), Unread>>),
      [Finding("single_source", FALSE, {3}, {}, Words) EXCEPT !.readable = FALSE]>> }
Found == {{}, {"held", "rejected", "unscoped"}}
Year == {[kind |-> "year", values |-> {2026000}, grain |-> "year", from |-> 101, to |-> 1231]}

Item(cites, text) == [cites |-> cites, text |-> text, framing |-> FALSE]
Says(cites, figures, counts) == Item(cites, <<Reads(figures, counts)>>)
Plain(cites) == Item(cites, Words)
Good == Says({1}, {Amount(23, 2)} \cup Year, {<<"source", 2>>, <<"subquestion", 1>>})
Items == {Good, Plain({1, 9}), Plain({9}), Plain({}),
          Item({1}, <<Reads({Amount(2, 1)}, {}), Reads({}, {}), Reads({Remnant}, {})>>),
          Says({1}, {Amount(26, 2)}, {}), Says({2}, {In(3, 0, "month")}, {<<"finding", 2>>})}

Answer(summary, keys, advice) ==
    [foreign |-> advice # <<>>,
     sections |-> [summary |-> summary, key_findings |-> keys, conflicting |-> <<>>,
                   conclusion |-> <<[Plain({}) EXCEPT !.framing = TRUE]>>, recommendations |-> advice]]
SomeAnswers == {Answer(<<>>, <<i, Good>>, <<>>) : i \in Items}
               \cup {Answer(<<Says({1, 2, 9}, {In(3, 13, "day")}, {})>>, <<i>>, <<Plain({9})>>) : i \in Items}
==============================================================================
