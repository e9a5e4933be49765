------------------------------ MODULE MCBackOffice ------------------------------
(* Two months of one and two days, two ticks a day, local time a tick behind.  *)
EXTENDS BackOffice, TLC

CONSTANTS o1, s1, s2

MCMonthDays == [m \in 1..2 |-> m]
MCRolling == [r \in {"1d", "7d", "30d"} |-> IF r = "1d" THEN 1 ELSE 2]

Request(p, m, y, r) ==
    [start |-> Missing, end |-> Missing, period |-> p, month |-> m, year |-> y, range |-> r]

MCRequests ==
    {Request("month", ym[2], ym[1], "7d") : ym \in {<<Missing, Missing>>, <<Missing, 1>>,
                                                    <<2, 1>>, <<3, 2>>, <<3, 3>>,
                                                    <<2, Unreadable>>, <<0, 2>>}}
    \cup {Request(p, Missing, Missing, "7d") : p \in {"today", "week"}}
    \cup {Request("year", Missing, y, "7d") : y \in {Missing, Unreadable}}
    \cup {Request("other", Missing, Missing, r) : r \in {"all", "other"}}
    \cup {[Request("month", Missing, Missing, "7d") EXCEPT !.start = d[1], !.end = d[2]] :
            d \in {<<3, 4>>, <<2, 1>>}}

MCSymmetry == Permutations({s1, s2})
=============================================================================
