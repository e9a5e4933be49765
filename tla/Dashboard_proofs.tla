--------------------------- MODULE Dashboard_proofs ---------------------------
(***************************************************************************)
(* Proofs about the dashboard, for any calendar, orders, requests and      *)
(* clock.                                                                  *)
(*                                                                         *)
(* The figures fit because each is the size of a set of orders: a tile     *)
(* that adds up statuses, and a chart that adds up days and statuses,      *)
(* count the classes of a partition (SumOfClasses). The pages of months    *)
(* agree because the months tile the days: a day lies in exactly one, and  *)
(* the last day of one is the eve of the first of the next.                *)
(***************************************************************************)
EXTENDS BackOffice, SumTheorems

-----------------------------------------------------------------------------
(* The calendar. The days before a month are the sum of the months before.  *)
LEMMA DaysBeforeIs ==
    \A m \in 1..(Months + 1) : DaysBefore[m] = IF m = 1 THEN 0 ELSE DaysBefore[m - 1] + MonthDays[m - 1]
<1> DEFINE Sum(n) == SumFunctionOnSet(MonthDays, 1..n)
           f == [m \in 1..(Months + 1) |-> Sum(m - 1)]
<1>0. Months \in Nat \ {0} /\ MonthDays \in [1..Months -> Nat \ {0}]
    BY CalendarAssumption
<1>1. ASSUME NEW n \in 0..Months PROVE Integral(MonthDays, 1..n)
    <2>1. n \in Int /\ IsFiniteSet(1..n)
        BY FS_Interval
    <2>2. \A m \in 1..n : m \in 1..Months
        BY <1>0
    <2>. QED BY <1>0, <2>1, <2>2 DEF Integral
<1>2. Sum(0) = 0
    <2>1. 1..0 = {}
        OBVIOUS
    <2>. QED BY <2>1, SumEmpty
<1>3. ASSUME NEW n \in 1..Months PROVE Sum(n) = Sum(n - 1) + MonthDays[n]
    <2>1. n \in Nat /\ n \notin 1..(n - 1) /\ (1..(n - 1)) \cup {n} = 1..n /\ n - 1 \in 0..Months /\ n \in 0..Months
        BY <1>0
    <2>2. Integral(MonthDays, 1..(n - 1)) /\ Integral(MonthDays, (1..(n - 1)) \cup {n})
        BY <1>1, <2>1
    <2>3. SumFunctionOnSet(MonthDays, (1..(n - 1)) \cup {n}) = MonthDays[n] + SumFunctionOnSet(MonthDays, 1..(n - 1))
        BY <2>1, <2>2, SumAdd
    <2>4. SumFunctionOnSet(MonthDays, 1..(n - 1)) \in Int /\ MonthDays[n] \in Int
        BY <1>0, <2>2, SumType
    <2>5. SumFunctionOnSet(MonthDays, 1..n) = SumFunctionOnSet(MonthDays, (1..(n - 1)) \cup {n})
        BY <2>1
    <2>. QED BY <2>3, <2>4, <2>5
<1> HIDE DEF Sum
<1>4. ASSUME NEW m \in 1..(Months + 1), m # 1 PROVE f[m] = f[m - 1] + MonthDays[m - 1]
    <2>1. m - 1 \in 1..Months /\ m - 1 \in 1..(Months + 1) /\ m \in Int
        BY <1>0, <1>4
    <2>2. f[m] = Sum(m - 1) /\ f[m - 1] = Sum((m - 1) - 1)
        BY <2>1
    <2>. QED BY <1>3, <2>1, <2>2
<1>5. f[1] = 0
    BY <1>0, <1>2
<1>6. f = [m \in 1..(Months + 1) |-> IF m = 1 THEN 0 ELSE f[m - 1] + MonthDays[m - 1]]
    BY <1>4, <1>5
<1> HIDE DEF f
<1>7. DaysBefore = [m \in 1..(Months + 1) |-> IF m = 1 THEN 0 ELSE DaysBefore[m - 1] + MonthDays[m - 1]]
    BY <1>6 DEF DaysBefore
<1>. QED BY <1>7

LEMMA DaysGrow ==
    \A m \in 1..(Months + 1) : DaysBefore[m] \in Nat /\ \A k \in 1..(m - 1) : DaysBefore[k] < DaysBefore[m]
<1> DEFINE Grows(m) == DaysBefore[m] \in Nat /\ \A k \in 1..(m - 1) : DaysBefore[k] < DaysBefore[m]
           Bad == {n \in Nat : n <= Months + 1 /\ ~ \A m \in 1..n : Grows(m)}
<1>0. Months \in Nat \ {0} /\ MonthDays \in [1..Months -> Nat \ {0}]
    BY CalendarAssumption
<1>1. 0 \notin Bad
    OBVIOUS
<1>2. ASSUME NEW n \in Nat, n + 1 \in Bad PROVE n \in Bad
    <2>0. SUFFICES ASSUME \A m \in 1..n : Grows(m) PROVE Grows(n + 1)
        <3>1. n + 1 <= Months + 1 /\ ~ \A m \in 1..(n + 1) : Grows(m)
            BY <1>2
        <3>2. \A m \in 1..(n + 1) : m = n + 1 \/ m \in 1..n
            OBVIOUS
        <3>3. n <= Months + 1
            BY <1>0, <3>1
        <3> HIDE DEF Grows
        <3>. QED BY <3>1, <3>2, <3>3
    <2>1. n + 1 \in 1..(Months + 1)
        BY <1>0, <1>2
    <2>2. DaysBefore[n + 1] = IF n + 1 = 1 THEN 0 ELSE DaysBefore[(n + 1) - 1] + MonthDays[(n + 1) - 1]
        BY <2>1, DaysBeforeIs
    <2>3. CASE n = 0
        BY <2>2, <2>3
    <2>4. CASE n # 0
        <3>1. n \in 1..Months /\ n \in 1..n /\ (n + 1) - 1 = n
            BY <1>0, <2>1, <2>4
        <3>2. DaysBefore[n] \in Nat /\ MonthDays[n] \in Nat \ {0} /\ DaysBefore[n + 1] = DaysBefore[n] + MonthDays[n]
            BY <1>0, <2>0, <2>2, <2>4, <3>1
        <3>3. DaysBefore[n + 1] \in Nat /\ DaysBefore[n] < DaysBefore[n + 1]
            BY <3>2
        <3>4. ASSUME NEW k \in 1..n PROVE DaysBefore[k] < DaysBefore[n + 1]
            <4>1. CASE k = n
                BY <3>3, <4>1
            <4>2. CASE k # n
                <5>1. k \in 1..(n - 1)
                    BY <4>2
                <5>2. DaysBefore[k] \in Nat /\ DaysBefore[k] < DaysBefore[n]
                    BY <2>0, <3>1, <5>1
                <5>. QED BY <3>2, <3>3, <5>2
            <4>. QED BY <4>1, <4>2
        <3>. QED BY <3>1, <3>3, <3>4
    <2>. QED BY <2>3, <2>4
<1>3. Bad \in SUBSET Nat
    OBVIOUS
<1> HIDE DEF Bad
<1>4. Bad = {}
    BY <1>1, <1>2, <1>3, NoCounterexample
<1>5. Months + 1 \in Nat /\ Months + 1 <= Months + 1
    BY <1>0
<1>. QED BY <1>4, <1>5 DEF Bad

(* The year begins with the first month and ends with the last.             *)
LEMMA Year ==
    /\ YearDays \in Nat \ {0} /\ DaysBefore[1] = 0
    /\ \A m \in 1..Months : /\ DaysBefore[m] \in Nat /\ MonthDays[m] \in Nat \ {0}
                             /\ DaysBefore[m + 1] = DaysBefore[m] + MonthDays[m]
                             /\ DaysBefore[m + 1] <= YearDays
<1>0. Months \in Nat \ {0} /\ MonthDays \in [1..Months -> Nat \ {0}]
    BY CalendarAssumption
<1>1. DaysBefore[1] = 0
    BY <1>0, DaysBeforeIs
<1>2. ASSUME NEW m \in 1..Months
      PROVE  /\ DaysBefore[m] \in Nat /\ MonthDays[m] \in Nat \ {0}
             /\ DaysBefore[m + 1] = DaysBefore[m] + MonthDays[m]
             /\ DaysBefore[m + 1] <= YearDays
    <2>1. m + 1 \in 1..(Months + 1) /\ m \in 1..(Months + 1) /\ m + 1 # 1 /\ (m + 1) - 1 = m
        BY <1>0
    <2>2. DaysBefore[m + 1] = DaysBefore[m] + MonthDays[m]
        BY <2>1, DaysBeforeIs
    <2>3. CASE m = Months
        BY <1>0, <2>1, <2>2, <2>3, DaysGrow DEF YearDays
    <2>4. CASE m # Months
        <3>1. m + 1 \in 1..((Months + 1) - 1) /\ Months + 1 \in 1..(Months + 1)
            BY <1>0, <2>4
        <3>2. DaysBefore[m + 1] < DaysBefore[Months + 1] /\ DaysBefore[m + 1] \in Nat /\ DaysBefore[Months + 1] \in Nat
            BY <2>1, <3>1, DaysGrow
        <3>. QED BY <1>0, <2>1, <2>2, <3>2, DaysGrow DEF YearDays
    <2>. QED BY <2>3, <2>4
<1>3. YearDays \in Nat \ {0}
    <2>1. 1 \in 1..((Months + 1) - 1) /\ Months + 1 \in 1..(Months + 1)
        BY <1>0
    <2>2. DaysBefore[1] < DaysBefore[Months + 1] /\ DaysBefore[Months + 1] \in Nat
        BY <2>1, DaysGrow
    <2>. QED BY <1>1, <2>2 DEF YearDays
<1>. QED BY <1>1, <1>2, <1>3

(* Every day of a year lies in a month, and in no other.                    *)
LEMMA MonthExists ==
    ASSUME NEW r \in Nat, r < YearDays
    PROVE  \E m \in 1..Months : DaysBefore[m] <= r /\ r < DaysBefore[m + 1]
<1> DEFINE T == {m \in Nat : m \in 1..Months /\ r < DaysBefore[m + 1]}
<1>0. Months \in Nat \ {0}
    BY CalendarAssumption
<1>1. Months \in T
    BY <1>0 DEF YearDays
<1>2. PICK n \in T : \A m \in T : n <= m
    BY <1>1, Smallest
<1>3. CASE n = 1
    BY <1>2, <1>3, Year
<1>4. CASE n # 1
    <2>1. n - 1 \in 1..Months /\ n - 1 \in Nat /\ (n - 1) + 1 = n /\ ~(n <= n - 1)
        BY <1>0, <1>4
    <2>2. ~(r < DaysBefore[n])
        BY <1>2, <2>1
    <2>. QED BY <2>2, Year
<1>. QED BY <1>3, <1>4

LEMMA MonthUnique ==
    ASSUME NEW r \in Nat, NEW k \in 1..Months, NEW m \in 1..Months,
           DaysBefore[k] <= r, r < DaysBefore[k + 1], DaysBefore[m] <= r, r < DaysBefore[m + 1]
    PROVE  k = m
<1>0. Months \in Nat
    BY CalendarAssumption
<1>1. ASSUME NEW i \in 1..Months, NEW j \in 1..Months, i < j PROVE DaysBefore[i + 1] <= DaysBefore[j]
    <2>1. j \in 1..(Months + 1) /\ i + 1 \in 1..(Months + 1)
        BY <1>0
    <2>2. i + 1 = j \/ i + 1 \in 1..(j - 1)
        BY <1>1
    <2>. QED BY <2>1, <2>2, DaysGrow
<1>2. ~(k < m) /\ ~(m < k)
    BY <1>1, Year
<1>. QED BY <1>2

(* A day is in the month it is said to be in ...                            *)
LEMMA MonthOf ==
    ASSUME NEW d \in Int
    PROVE  \E y \in Int, m \in 1..Months :
              /\ MonthOfDay(d) = <<y, m>>
              /\ FirstDay(<<y, m>>) <= d /\ d <= LastDay(<<y, m>>)
<1> DEFINE y == d \div YearDays
           r == d % YearDays
           m == CHOOSE m \in 1..Months : DaysBefore[m] <= r /\ r < DaysBefore[m + 1]
<1>1. y \in Int /\ r \in Nat /\ r < YearDays /\ d = y * YearDays + r
    BY Year
<1>2. \E n \in 1..Months : DaysBefore[n] <= r /\ r < DaysBefore[n + 1]
    BY <1>1, MonthExists
<1>3. m \in 1..Months /\ DaysBefore[m] <= r /\ r < DaysBefore[m + 1]
    BY <1>2
<1>4. MonthOfDay(d) = <<y, m>>
    BY DEF MonthOfDay
<1> HIDE DEF y, r, m
<1>5. DaysBefore[m] \in Nat /\ MonthDays[m] \in Nat /\ DaysBefore[m + 1] = DaysBefore[m] + MonthDays[m]
    BY <1>3, Year
<1> DEFINE a == y * YearDays
<1>6. a \in Int /\ d = a + r
    BY <1>1, Year
<1>7. FirstDay(<<y, m>>) = a + DaysBefore[m] /\ LastDay(<<y, m>>) = a + DaysBefore[m] + MonthDays[m] - 1
    BY DEF FirstDay, LastDay
<1> HIDE DEF a
<1>8. FirstDay(<<y, m>>) <= d /\ d <= LastDay(<<y, m>>)
    BY <1>1, <1>3, <1>5, <1>6, <1>7
<1>. QED BY <1>1, <1>3, <1>4, <1>8

(* ... and in no other.                                                     *)
LEMMA OneMonth ==
    ASSUME NEW d \in Int, NEW y \in Int, NEW m \in 1..Months,
           FirstDay(<<y, m>>) <= d, d <= LastDay(<<y, m>>)
    PROVE  MonthOfDay(d) = <<y, m>>
<1> DEFINE r == d - y * YearDays
<1>1. /\ DaysBefore[m] \in Nat /\ MonthDays[m] \in Nat /\ DaysBefore[m + 1] = DaysBefore[m] + MonthDays[m]
      /\ DaysBefore[m + 1] <= YearDays /\ YearDays \in Nat \ {0} /\ y * YearDays \in Int
    BY Year
<1>2. FirstDay(<<y, m>>) = y * YearDays + DaysBefore[m] /\ LastDay(<<y, m>>) = y * YearDays + DaysBefore[m] + MonthDays[m] - 1
    BY DEF FirstDay, LastDay
<1>3. r \in Nat /\ DaysBefore[m] <= r /\ r < DaysBefore[m + 1] /\ r < YearDays /\ d = y * YearDays + r
    BY <1>1, <1>2
<1> HIDE DEF r
<1>4. d \div YearDays = y /\ d % YearDays = r
    BY <1>1, <1>3
<1>5. \A n \in 1..Months : DaysBefore[n] <= r /\ r < DaysBefore[n + 1] => n = m
    BY <1>3, MonthUnique
<1>6. (CHOOSE n \in 1..Months : DaysBefore[n] <= r /\ r < DaysBefore[n + 1]) = m
    BY <1>3, <1>5
<1>. QED BY <1>4, <1>6 DEF MonthOfDay

(* Months follow one another without a gap, across the end of a year too.    *)
LEMMA MonthsFollow ==
    ASSUME NEW y \in Int, NEW m \in 1..Months
    PROVE  LET ym == <<y, m>>
           IN  /\ PrevMonth(ym) \in Int \X (1..Months) /\ NextMonth(ym) \in Int \X (1..Months)
               /\ NextMonth(PrevMonth(ym)) = ym
               /\ LastDay(PrevMonth(ym)) + 1 = FirstDay(ym)
               /\ LastDay(ym) + 1 = FirstDay(NextMonth(ym))
<1>0. Months \in Nat \ {0} /\ Months \in 1..Months /\ 1 \in 1..Months
    BY CalendarAssumption
<1>1. ASSUME NEW x \in Int, NEW k \in 1..Months
      PROVE  /\ NextMonth(<<x, k>>) \in Int \X (1..Months)
             /\ LastDay(<<x, k>>) + 1 = FirstDay(NextMonth(<<x, k>>))
    <2> DEFINE a == x * YearDays
    <2>1. a \in Int /\ (x + 1) * YearDays = a + YearDays /\ YearDays \in Nat
        BY Year
    <2>2. DaysBefore[k] \in Nat /\ MonthDays[k] \in Nat /\ DaysBefore[k + 1] = DaysBefore[k] + MonthDays[k]
        BY Year
    <2>3. LastDay(<<x, k>>) = a + DaysBefore[k] + MonthDays[k] - 1
        BY DEF FirstDay, LastDay
    <2>4. CASE k < Months
        <3>1. NextMonth(<<x, k>>) = <<x, k + 1>> /\ k + 1 \in 1..Months
            BY <1>0, <2>4 DEF NextMonth
        <3>2. FirstDay(<<x, k + 1>>) = a + DaysBefore[k + 1]
            BY DEF FirstDay
        <3> HIDE DEF a
        <3>. QED BY <2>1, <2>2, <2>3, <3>1, <3>2
    <2>5. CASE ~(k < Months)
        <3>1. NextMonth(<<x, k>>) = <<x + 1, 1>> /\ k = Months
            BY <1>0, <2>5 DEF NextMonth
        <3>2. FirstDay(<<x + 1, 1>>) = (x + 1) * YearDays + DaysBefore[1]
            BY DEF FirstDay
        <3>3. FirstDay(<<x + 1, 1>>) = a + YearDays /\ DaysBefore[k + 1] = YearDays
            BY <2>1, <3>1, <3>2, Year DEF YearDays
        <3> HIDE DEF a
        <3>4. LastDay(<<x, k>>) + 1 = FirstDay(<<x + 1, 1>>)
            BY <2>1, <2>2, <2>3, <3>3
        <3>. QED BY <1>0, <3>1, <3>4
    <2>. QED BY <2>4, <2>5
<1>2. CASE m > 1
    <2>1. PrevMonth(<<y, m>>) = <<y, m - 1>> /\ m - 1 \in 1..Months /\ m - 1 < Months /\ (m - 1) + 1 = m
        BY <1>0, <1>2 DEF PrevMonth
    <2>2. NextMonth(<<y, m - 1>>) = <<y, m>>
        BY <2>1 DEF NextMonth
    <2>. QED BY <1>1, <2>1, <2>2
<1>3. CASE ~(m > 1)
    <2>1. PrevMonth(<<y, m>>) = <<y - 1, Months>> /\ m = 1 /\ y - 1 \in Int /\ (y - 1) + 1 = y
        BY <1>3 DEF PrevMonth
    <2>2. NextMonth(<<y - 1, Months>>) = <<y, m>>
        BY <1>0, <2>1 DEF NextMonth
    <2>. QED BY <1>0, <1>1, <2>1, <2>2
<1>. QED BY <1>2, <1>3

(* So do their ranges, which end at the last instant before local midnight.  *)
LEMMA RangesFollow ==
    ASSUME NEW a \in Int \X (1..Months), NEW b \in Int \X (1..Months), LastDay(a) + 1 = FirstDay(b)
    PROVE  MonthRange(a).to + 1 = MonthRange(b).from
<1>1. DayTicks \in Nat /\ Offset \in Int
    BY CalendarAssumption
<1>2. DaysBefore[b[2]] \in Nat /\ YearDays \in Nat
    BY Year
<1>3. b[1] * YearDays \in Int
    BY <1>2
<1>4. FirstDay(b) \in Int
    BY <1>2, <1>3 DEF FirstDay
<1>5. LocalMidnight(FirstDay(b)) \in Int
    BY <1>1, <1>4 DEF LocalMidnight
<1>6. /\ MonthRange(a).to = LocalMidnight(LastDay(a) + 1) - 1
      /\ MonthRange(b).from = LocalMidnight(FirstDay(b))
    BY DEF MonthRange
<1>7. MonthRange(a).to = LocalMidnight(FirstDay(b)) - 1
    BY <1>6
<1>. QED BY <1>5, <1>6, <1>7

(* A month that two instants share holds the instants between them.          *)
LEMMA UtcMonthType == ASSUME NEW t \in Int PROVE UtcMonth(t) \in Int \X (1..Months)
<1>1. UtcDay(t) \in Int
    BY CalendarAssumption DEF UtcDay
<1>2. PICK y \in Int, m \in 1..Months : MonthOfDay(UtcDay(t)) = <<y, m>>
    BY <1>1, MonthOf
<1>. QED BY <1>2 DEF UtcMonth

LEMMA UtcDays == ASSUME NEW t \in Int, NEW u \in Int, t <= u PROVE UtcDay(t) \in Int /\ UtcDay(t) <= UtcDay(u)
<1> DEFINE x == t \div DayTicks
           y == u \div DayTicks
<1>1. DayTicks \in Nat \ {0}
    BY CalendarAssumption
<1>2. x \in Int /\ DayTicks * x <= t /\ t < DayTicks * x + DayTicks
    BY <1>1
<1>3. y \in Int /\ DayTicks * y <= u /\ u < DayTicks * y + DayTicks
    BY <1>1
<1>. HIDE DEF x, y
<1>4. ~(x >= y + 1)
    BY <1>1, <1>2, <1>3
<1>. QED BY <1>2, <1>3, <1>4 DEF UtcDay, x, y

LEMMA SameMonth ==
    ASSUME NEW t \in Int, NEW u \in Int, NEW v \in Int, t <= u, u <= v, UtcMonth(t) = UtcMonth(v)
    PROVE  UtcMonth(u) = UtcMonth(t)
<1>1. /\ UtcDay(t) \in Int /\ UtcDay(u) \in Int /\ UtcDay(v) \in Int
      /\ UtcDay(t) <= UtcDay(u) /\ UtcDay(u) <= UtcDay(v)
    BY UtcDays
<1>2. PICK y \in Int, m \in 1..Months :
          /\ UtcMonth(t) = <<y, m>>
          /\ FirstDay(<<y, m>>) <= UtcDay(t)
    BY <1>1, MonthOf DEF UtcMonth
<1>3. PICK z \in Int, n \in 1..Months :
          /\ UtcMonth(v) = <<z, n>>
          /\ UtcDay(v) <= LastDay(<<z, n>>)
    BY <1>1, MonthOf DEF UtcMonth
<1>4. z = y /\ n = m
    <2>1. <<y, m>> = <<z, n>>
        BY <1>2, <1>3
    <2>. QED BY <2>1
<1>5. DaysBefore[m] \in Nat /\ MonthDays[m] \in Nat /\ YearDays \in Nat
    BY Year
<1>6. y * YearDays \in Int
    BY <1>5
<1>7. FirstDay(<<y, m>>) \in Int /\ LastDay(<<y, m>>) \in Int
    BY <1>5, <1>6 DEF FirstDay, LastDay
<1>8. FirstDay(<<y, m>>) <= UtcDay(u) /\ UtcDay(u) <= LastDay(<<y, m>>)
    BY <1>1, <1>2, <1>3, <1>4, <1>7
<1>. QED BY <1>1, <1>2, <1>8, OneMonth DEF UtcMonth

-----------------------------------------------------------------------------
(* The page. It is what its request and at most three readings of the clock *)
(* make of it: t of its range, u of its label, v of its navigation.         *)
Built(l, q, t, label, nav, prev, next, shown) ==
    [pc |-> l, q |-> q, opened |-> UtcMonth(t), range |-> FromRequest(q, t),
     label |-> label, nav |-> nav, prev |-> prev, next |-> next, shown |-> shown]

Label(q, t, u) == IF NamesMonth(q, t) THEN Asked(q, u) ELSE NoMonth

Later(q, v) ==
    IF NotAfter(NextMonth(Month(q, v)), UtcMonth(v)) THEN NextMonth(Month(q, v)) ELSE NoMonth

Ranged(p, t)      == p = Built("ranged", p.q, t, Label(p.q, t, t), NoMonth, NoMonth, NoMonth, NoMonth)
Labelled(p, t, u) == p = Built("labelled", p.q, t, Label(p.q, t, u), NoMonth, NoMonth, NoMonth, NoMonth)
Plain(p, t, u, v) ==
    /\ p.q.period # "month"
    /\ p = Built("shown", p.q, t, Label(p.q, t, u), NoMonth, NoMonth, NoMonth, UtcMonth(v))
Monthly(p, t, u, v) ==
    /\ p.q.period = "month" /\ ValidMonth(Month(p.q, v)[2])
    /\ p = Built("shown", p.q, t, Label(p.q, t, u), Month(p.q, v), PrevMonth(Month(p.q, v)), Later(p.q, v),
                 UtcMonth(v))

PageInv ==
    /\ page.pc \in {"closed", "ranged", "labelled", "shown", "error"}
    /\ page.pc \in {"ranged", "labelled", "shown"} => page.q \in Queries
    /\ page.pc = "ranged" => \E t \in 0..now : Ranged(page, t)
    /\ page.pc = "labelled" => \E u \in 0..now : \E t \in 0..u : Labelled(page, t, u)
    /\ page.pc = "shown" =>
          \E v \in 0..now : \E u \in 0..v : \E t \in 0..u : Plain(page, t, u, v) \/ Monthly(page, t, u, v)

LEMMA AskedType ==
    ASSUME NEW q \in Queries, NEW t \in Int
    PROVE  Asked(q, t) \in Int \X Int /\ Month(q, t) \in Int \X Int
<1>1. PICK y \in Int, m \in 1..Months : UtcMonth(t) = <<y, m>>
    BY UtcMonthType
<1>2. m \in Int /\ q.year \in Int /\ q.month \in Int
    BY CalendarAssumption DEF Queries
<1>3. Asked(q, t) \in Int \X Int /\ UtcMonth(t) \in Int \X Int
    BY <1>1, <1>2 DEF Asked
<1>. QED BY <1>3 DEF Month

LEMMA MonthNamed == ASSUME NEW q, NEW t, NamesMonth(q, t) PROVE Asked(q, t) # NoMonth
<1>1. Asked(q, t)[2] # NoMonth[2]
    BY CalendarAssumption DEF NamesMonth, ValidMonth, NoMonth, Missing
<1>. QED BY <1>1

LEMMA PrevNextType ==
    ASSUME NEW ym \in Int \X Int PROVE PrevMonth(ym) \in Int \X Int /\ NextMonth(ym) \in Int \X Int
<1>. QED BY CalendarAssumption DEF PrevMonth, NextMonth

(* The links of a page lead to requests.                                    *)
LEMMA LinkType ==
    ASSUME PageInv, now \in Nat, page.pc = "shown", NEW ym \in {page.prev, page.next} \ {NoMonth}
    PROVE  MonthRequest(ym) \in Queries
<1>1. PICK v \in 0..now : \E u \in 0..v : \E t \in 0..u : Plain(page, t, u, v) \/ Monthly(page, t, u, v)
    BY DEF PageInv
<1>2. PICK u \in 0..v : \E t \in 0..u : Plain(page, t, u, v) \/ Monthly(page, t, u, v)
    BY <1>1
<1>3. PICK t \in 0..u : Plain(page, t, u, v) \/ Monthly(page, t, u, v)
    BY <1>2
<1>4. page.q \in Queries /\ v \in Int
    BY DEF PageInv
<1>5. CASE Plain(page, t, u, v)
    <2>1. page = Built("shown", page.q, t, Label(page.q, t, u), NoMonth, NoMonth, NoMonth, UtcMonth(v))
        BY <1>5 DEF Plain
    <2>2. page.prev = NoMonth /\ page.next = NoMonth
        BY <2>1 DEF Built
    <2>. QED BY <2>2
<1>6. CASE Monthly(page, t, u, v)
    <2>1. page = Built("shown", page.q, t, Label(page.q, t, u), Month(page.q, v),
                       PrevMonth(Month(page.q, v)), Later(page.q, v), UtcMonth(v))
        BY <1>6 DEF Monthly
    <2>2. page.prev = PrevMonth(Month(page.q, v)) /\ page.next = Later(page.q, v)
        BY <2>1 DEF Built
    <2>3. Month(page.q, v) \in Int \X Int
        BY <1>4, AskedType
    <2>4. page.prev \in Int \X Int /\ NextMonth(Month(page.q, v)) \in Int \X Int
        BY <2>2, <2>3, PrevNextType
    <2>5. ym \in Int \X Int
        BY <2>2, <2>4 DEF Later
    <2>6. ym[1] \in Int /\ ym[2] \in Int /\ Missing \in Int
        BY <2>5 DEF Missing
    <2> DEFINE y == ym[1]
               m == ym[2]
    <2>7. MonthRequest(ym) = [start |-> Missing, end |-> Missing, period |-> "month",
                              month |-> m, year |-> y, range |-> "7d"]
        BY DEF MonthRequest
    <2> HIDE DEF y, m
    <2>8. y \in Int /\ m \in Int /\ Missing \in Int /\ "7d" \in DOMAIN Rolling
        BY <2>6, CalendarAssumption DEF y, m
    <2>. QED BY <2>7, <2>8 DEF Queries
<1>. QED BY <1>3, <1>5, <1>6

LEMMA OpenStep ==
    ASSUME now \in Nat, now' = now, NEW q \in Queries, OpenPage(q) PROVE PageInv'
<1>1. page' = Built("ranged", q, now, Label(q, now, now), NoMonth, NoMonth, NoMonth, NoMonth)
    BY DEF OpenPage, Built, Label
<1>2. page'.pc = "ranged" /\ page'.q = q
    BY <1>1 DEF Built
<1>3. Ranged(page', now)
    BY <1>1, <1>2 DEF Ranged
<1>4. now \in 0..now'
    OBVIOUS
<1>5. \E t \in 0..now' : Ranged(page', t)
    BY <1>3, <1>4
<1>. QED BY <1>2, <1>5 DEF PageInv

LEMMA LabelStep ==
    ASSUME PageInv, now \in Nat, now' = now, LabelPage PROVE PageInv'
<1>1. page.pc = "ranged" /\ page.q \in Queries
    BY DEF LabelPage, PageInv
<1>2. PICK t \in 0..now : Ranged(page, t)
    BY <1>1 DEF PageInv
<1> DEFINE q == page.q
<1>3. page = Built("ranged", q, t, Label(q, t, t), NoMonth, NoMonth, NoMonth, NoMonth)
    BY <1>2 DEF Ranged
<1>4. page' = [page EXCEPT !.pc = "labelled", !.label = IF page.label # NoMonth THEN Asked(q, now) ELSE NoMonth]
    BY DEF LabelPage
<1>5. page.label # NoMonth <=> NamesMonth(q, t)
    <2>1. page.label = Label(q, t, t)
        BY <1>3 DEF Built
    <2>2. NamesMonth(q, t) => Asked(q, t) # NoMonth
        BY MonthNamed
    <2>. QED BY <2>1, <2>2 DEF Label
<1> HIDE DEF q
<1>10. page' = [page EXCEPT !.pc = "labelled", !.label = Label(q, t, now)]
    BY <1>4, <1>5 DEF Label
<1>11. page' = Built("labelled", q, t, Label(q, t, now), NoMonth, NoMonth, NoMonth, NoMonth)
    BY <1>3, <1>10 DEF Built
<1>6. page'.pc = "labelled" /\ page'.q = q
    BY <1>11 DEF Built
<1>7. Labelled(page', t, now)
    BY <1>6, <1>11 DEF Labelled
<1>8. now \in 0..now'
    OBVIOUS
<1>9. \E u \in 0..now' : \E s \in 0..u : Labelled(page', s, u)
    BY <1>7, <1>8
<1>. QED BY <1>1, <1>6, <1>9 DEF PageInv, q

LEMMA NavigateStep ==
    ASSUME PageInv, now \in Nat, now' = now, Navigate PROVE PageInv'
<1>1. page.pc = "labelled" /\ page.q \in Queries
    BY DEF Navigate, PageInv
<1>2. PICK u \in 0..now : \E t \in 0..u : Labelled(page, t, u)
    BY <1>1 DEF PageInv
<1>3. PICK t \in 0..u : Labelled(page, t, u)
    BY <1>2
<1> DEFINE q == page.q
           nav == Month(q, now)
<1>4. page = Built("labelled", q, t, Label(q, t, u), NoMonth, NoMonth, NoMonth, NoMonth)
    BY <1>3 DEF Labelled
<1>5. page' = IF q.period # "month" THEN [page EXCEPT !.pc = "shown", !.shown = UtcMonth(now)]
              ELSE IF ~ValidMonth(nav[2]) THEN [page EXCEPT !.pc = "error"]
              ELSE [page EXCEPT !.pc = "shown", !.shown = UtcMonth(now), !.nav = nav, !.prev = PrevMonth(nav),
                                !.next = Later(q, now)]
    BY DEF Navigate, Later
<1>6. now \in 0..now' /\ u \in 0..now
    OBVIOUS
<1> HIDE DEF q, nav
<1>7. CASE q.period # "month"
    <2>1. page' = [page EXCEPT !.pc = "shown", !.shown = UtcMonth(now)]
        BY <1>5, <1>7
    <2>2. page' = Built("shown", q, t, Label(q, t, u), NoMonth, NoMonth, NoMonth, UtcMonth(now))
        BY <1>4, <2>1 DEF Built
    <2>3. page'.pc = "shown" /\ page'.q = q
        BY <2>2 DEF Built
    <2>4. Plain(page', t, u, now)
        BY <1>7, <2>2, <2>3 DEF Plain
    <2>. QED BY <1>1, <1>6, <2>3, <2>4 DEF PageInv, q
<1>8. CASE q.period = "month" /\ ~ValidMonth(nav[2])
    <2>1. page' = [page EXCEPT !.pc = "error"]
        BY <1>5, <1>8
    <2>2. page'.pc = "error"
        BY <1>4, <2>1 DEF Built
    <2>. QED BY <2>2 DEF PageInv
<1>9. CASE q.period = "month" /\ ValidMonth(nav[2])
    <2>1. page' = [page EXCEPT !.pc = "shown", !.shown = UtcMonth(now), !.nav = nav, !.prev = PrevMonth(nav),
                               !.next = Later(q, now)]
        BY <1>5, <1>9
    <2>2. page' = Built("shown", q, t, Label(q, t, u), nav, PrevMonth(nav), Later(q, now), UtcMonth(now))
        BY <1>4, <2>1 DEF Built
    <2>3. page'.pc = "shown" /\ page'.q = q
        BY <2>2 DEF Built
    <2>4. Monthly(page', t, u, now)
        BY <1>9, <2>2, <2>3 DEF Monthly, nav
    <2>. QED BY <1>1, <1>6, <2>3, <2>4 DEF PageInv, q
<1>. QED BY <1>7, <1>8, <1>9

LEMMA PageWaits ==
    ASSUME PageInv, now \in Nat, now' \in {now, now + 1}, page' = page PROVE PageInv'
<1>1. 0..now \subseteq 0..now'
    OBVIOUS
<1>. QED BY <1>1 DEF PageInv, Ranged, Labelled, Plain, Monthly

(***************************************************************************)
(* What such a page shows.                                                 *)
(***************************************************************************)
LEMMA PageMonths ==
    ASSUME PageInv, now \in Nat PROVE MonthPageAgrees
<1>. SUFFICES ASSUME page.pc = "shown", page.q.period = "month", ~NamesCustom(page.q) PROVE MonthPageAgrees
    BY DEF MonthPageAgrees
<1>1. PICK v \in 0..now : \E u \in 0..v : \E t \in 0..u : Plain(page, t, u, v) \/ Monthly(page, t, u, v)
    BY DEF PageInv
<1>2. PICK u \in 0..v : \E t \in 0..u : Plain(page, t, u, v) \/ Monthly(page, t, u, v)
    BY <1>1
<1>3. PICK t \in 0..u : Monthly(page, t, u, v)
    BY <1>2 DEF Plain
<1> DEFINE q == page.q
           nav == Month(q, v)
<1>4. q \in Queries /\ t \in Int /\ u \in Int /\ v \in Int /\ t <= u /\ u <= v
    BY DEF PageInv
<1>5. page = Built("shown", q, t, Label(q, t, u), nav, PrevMonth(nav), Later(q, v), UtcMonth(v))
    BY <1>3 DEF Monthly
<1>6. /\ page.opened = UtcMonth(t) /\ page.range = FromRequest(q, t) /\ page.label = Label(q, t, u)
      /\ page.nav = nav /\ page.prev = PrevMonth(nav) /\ page.next = Later(q, v) /\ page.shown = UtcMonth(v)
    BY <1>5 DEF Built
<1>7. PICK y \in Int, m \in 1..Months : nav = <<y, m>>
    <2>1. nav \in Int \X Int
        BY <1>4, AskedType
    <2>2. nav[1] \in Int /\ nav[2] \in 1..Months /\ nav = <<nav[1], nav[2]>>
        BY <1>3, <2>1 DEF Monthly, ValidMonth
    <2>. QED BY <2>2
<1>8. /\ nav \in Int \X (1..Months) /\ PrevMonth(nav) \in Int \X (1..Months)
      /\ NextMonth(nav) \in Int \X (1..Months) /\ NextMonth(PrevMonth(nav)) = nav
      /\ LastDay(PrevMonth(nav)) + 1 = FirstDay(nav) /\ LastDay(nav) + 1 = FirstDay(NextMonth(nav))
    BY <1>7, MonthsFollow
<1>9. PICK sy \in Int, sm \in 1..Months : UtcMonth(v) = <<sy, sm>>
    BY <1>4, UtcMonthType
<1>10. NextMonth(nav) # NoMonth /\ \A k \in 1..Months : k \in Int /\ 1 <= k /\ k <= Months
    BY <1>8, CalendarAssumption DEF NoMonth, Missing
<1>11. ASSUME page.label # NoMonth, Missing \notin {q.month, q.year} \/ page.opened = page.shown
       PROVE  page.range = MonthRange(page.nav) /\ page.label = page.nav
    <2>1. NamesMonth(q, t) /\ page.label = Asked(q, u)
        BY <1>6, <1>11 DEF Label
    <2>2. nav = Asked(q, v)
        BY <2>1 DEF NamesMonth, Month
    <2>3. Asked(q, t) = nav /\ Asked(q, u) = nav
        <3>1. CASE Missing \notin {q.month, q.year}
            BY <2>2, <3>1 DEF Asked
        <3>2. CASE page.opened = page.shown
            <4>1. UtcMonth(t) = UtcMonth(v) /\ UtcMonth(u) = UtcMonth(t)
                BY <1>4, <1>6, <3>2, SameMonth
            <4>. QED BY <2>2, <4>1 DEF Asked
        <3>. QED BY <1>11, <3>1, <3>2
    <2>4. FromRequest(q, t) = MonthRange(Asked(q, t))
        BY <2>1 DEF FromRequest, NamesMonth
    <2>. QED BY <1>6, <2>1, <2>3, <2>4
<1>12. ASSUME page.label = NoMonth
       PROVE  \/ Unreadable \in {q.month, q.year}
              \/ ~ValidYear(IF q.year = Missing THEN page.opened[1] ELSE q.year)
    <2>. SUFFICES ASSUME Unreadable \notin {q.month, q.year}
                  PROVE  ~ValidYear(IF q.year = Missing THEN page.opened[1] ELSE q.year)
        OBVIOUS
    <2>1. nav = Asked(q, v)
        BY DEF Month
    <2>2. UtcMonth(u) \in Int \X (1..Months) /\ UtcMonth(t) \in Int \X (1..Months)
        BY <1>4, UtcMonthType
    <2>3. ~NamesMonth(q, t)
        <3>1. SUFFICES ASSUME NamesMonth(q, t) PROVE Asked(q, u) # NoMonth
            BY <1>6, <1>12 DEF Label
        <3>2. Asked(q, u)[2] \in 1..Months
            <4>1. CASE q.month = Missing
                BY <2>2, <4>1 DEF Asked
            <4>2. CASE q.month # Missing
                BY <3>1, <4>2 DEF Asked, NamesMonth, ValidMonth
            <4>. QED BY <4>1, <4>2
        <3>. QED BY <3>2, CalendarAssumption DEF NoMonth, Missing
    <2>4. ValidMonth(Asked(q, t)[2])
        <3>1. CASE q.month = Missing
            BY <2>2, <3>1 DEF Asked, ValidMonth
        <3>2. CASE q.month # Missing
            BY <1>3, <2>1, <3>2 DEF Asked, Monthly, ValidMonth
        <3>. QED BY <3>1, <3>2
    <2>5. ~ValidYear(Asked(q, t)[1])
        BY <2>3, <2>4 DEF NamesMonth
    <2>. QED BY <1>6, <2>5 DEF Asked
<1>15. Adjoin(page.prev, page.nav) /\ NextMonth(page.prev) = page.nav
    <2>1. MonthRange(page.prev).to + 1 = MonthRange(page.nav).from
        BY <1>6, <1>8, RangesFollow
    <2>. QED BY <1>6, <1>8, <2>1 DEF Adjoin
<1>13. ASSUME page.next # NoMonth
       PROVE  Adjoin(page.nav, page.next) /\ NotAfter(page.next, page.shown)
    <2>1. page.next = NextMonth(nav) /\ NotAfter(NextMonth(nav), UtcMonth(v))
        BY <1>6, <1>13 DEF Later
    <2>2. MonthRange(page.nav).to + 1 = MonthRange(page.next).from
        BY <1>6, <1>8, <2>1, RangesFollow
    <2>. QED BY <1>6, <2>1, <2>2 DEF Adjoin
<1>14. ASSUME page.next = NoMonth PROVE NotAfter(page.shown, page.nav)
    <2>1. ~NotAfter(NextMonth(<<y, m>>), <<sy, sm>>)
        BY <1>6, <1>7, <1>9, <1>10, <1>14 DEF Later
    <2>2. NotAfter(<<sy, sm>>, <<y, m>>)
        <3>0. Months \in Int /\ sm \in Int /\ 1 <= sm /\ sm <= Months /\ m \in Int /\ 1 <= m /\ m <= Months
            BY <1>10, CalendarAssumption
        <3>1. CASE m < Months
            BY <2>1, <3>0, <3>1 DEF NextMonth, NotAfter
        <3>2. CASE ~(m < Months)
            BY <2>1, <3>0, <3>2 DEF NextMonth, NotAfter
        <3>. QED BY <3>1, <3>2
    <2>. QED BY <1>6, <1>7, <1>9, <2>2
<1>. QED BY <1>11, <1>12, <1>13, <1>14, <1>15 DEF MonthPageAgrees

-----------------------------------------------------------------------------
(* Orders are not of the future, and what is not in the queue is not locked. *)
DataInv ==
    /\ orders \in [Orders -> [at: Int, inv: Tracked]]
    /\ \A o \in Orders : orders[o].at = Missing \/ orders[o].at \in 0..now
    /\ queue \in [Orders -> [status: QueueStatuses \cup {"none"}, lock: Int]]
    /\ \A o \in Orders : queue[o].status = "none" => queue[o].lock = Missing
    /\ IsFiniteSet(logs)

(* Figures.                                                                 *)
LEMMA OrdersFinite ==
    \A S : S \subseteq Orders => IsFiniteSet(S) /\ Cardinality(S) \in Nat
<1>. QED BY DashboardAssumption, FS_Subset, FS_CardinalityType

(* A tile that adds up statuses counts the orders in them.                  *)
LEMMA TileTotal ==
    ASSUME NEW r, NEW S, IsFiniteSet(S), NEW n,
           \A s \in S : n[s] = Cardinality(InStatus({s}, r))
    PROVE  SumFunctionOnSet(n, S) = Cardinality(InStatus(S, r))
<1> DEFINE class == [o \in Orders |-> orders[o].inv]
           R == CreatedIn(r)
<1>1. R \subseteq Orders /\ IsFiniteSet(R)
    BY OrdersFinite DEF CreatedIn
<1>2. \A T : InStatus(T, r) = Members(R, class, T)
    BY DEF InStatus, CreatedIn, Members
<1>3. \A s \in S : n[s] = Cardinality(Members(R, class, {s}))
    BY <1>2
<1> HIDE DEF class, R
<1>4. SumFunctionOnSet(n, S) = Cardinality(Members(R, class, S))
    BY <1>1, <1>3, SumOfClasses
<1>. QED BY <1>2, <1>4

\* The statuses of the total without the cancelled ones.
Started == (TerminalOk \cup TerminalErr) \cup InFlight

LEMMA StatusesFinite ==
    /\ IsFiniteSet(TerminalOk) /\ IsFiniteSet(TerminalErr) /\ IsFiniteSet(InFlight)
    /\ IsFiniteSet(CHART_STATUSES) /\ IsFiniteSet(QueueStatuses) /\ IsFiniteSet(Tracked \ {"pending"})
<1>1. \A x, y : IsFiniteSet({x} \cup {y}) /\ IsFiniteSet({x})
    BY FS_Singleton, FS_AddElement
<1>2. TerminalOk = {"accepted"} \cup {"observed"} /\ TerminalErr = {"rejected"} \cup {"failed"}
    BY DEF TerminalOk, TerminalErr
<1>3. IsFiniteSet(TerminalOk) /\ IsFiniteSet(TerminalErr)
    BY <1>1, <1>2
<1>4. \A a, b, c, d, e, f : IsFiniteSet(({a} \cup {b}) \cup (({c} \cup {d}) \cup ({e} \cup {f})))
    BY <1>1, FS_Union
<1>5. InFlight = ({"submitted"} \cup {"sync_pending"}) \cup
                 (({"sync_processing"} \cup {"processing"}) \cup ({"queued"} \cup {"retrying"}))
    BY DEF InFlight
<1>6. QueueStatuses = ({"pending"} \cup {"processing"}) \cup
                      (({"completed"} \cup {"failed"}) \cup ({"exhausted"} \cup {"dead_letter"}))
    BY DEF QueueStatuses
<1>7. IsFiniteSet(InFlight) /\ IsFiniteSet(QueueStatuses)
    BY <1>4, <1>5, <1>6
<1>8. CHART_STATUSES = TerminalOk \cup TerminalErr
    BY DEF TerminalOk, TerminalErr, CHART_STATUSES
<1>9. Tracked \ {"pending"} = Started \cup {"cancelled"}
    BY DEF Tracked, Started, TerminalOk, TerminalErr, InFlight
<1>10. IsFiniteSet(TerminalOk \cup TerminalErr)
    BY <1>3, FS_Union
<1>11. IsFiniteSet(Started)
    BY <1>7, <1>10, FS_Union DEF Started
<1>12. IsFiniteSet({"cancelled"})
    BY FS_Singleton
<1>13. IsFiniteSet(Tracked \ {"pending"})
    BY <1>9, <1>11, <1>12, FS_Union
<1>. QED BY <1>3, <1>7, <1>8, <1>10, <1>13

LEMMA StatusesAdd ==
    ASSUME NEW r, NEW S, NEW T, S \cap T = {}
    PROVE  Cardinality(InStatus(S \cup T, r)) = Cardinality(InStatus(S, r)) + Cardinality(InStatus(T, r))
<1> DEFINE A == InStatus(S, r)
           B == InStatus(T, r)
<1>1. InStatus(S \cup T, r) = A \cup B /\ A \cap B = {} /\ A \subseteq Orders /\ B \subseteq Orders
    BY DEF InStatus, CreatedIn
<1>2. IsFiniteSet(A) /\ IsFiniteSet(B) /\ Cardinality(A) \in Nat /\ Cardinality(B) \in Nat
    BY <1>1, OrdersFinite
<1> HIDE DEF A, B
<1>3. Cardinality(A \cup B) = Cardinality(A) + Cardinality(B) - Cardinality(A \cap B)
    BY <1>2, FS_Union
<1>4. Cardinality(A \cap B) = 0
    <2>1. A \cap B = {}
        BY <1>1 DEF A, B
    <2>2. Cardinality({}) = 0
        BY FS_EmptySet
    <2>. QED BY <2>1, <2>2
<1>5. Cardinality(A \cup B) = Cardinality(A) + Cardinality(B)
    BY <1>2, <1>3, <1>4
<1>6. InStatus(S \cup T, r) = A \cup B
    BY <1>1
<1>. QED BY <1>5, <1>6 DEF A, B

(* Each figure of the invoices is the number of orders in its statuses.     *)
LEMMA TilesCount ==
    ASSUME NEW r
    PROVE  LET m == InvoiceMetrics(r)
           IN  /\ m.terminal_ok = Cardinality(InStatus(TerminalOk, r))
               /\ m.terminal_err = Cardinality(InStatus(TerminalErr, r))
               /\ m.in_flight = Cardinality(InStatus(InFlight, r))
               /\ m.total_invoiced = Cardinality(InStatus(Tracked \ {"pending"}, r))
               /\ m.by_status["cancelled"] = Cardinality(InStatus({"cancelled"}, r))
<1> DEFINE n == [s \in Tracked |-> Cardinality(InStatus({s}, r))]
           started == Tracked \ {"pending"}
<1>1. /\ InvoiceMetrics(r).terminal_ok = SumFunctionOnSet(n, TerminalOk)
      /\ InvoiceMetrics(r).terminal_err = SumFunctionOnSet(n, TerminalErr)
      /\ InvoiceMetrics(r).in_flight = SumFunctionOnSet(n, InFlight)
      /\ InvoiceMetrics(r).total_invoiced = SumFunctionOnSet(n, started)
      /\ InvoiceMetrics(r).by_status = n
    BY DEF InvoiceMetrics
<1>2. /\ TerminalOk \subseteq Tracked /\ TerminalErr \subseteq Tracked /\ InFlight \subseteq Tracked
      /\ started \subseteq Tracked /\ "cancelled" \in Tracked
    BY DEF Tracked
<1>3. \A s \in Tracked : n[s] = Cardinality(InStatus({s}, r))
    OBVIOUS
<1>4. IsFiniteSet(started)
    BY StatusesFinite
<1> HIDE DEF n, started
<1>5. \A S : S \subseteq Tracked /\ IsFiniteSet(S) => SumFunctionOnSet(n, S) = Cardinality(InStatus(S, r))
    <2>1. SUFFICES ASSUME NEW S, S \subseteq Tracked, IsFiniteSet(S)
                   PROVE  SumFunctionOnSet(n, S) = Cardinality(InStatus(S, r))
        OBVIOUS
    <2>2. \A s \in S : n[s] = Cardinality(InStatus({s}, r))
        BY <1>3, <2>1
    <2>. QED BY <2>1, <2>2, TileTotal
<1>6. /\ SumFunctionOnSet(n, TerminalOk) = Cardinality(InStatus(TerminalOk, r))
      /\ SumFunctionOnSet(n, TerminalErr) = Cardinality(InStatus(TerminalErr, r))
      /\ SumFunctionOnSet(n, InFlight) = Cardinality(InStatus(InFlight, r))
      /\ SumFunctionOnSet(n, started) = Cardinality(InStatus(started, r))
    BY <1>2, <1>4, <1>5, StatusesFinite
<1>. QED BY <1>1, <1>2, <1>3, <1>6 DEF started

(* The acceptance rate is taken over what the tiles count as finished; the  *)
(* total is made of the other tiles and the cancelled orders.               *)
LEMMA TilesAdd ==
    ASSUME DataInv, NEW r
    PROVE  LET m == InvoiceMetrics(r)
           IN  /\ Kpis(r).terminal_total = m.terminal_ok + m.terminal_err
               /\ m.total_invoiced = m.terminal_ok + m.terminal_err + m.in_flight + m.by_status["cancelled"]
               /\ m.total_invoiced + Cardinality(OrderList(Linked.total_invoiced) \cap CreatedIn(r))
                     = Cardinality(CreatedIn(r))
<1>1. Kpis(r).terminal_total = Cardinality(InStatus(TerminalOk \cup TerminalErr, r))
    <2>1. TerminalOk \cup TerminalErr = {"accepted", "observed", "rejected", "failed"}
        BY DEF TerminalOk, TerminalErr
    <2>. QED BY <2>1 DEF Kpis
<1>2. TerminalOk \cap TerminalErr = {} /\ (TerminalOk \cup TerminalErr) \cap InFlight = {}
    BY DEF TerminalOk, TerminalErr, InFlight
<1>3. Started \cap {"cancelled"} = {} /\ Tracked \ {"pending"} = Started \cup {"cancelled"}
    BY DEF Started, Tracked, TerminalOk, TerminalErr, InFlight
<1>4. Cardinality(InStatus(TerminalOk \cup TerminalErr, r))
         = Cardinality(InStatus(TerminalOk, r)) + Cardinality(InStatus(TerminalErr, r))
    BY <1>2, StatusesAdd
<1>5. Cardinality(InStatus(Started, r))
         = Cardinality(InStatus(TerminalOk \cup TerminalErr, r)) + Cardinality(InStatus(InFlight, r))
    BY <1>2, StatusesAdd DEF Started
<1>6. Cardinality(InStatus(Tracked \ {"pending"}, r))
         = Cardinality(InStatus(Started, r)) + Cardinality(InStatus({"cancelled"}, r))
    BY <1>3, StatusesAdd
<1>7. Cardinality(InStatus(Tracked, r))
         = Cardinality(InStatus(Tracked \ {"pending"}, r)) + Cardinality(InStatus({"pending"}, r))
    <2>1. (Tracked \ {"pending"}) \cap {"pending"} = {} /\ (Tracked \ {"pending"}) \cup {"pending"} = Tracked
        BY DEF Tracked
    <2>. QED BY <2>1, StatusesAdd
<1>8. InStatus(Tracked, r) = CreatedIn(r)
    BY DEF DataInv, InStatus, CreatedIn
<1>9. OrderList(Linked.total_invoiced) \cap CreatedIn(r) = InStatus({"pending"}, r)
    BY DEF OrderList, Linked, InStatus, CreatedIn, Within
<1>. QED BY <1>1, <1>4, <1>5, <1>6, <1>7, <1>8, <1>9, TilesCount

(* Of its range, a tile counts no fewer than the list it links to.          *)
LEMMA TilesCover ==
    ASSUME NEW r, NEW t \in {"terminal_ok", "terminal_err", "in_flight"}
    PROVE  Cardinality(OrderList(Linked[t]) \cap CreatedIn(r)) <= InvoiceMetrics(r)[t]
<1> DEFINE S == CASE t = "terminal_ok" -> TerminalOk [] t = "terminal_err" -> TerminalErr [] OTHER -> InFlight
           listed == OrderList(Linked[t]) \cap CreatedIn(r)
<1>1. Linked[t] \in S
    BY DEF Linked, TerminalOk, TerminalErr, InFlight
<1>2. InvoiceMetrics(r)[t] = Cardinality(InStatus(S, r))
    BY TilesCount
<1> HIDE DEF S
<1>3. listed \in SUBSET InStatus(S, r) /\ InStatus(S, r) \subseteq Orders
    BY <1>1 DEF OrderList, InStatus, CreatedIn
<1> HIDE DEF listed
<1>4. Cardinality(listed) <= Cardinality(InStatus(S, r))
    BY <1>3, OrdersFinite, FS_Subset
<1>. QED BY <1>2, <1>4 DEF listed

(* The figures of the queue count every entry once.                         *)
LEMMA QueueTotal ==
    ASSUME DataInv
    PROVE  SumFunctionOnSet(QueueHealth, QueueStatuses) = Cardinality(QueueList("all"))
<1> DEFINE status == [o \in Orders |-> queue[o].status]
<1>0. "stale" \notin QueueStatuses /\ "none" \notin QueueStatuses /\ "all" \notin QueueStatuses \cup {"stale"}
    BY DEF QueueStatuses
<1>1. \A s \in QueueStatuses : QueueHealth[s] = Cardinality(Members(Orders, status, {s}))
    <2>1. SUFFICES ASSUME NEW s \in QueueStatuses
                   PROVE  QueueHealth[s] = Cardinality(Members(Orders, status, {s}))
        OBVIOUS
    <2>2. QueueHealth[s] = Cardinality({o \in Orders : queue[o].status = s})
        BY <1>0 DEF QueueHealth
    <2>3. {o \in Orders : queue[o].status = s} = Members(Orders, status, {s})
        BY DEF Members
    <2>. QED BY <2>2, <2>3
<1>2. Members(Orders, status, QueueStatuses) = QueueList("all")
    <2>1. \A o \in Orders : queue[o].status \in QueueStatuses <=> queue[o].status # "none"
        BY <1>0 DEF DataInv
    <2>. QED BY <1>0, <2>1 DEF Members, QueueList
<1>3. IsFiniteSet(QueueStatuses) /\ IsFiniteSet(Orders)
    BY StatusesFinite, DashboardAssumption
<1> HIDE DEF status
<1>4. SumFunctionOnSet(QueueHealth, QueueStatuses) = Cardinality(Members(Orders, status, QueueStatuses))
    BY <1>1, <1>3, SumOfClasses
<1>. QED BY <1>2, <1>4

LEMMA FailuresListed ==
    ASSUME DataInv, NEW r PROVE IntegrationHealth(r).failed <= Cardinality(LogList("error"))
<1> DEFINE failed == {l \in {k \in logs : Within(k.at, r)} : ~l.ok}
<1>1. failed \in SUBSET LogList("error") /\ LogList("error") \in SUBSET logs
    BY DEF LogList
<1>2. IntegrationHealth(r).failed = Cardinality(failed)
    BY DEF IntegrationHealth
<1> HIDE DEF failed
<1>3. IsFiniteSet(LogList("error"))
    BY <1>1, FS_Subset DEF DataInv
<1>. QED BY <1>1, <1>2, <1>3, FS_Subset

(* Every instant of the chart's days falls on one of its local days.        *)
LEMMA Monotone == ASSUME NEW D \in Nat \ {0}, NEW x \in Int, NEW y \in Int, y >= x + 1 PROVE D * y >= D * x + D
<1>1. PICK k \in Nat : y = x + 1 + k
    <2>1. y - x - 1 \in Nat /\ y = x + 1 + (y - x - 1)
        OBVIOUS
    <2>. QED BY <2>1
<1>2. D * y = D * x + D + D * k
    BY <1>1
<1>3. D * k >= 0 /\ D * k \in Int /\ D * x \in Int
    BY <1>1
<1>. QED BY <1>2, <1>3

LEMMA ChartShows ==
    ASSUME NEW t \in Int, NEW u \in Int, t <= u, t >= u - ChartDays * DayTicks
    PROVE  \E i \in 0..ChartDays : LocalDay(t) = LocalDay(u) - i
<1> DEFINE x == (t - Offset) \div DayTicks
           y == (u - Offset) \div DayTicks
<1>0. DayTicks \in Nat \ {0} /\ Offset \in Int /\ ChartDays \in Nat
    BY CalendarAssumption, DashboardAssumption
<1>1. x \in Int /\ DayTicks * x <= t - Offset /\ t - Offset < DayTicks * x + DayTicks
    BY <1>0
<1>2. y \in Int /\ DayTicks * y <= u - Offset /\ u - Offset < DayTicks * y + DayTicks
    BY <1>0
<1>. HIDE DEF x, y
<1>3. ~(x >= y + 1)
    <2>1. SUFFICES ASSUME x >= y + 1 PROVE FALSE
        OBVIOUS
    <2>2. DayTicks * x >= DayTicks * y + DayTicks
        BY <1>0, <1>1, <1>2, <2>1, Monotone
    <2>3. DayTicks * x \in Int /\ DayTicks * y \in Int
        BY <1>0, <1>1, <1>2
    <2>. QED BY <1>0, <1>1, <1>2, <2>2, <2>3
<1>4. ~(y >= (x + ChartDays) + 1)
    <2>1. SUFFICES ASSUME y >= (x + ChartDays) + 1 PROVE FALSE
        OBVIOUS
    <2>2. DayTicks * y >= DayTicks * (x + ChartDays) + DayTicks
        BY <1>0, <1>1, <1>2, <2>1, Monotone
    <2>3. DayTicks * (x + ChartDays) = DayTicks * x + ChartDays * DayTicks
        BY <1>0, <1>1
    <2>4. DayTicks * x \in Int /\ DayTicks * y \in Int /\ ChartDays * DayTicks \in Int
        BY <1>0, <1>1, <1>2
    <2>. QED BY <1>0, <1>1, <1>2, <2>2, <2>3, <2>4
<1>5. y - x \in 0..ChartDays /\ x = y - (y - x)
    BY <1>0, <1>1, <1>2, <1>3, <1>4
<1>. QED BY <1>5 DEF LocalDay, x, y

(* The bars count every finished invoice of the chart's days once.          *)
LEMMA ChartTotal ==
    ASSUME DataInv, now \in Nat
    PROVE  LET bars == DailySeries IN
             SumFunction([d \in DOMAIN bars |-> SumFunction(bars[d])])
                = Cardinality(InStatus(CHART_STATUSES, RollingRange(now, ChartDays)))
<1> DEFINE shown == {LocalDay(now) - i : i \in 0..ChartDays}
           rows  == {o \in InStatus(CHART_STATUSES, Always) : orders[o].at >= now - ChartDays * DayTicks}
           Bar(d, s) == {o \in rows : LocalDay(orders[o].at) = d /\ orders[o].inv = s}
           bars  == [d \in shown |-> [s \in CHART_STATUSES |-> Cardinality(Bar(d, s))]]
           day   == [o \in rows |-> LocalDay(orders[o].at)]
           inv   == [o \in rows |-> orders[o].inv]
           heights == [d \in DOMAIN bars |-> SumFunction(bars[d])]
<1>1. DailySeries = bars
    BY DEF DailySeries
<1>2. rows \subseteq Orders /\ IsFiniteSet(rows)
    BY OrdersFinite DEF InStatus, CreatedIn
<1>3. IsFiniteSet(CHART_STATUSES)
    BY StatusesFinite
<1>4. ASSUME NEW d \in shown PROVE SumFunction(bars[d]) = Cardinality(Members(rows, day, {d}))
    <2> DEFINE part == Members(rows, day, {d})
               bar == [s \in CHART_STATUSES |-> Cardinality(Bar(d, s))]
    <2>1. bars[d] = bar /\ SumFunction(bar) = SumFunctionOnSet(bar, CHART_STATUSES)
        BY DEF SumFunction
    <2>2. part \subseteq rows /\ IsFiniteSet(part)
        BY <1>2, FS_Subset DEF Members
    <2>3. \A s \in CHART_STATUSES : bar[s] = Cardinality(Members(part, inv, {s}))
        <3>1. \A s : Bar(d, s) = Members(part, inv, {s})
            BY DEF Members
        <3>. QED BY <3>1
    <2>4. Members(part, inv, CHART_STATUSES) = part
        BY <2>2 DEF Members, InStatus
    <2> HIDE DEF part, bar, inv, bars
    <2>5. SumFunctionOnSet(bar, CHART_STATUSES) = Cardinality(Members(part, inv, CHART_STATUSES))
        BY <1>3, <2>2, <2>3, SumOfClasses
    <2>. QED BY <2>1, <2>4, <2>5 DEF part
<1>5. IsFiniteSet(shown)
    <2>1. ChartDays \in Nat /\ LocalDay(now) \in Int
        BY CalendarAssumption, DashboardAssumption DEF LocalDay
    <2>2. shown \subseteq (LocalDay(now) - ChartDays)..LocalDay(now)
        BY <2>1
    <2>3. IsFiniteSet((LocalDay(now) - ChartDays)..LocalDay(now))
        BY <2>1, FS_Interval
    <2>. QED BY <2>2, <2>3, FS_Subset
<1>6. \A o \in rows : orders[o].at \in Nat /\ orders[o].at <= now /\ orders[o].at # Missing
    BY <1>2 DEF DataInv, InStatus, CreatedIn
<1>7. \A o \in rows : day[o] \in shown
    <2>1. \A o \in rows : \E i \in 0..ChartDays : LocalDay(orders[o].at) = LocalDay(now) - i
        BY <1>6, ChartShows
    <2>. QED BY <2>1
<1>8. rows = InStatus(CHART_STATUSES, RollingRange(now, ChartDays))
    <2>1. RollingRange(now, ChartDays) # Always
        BY DEF RollingRange, Always, Missing
    <2>2. \A o \in Orders : orders[o].at # Missing => orders[o].at \in Nat /\ orders[o].at <= now
        BY DEF DataInv
    <2>3. \A t : Within(t, RollingRange(now, ChartDays)) <=> (now - ChartDays * DayTicks <= t /\ t <= now)
        BY <2>1 DEF Within, RollingRange
    <2>4. \A t : Within(t, Always)
        BY DEF Within
    <2>5. now - ChartDays * DayTicks \in Int
        BY CalendarAssumption, DashboardAssumption
    <2>. QED BY <2>2, <2>3, <2>4, <2>5 DEF InStatus, CreatedIn
<1>9. DOMAIN bars = shown /\ SumFunction(heights) = SumFunctionOnSet(heights, shown)
    BY DEF SumFunction
<1>10. \A d \in shown : heights[d] = Cardinality(Members(rows, day, {d}))
    BY <1>4, <1>9
<1>11. Members(rows, day, shown) = rows
    BY <1>7 DEF Members
<1> HIDE DEF shown, rows, bars, day, heights
<1>12. SumFunctionOnSet(heights, shown) = Cardinality(Members(rows, day, shown))
    BY <1>2, <1>5, <1>10, SumOfClasses
<1>13. SumFunction(heights) = Cardinality(InStatus(CHART_STATUSES, RollingRange(now, ChartDays)))
    BY <1>8, <1>9, <1>11, <1>12
<1>. QED BY <1>1, <1>13 DEF heights

LEMMA FiguresHold == ASSUME DataInv, now \in Nat PROVE FiguresAgree
<1>1. /\ Consistency.missing_entries = Cardinality(OrderList("accepted"))
      /\ Consistency.orphan_entries = 0
    <2>1. InStatus({"accepted"}, Always) \ AccountingEntries = OrderList("accepted")
        BY DEF OrderList, AccountingEntries
    <2>2. Cardinality(AccountingEntries \ InStatus({"accepted"}, Always)) = 0
        BY FS_EmptySet DEF AccountingEntries
    <2>. QED BY <2>1, <2>2 DEF Consistency
<1>. QED BY <1>1, TilesAdd, TilesCover, QueueTotal, FailuresListed, ChartTotal DEF FiguresAgree

-----------------------------------------------------------------------------
DashInv == now \in Nat /\ DataInv /\ PageInv

(* The shape of the steps.                                                  *)
LEMMA DashCases ==
    ASSUME [Next]_vars
    PROVE  \/ now' \in {now, now + 1} /\ UNCHANGED dashVars
           \/ /\ now' = now
              /\ \/ \E o \in Orders : OrderCreated(o) \/ InvoiceMoves(o) \/ QueueMoves(o)
                 \/ \E q \in Requests : OpenPage(q)
                 \/ FollowLink \/ LabelPage \/ Navigate
<1>. QED BY DEF Next, Tick, DashEvent, RepEvent, Step, DashStep, Event, vars

LEMMA CreatedStep ==
    ASSUME DashInv, now' = now, NEW o \in Orders, OrderCreated(o) PROVE DataInv'
<1>1. orders' = [orders EXCEPT ![o] = [@ EXCEPT !.at = now]] /\ queue' = queue /\ logs' = logs
    BY DEF OrderCreated
<1>2. orders[o] \in [at: Int, inv: Tracked]
    BY DEF DashInv, DataInv
<1> DEFINE new == [orders[o] EXCEPT !.at = now]
<1>3. new \in [at: Int, inv: Tracked] /\ new.at = now /\ now \in 0..now
    BY <1>2 DEF DashInv
<1>4. orders' = [orders EXCEPT ![o] = new]
    BY <1>1
<1> HIDE DEF new
<1>. QED BY <1>1, <1>3, <1>4 DEF DashInv, DataInv

LEMMA InvoiceStep ==
    ASSUME DashInv, now' = now, NEW o \in Orders, InvoiceMoves(o) PROVE DataInv'
<1>1. PICK s \in {"sync_pending", "accepted", "rejected"} :
          /\ orders' = [orders EXCEPT ![o] = [@ EXCEPT !.inv = s]]
          /\ queue' = [queue EXCEPT ![o] =
                 [status |-> IF s = "sync_pending" THEN "pending" ELSE "completed", lock |-> Missing]]
    BY DEF InvoiceMoves
<1>2. orders[o] \in [at: Int, inv: Tracked] /\ s \in Tracked
    BY DEF DashInv, DataInv, Tracked, InFlight, TerminalOk, TerminalErr
<1> DEFINE new == [orders[o] EXCEPT !.inv = s]
           st == IF s = "sync_pending" THEN "pending" ELSE "completed"
           entry == [status |-> st, lock |-> Missing]
<1>3. new \in [at: Int, inv: Tracked] /\ new.at = orders[o].at
    BY <1>2
<1>4. st \in QueueStatuses /\ Missing \in Int
    BY DEF QueueStatuses, Missing
<1>5. entry \in [status: QueueStatuses \cup {"none"}, lock: Int] /\ entry.lock = Missing
    BY <1>4
<1>6. orders' = [orders EXCEPT ![o] = new] /\ queue' = [queue EXCEPT ![o] = entry]
    BY <1>1
<1>7. IsFiniteSet(logs')
    <2>1. PICK l : logs' = logs \cup {l}
        BY DEF InvoiceMoves
    <2>. QED BY <2>1, FS_AddElement DEF DashInv, DataInv
<1> HIDE DEF new, entry
<1>. QED BY <1>3, <1>5, <1>6, <1>7 DEF DashInv, DataInv

LEMMA QueueStep ==
    ASSUME DashInv, now' = now, NEW o \in Orders, QueueMoves(o) PROVE DataInv'
<1>1. PICK e \in {[status |-> "processing", lock |-> now], [status |-> "exhausted", lock |-> Missing]} :
          queue' = [queue EXCEPT ![o] = e]
    BY DEF QueueMoves
<1>2. e \in [status: QueueStatuses \cup {"none"}, lock: Int] /\ e.status # "none"
    BY DEF DashInv, QueueStatuses, Missing
<1>3. orders' = orders /\ logs' = logs
    BY DEF QueueMoves
<1>. QED BY <1>1, <1>2, <1>3 DEF DashInv, DataInv

LEMMA DataWaits ==
    ASSUME DashInv, now' \in {now, now + 1}, UNCHANGED <<orders, queue, logs>> PROVE DataInv'
<1>1. 0..now \subseteq 0..now'
    BY DEF DashInv
<1>. QED BY <1>1 DEF DashInv, DataInv

(* What the page was built from stays true of it, and of the orders.        *)
THEOREM DashboardInvariant == Spec => []DashInv
<1>1. Init => DashInv
    <2>. SUFFICES ASSUME Init PROVE DashInv
        OBVIOUS
    <2>2. IsFiniteSet({})
        BY FS_EmptySet
    <2>1. "pending" \in Tracked /\ Missing \in Int
        BY DEF Tracked, Missing
    <2>. QED BY <2>1, <2>2, BackOfficeAssumption DEF Init, DashInit, DashInv, DataInv, PageInv, NoPage
<1>2. DashInv /\ [Next]_vars => DashInv'
    <2>. SUFFICES ASSUME DashInv, [Next]_vars PROVE DashInv'
        OBVIOUS
    <2>0. now \in Nat /\ PageInv /\ DataInv
        BY DEF DashInv
    <2>1. CASE now' \in {now, now + 1} /\ UNCHANGED dashVars
        BY <2>0, <2>1, DataWaits, PageWaits DEF DashInv, dashVars
    <2>2. ASSUME now' = now, NEW o \in Orders, OrderCreated(o) \/ InvoiceMoves(o) \/ QueueMoves(o)
          PROVE  DashInv'
        <3>1. page' = page
            BY <2>2 DEF OrderCreated, InvoiceMoves, QueueMoves
        <3>2. PageInv'
            BY <2>0, <2>2, <3>1, PageWaits
        <3>. QED BY <2>0, <2>2, <3>2, CreatedStep, InvoiceStep, QueueStep DEF DashInv
    <2>3. ASSUME now' = now, NEW q \in Queries, OpenPage(q) PROVE DashInv'
        <3>1. DataInv'
            BY <2>3, DataWaits DEF OpenPage
        <3>. QED BY <2>0, <2>3, <3>1, OpenStep DEF DashInv
    <2>4. ASSUME now' = now, FollowLink PROVE DashInv'
        <3>1. PICK ym \in {page.prev, page.next} \ {NoMonth} : OpenPage(MonthRequest(ym))
            BY <2>4 DEF FollowLink
        <3>2. MonthRequest(ym) \in Queries
            BY <2>0, <2>4, LinkType DEF FollowLink
        <3>. QED BY <2>3, <2>4, <3>1, <3>2
    <2>5. ASSUME now' = now, LabelPage \/ Navigate PROVE DashInv'
        <3>1. DataInv'
            BY <2>5, DataWaits DEF LabelPage, Navigate
        <3>. QED BY <2>0, <2>5, <3>1, LabelStep, NavigateStep DEF DashInv
    <2>6. Requests \subseteq Queries
        BY DashboardAssumption
    <2>. QED BY <2>1, <2>2, <2>3, <2>4, <2>5, <2>6, DashCases
<1>. QED BY <1>1, <1>2, PTL DEF Spec

(* The figures of the page make one account of the orders, of the queue and *)
(* of the calls, the tiles count no fewer of their range than the lists they *)
(* link to, and the chart counts every finished invoice of its days,        *)
(* whatever moves under the page and wherever the local day begins.         *)
THEOREM FiguresAlwaysAgree == Spec => []FiguresAgree
<1>1. DashInv => FiguresAgree
    BY FiguresHold DEF DashInv
<1>. QED BY <1>1, DashboardInvariant, PTL

(* A page that names a month shows that one month, unless the month ended   *)
(* while it was built, and only a part that cannot be read or a year off    *)
(* the calendar leaves a page of a month without one; the months and their  *)
(* links follow one another without a gap.                                  *)
THEOREM MonthPagesAgree == Spec => []MonthPageAgrees
<1>1. DashInv => MonthPageAgrees
    BY PageMonths DEF DashInv
<1>. QED BY <1>1, DashboardInvariant, PTL

===============================================================================
