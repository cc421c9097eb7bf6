------------------------------ MODULE Temporal ------------------------------
(***************************************************************************)
(* What the temporal awareness engine makes of an expression such as "next *)
(* friday" (app/temporal_awareness/engine.py) and in which order its rules *)
(* are tried on a message (app/temporal_awareness/rules.py).               *)
(*                                                                         *)
(* A day is its ordinal in the Gregorian calendar, a moment a day and a    *)
(* minute of it; seconds and the time zone are left out.  An expression is *)
(* a tag and what its pattern captures.                                    *)
(***************************************************************************)
EXTENDS Integers, Sequences
Seqs == INSTANCE SequencesExt

(***************************************************************************)
(* The calendar, as pendulum keeps it: the week begins on Monday.          *)
(***************************************************************************)
LeapYear(y) == y % 4 = 0 /\ (y % 100 # 0 \/ y % 400 = 0)

MonthLength(y, m) ==
    CASE m = 2 -> IF LeapYear(y) THEN 29 ELSE 28
      [] m \in {4, 6, 9, 11} -> 30
      [] OTHER -> 31

DaysBefore == <<0, 31, 59, 90, 120, 151, 181, 212, 243, 273, 304, 334>>

DayNumber(y, m, d) ==
    LET past == y - 1
    IN  365 * past + past \div 4 - past \div 100 + past \div 400
          + DaysBefore[m] + (IF m > 2 /\ LeapYear(y) THEN 1 ELSE 0) + d

YearOf(n) == CHOOSE y \in (n \div 366)..(n \div 365 + 1) :
                DayNumber(y, 1, 1) <= n /\ n < DayNumber(y + 1, 1, 1)
MonthOf(n) == LET y == YearOf(n)
              IN  CHOOSE m \in 1..12 :
                     n \in DayNumber(y, m, 1)..(DayNumber(y, m, 1) + MonthLength(y, m) - 1)
DayOfMonth(n) == n - DayNumber(YearOf(n), MonthOf(n), 1) + 1
DayOfWeek(n) == (n - 1) % 7

StartOf(unit, n) ==
    CASE unit = "week" -> n - DayOfWeek(n)
      [] unit = "month" -> DayNumber(YearOf(n), MonthOf(n), 1)
      [] unit = "year" -> DayNumber(YearOf(n), 1, 1)

EndOf(unit, n) ==
    CASE unit = "week" -> n - DayOfWeek(n) + 6
      [] unit = "month" -> StartOf("month", n) + MonthLength(YearOf(n), MonthOf(n)) - 1
      [] unit = "year" -> DayNumber(YearOf(n) + 1, 1, 1) - 1

(***************************************************************************)
(* Results.  "none": the handler gave the text back.  "error": it raised.  *)
(***************************************************************************)
Kinds == {"none", "error", "dates", "moment", "years"}
Result(kind, a, b) == [kind |-> kind, a |-> a, b |-> b]
Untouched == Result("none", 0, 0)
Raised == Result("error", 0, 0)
Dates(from, to) == Result("dates", from, to)
Day(n) == Dates(n, n)
Moment(day, minute) == Result("moment", day, minute)
Years(from, to) == Result("years", from, to)

\* now +- a number of minutes
Later(now, minutes) ==
    LET t == now.minute + minutes
    IN  Moment(now.day + (t \div 1440), t % 1440)

\* An expression: the tag, and the number, minute, unit, direction and am/pm
\* its pattern captures.
Plain(tag) == [tag |-> tag, n |-> 0, m |-> 0, unit |-> "day", dir |-> "this", ampm |-> ""]

-----------------------------------------------------------------------------
(* The handlers                                                            *)

\* Yesterday's and tomorrow's parts: days from now and minute.
DayParts ==
    [yesterday_morning |-> <<-1, 540>>, yesterday_afternoon |-> <<-1, 900>>,
     yesterday_evening |-> <<-1, 1200>>, yesterday_night |-> <<-1, 1320>>,
     last_night |-> <<-1, 1320>>,
     tomorrow_morning |-> <<1, 540>>, tomorrow_afternoon |-> <<1, 900>>,
     tomorrow_evening |-> <<1, 1200>>, tomorrow_night |-> <<1, 1320>>]

Meals ==
    [first_thing_tomorrow |-> <<1, 480>>, first_thing_morning |-> <<0, 480>>,
     lunchtime |-> <<0, 750>>, dinnertime |-> <<0, 1140>>, teatime |-> <<0, 960>>,
     breakfast_time |-> <<0, 480>>]

Deadlines == [cob |-> <<0, 1020>>, eod |-> <<0, 1020>>, end_of_day |-> <<0, 1439>>]

Today ==
    [this_morning_datetime |-> <<0, 540>>, this_afternoon_datetime |-> <<0, 900>>,
     this_evening_datetime |-> <<0, 1200>>, noon_datetime |-> <<0, 720>>,
     midnight_datetime |-> <<0, 0>>, morning_standalone |-> <<0, 540>>,
     afternoon_standalone |-> <<0, 900>>, evening_standalone |-> <<0, 1200>>,
     tonight_datetime |-> <<0, 1320>>]

\* A date some days away, and a moment some minutes away.
Colloquial ==
    [the_other_day |-> -2, a_long_time_ago |-> -365, a_while_ago |-> -14,
     couple_units_ago |-> -2]
FarDays == [day_after_tomorrow |-> 2, day_before_yesterday |-> -2, fortnight_ago |-> -14,
            in_fortnight |-> 14, fortnight_from_now |-> 14]
NearDays == [today |-> 0, yesterday |-> -1, tomorrow |-> 1]
Minutes == [in_a_bit |-> 60, shortly |-> 15, soon |-> 60, now_datetime |-> 0,
            later_today |-> 180, earlier_today |-> -180]

UnitDays == [day |-> 1, week |-> 7, month |-> 30, year |-> 365]
UnitMinutes == [hour |-> 60, minute |-> 1]

\* Only the counted units of less than a day keep the time.
CountedUnits(e, now) ==
    LET sign == IF e.tag \in {"past_n_units", "n_units_ago"} THEN -1 ELSE 1
    IN  IF e.unit \in DOMAIN UnitMinutes
        THEN Later(now, sign * e.n * UnitMinutes[e.unit])
        ELSE Day(now.day + sign * e.n * UnitDays[e.unit])

FewUnits(e, now) ==
    LET sign == IF e.tag \in {"few_units_ago", "a_unit_ago"} THEN -1 ELSE 1
        n == IF e.tag \in {"few_units_ago", "few_units_from_now"} THEN 3 ELSE 1
    IN  IF e.unit \in DOMAIN UnitMinutes
        THEN Day(Later(now, sign * n * UnitMinutes[e.unit]).a)
        ELSE Day(now.day + sign * n * UnitDays[e.unit])

\* 12-hour clock to 24-hour clock.
ApplyAmPm(hour, ampm) ==
    IF ampm = "pm" /\ hour < 12 THEN hour + 12
    ELSE IF ampm = "am" /\ hour = 12 THEN 0 ELSE hour

\* set(hour = ...) raises beyond 23.
AtHour(now, hour, minute) ==
    IF hour > 23 THEN Raised ELSE Moment(now.day, 60 * hour + minute)

ClockTags == {"military_time", "military_time_hundred", "quarter_past", "quarter_to",
              "half_past", "oclock", "specific_time_datetime"}

Clock(e, now) ==
    LET hour == ApplyAmPm(e.n, e.ampm)
    IN  CASE e.tag = "military_time" -> AtHour(now, e.n, e.m)
          [] e.tag = "military_time_hundred" -> AtHour(now, e.n % 24, 0)
          [] e.tag = "quarter_past" -> AtHour(now, hour, 15)
          [] e.tag = "quarter_to" -> AtHour(now, (hour - 1) % 24, 45)
          [] e.tag = "half_past" -> AtHour(now, hour, 30)
          [] e.tag = "oclock" -> AtHour(now, e.n, 0)
          [] e.tag = "specific_time_datetime" ->
                IF e.n > 23 \/ e.m > 59 \/ hour > 23 THEN Untouched
                ELSE AtHour(now, hour, e.m)

\* end / start of a period, and its abbreviations
Edges ==
    [eow |-> "week", eom |-> "month", eoy |-> "year", month_end |-> "month",
     year_end |-> "year"]

Edge(e, now) ==
    CASE e.tag = "end_of_period" -> Day(EndOf(e.unit, now.day))
      [] e.tag = "start_of_period" -> Day(StartOf(e.unit, now.day))
      [] e.tag \in DOMAIN Edges -> Day(EndOf(Edges[e.tag], now.day))

Span(unit, n) == Dates(StartOf(unit, n), EndOf(unit, n))

FollowingPeriod(e, now) ==
    CASE e.unit = "week" -> Span("week", StartOf("week", now.day) + 7)
      [] e.unit = "month" -> Span("month", StartOf("month", now.day) + 32)
      [] OTHER -> Day(now.day + 1)

\* _format_quarter_range: the first month and two more.
QuarterRange(y, q) ==
    LET start == DayNumber(y, 3 * (q - 1) + 1, 1)
        second == EndOf("month", start) + 1
        third == EndOf("month", second) + 1
    IN  Dates(start, EndOf("month", third))

QuarterOf(n) == (MonthOf(n) - 1) \div 3 + 1

\* set(year = ...) raises when the year has no such day.
InYear(n, y, result) ==
    IF DayOfMonth(n) > MonthLength(y, MonthOf(n)) THEN Raised ELSE result

Quarter(e, now) ==
    LET q == QuarterOf(now.day)
        y == YearOf(now.day)
    IN  CASE e.tag = "quarter_n" -> QuarterRange(y, e.n)
          [] e.tag = "this_quarter" -> QuarterRange(y, q)
          [] e.tag = "last_quarter" ->
                IF q = 1 THEN InYear(now.day, y - 1, QuarterRange(y - 1, 4))
                ELSE QuarterRange(y, q - 1)
          [] e.tag = "next_quarter" ->
                IF q = 4 THEN InYear(now.day, y + 1, QuarterRange(y + 1, 1))
                ELSE QuarterRange(y, q + 1)

\* _resolve_season: e.n is the month the season starts in.
Season(e, now) ==
    LET y == YearOf(now.day)
        begun == MonthOf(now.day) >= e.n
        year == CASE e.dir = "last" -> IF begun THEN y ELSE y - 1
                  [] e.dir = "next" -> IF begun THEN y + 1 ELSE y
                  [] OTHER -> y
        start == DayNumber(year, e.n, 1)
    IN  Dates(start, EndOf("month", start + 89))

Decade(e, now) ==
    LET y == YearOf(now.day)
    IN  CASE e.dir = "last" -> Years(y - 10, y - 1)
          [] e.dir = "next" -> Years(y + 1, y + 10)
          [] OTHER -> Years((y \div 10) * 10, (y \div 10) * 10 + 9)

\* The modulo of Python, 0 replaced by a week.
WholeWeek(diff) == IF diff % 7 = 0 THEN 7 ELSE diff % 7

WeekdayTags == {"relative_day_of_week", "coming_day_of_week", "on_weekday", "bare_weekday"}

WeekDay(e, now) ==
    LET today == DayOfWeek(now.day)
    IN  CASE e.tag \in {"on_weekday", "bare_weekday"} -> Day(now.day + ((e.n - today) % 7))
          [] e.tag = "relative_day_of_week" /\ e.dir \in {"last", "previous"} ->
                Day(now.day - WholeWeek(today - e.n))
          [] e.tag = "relative_day_of_week" /\ e.dir = "this" ->
                Day(StartOf("week", now.day) + e.n)
          [] OTHER -> Day(now.day + WholeWeek(e.n - today))

Weekends == [last_weekend |-> -7, this_weekend |-> 0, next_weekend |-> 7]
Weekend(e, now) ==
    LET saturday == StartOf("week", now.day) + 5 + Weekends[e.tag]
    IN  Dates(saturday, saturday + 1)

RelativePeriods == {"last_week", "this_week", "next_week", "last_month", "this_month",
                    "next_month", "last_year", "this_year", "next_year"}

RelativePeriod(e, now) ==
    LET d == now.day
        y == YearOf(d)
    IN  CASE e.tag = "last_week" -> Span("week", StartOf("week", d) - 7)
          [] e.tag = "this_week" -> Span("week", d)
          [] e.tag = "next_week" -> Span("week", StartOf("week", d) + 7)
          [] e.tag = "last_month" -> Span("month", d - DayOfMonth(d))
          [] e.tag = "this_month" -> Span("month", d)
          [] e.tag = "next_month" -> Span("month", StartOf("month", d) + 32)
          [] e.tag = "last_year" -> InYear(d, y - 1, Span("year", DayNumber(y - 1, 1, 1)))
          [] e.tag = "this_year" -> Span("year", d)
          [] e.tag = "next_year" -> InYear(d, y + 1, Span("year", DayNumber(y + 1, 1, 1)))

OnDay(table, e, now) == Day(now.day + table[e.tag])
AtTime(table, e, now) == Moment(now.day + table[e.tag][1], table[e.tag][2])

\* _TAG_DISPATCH and _resolve_match
Resolve(e, now) ==
    CASE e.tag \in DOMAIN DayParts -> AtTime(DayParts, e, now)
      [] e.tag \in DOMAIN Meals -> AtTime(Meals, e, now)
      [] e.tag \in DOMAIN Deadlines -> AtTime(Deadlines, e, now)
      [] e.tag \in DOMAIN Today -> AtTime(Today, e, now)
      [] e.tag \in DOMAIN Colloquial -> OnDay(Colloquial, e, now)
      [] e.tag \in DOMAIN FarDays -> OnDay(FarDays, e, now)
      [] e.tag \in DOMAIN NearDays -> OnDay(NearDays, e, now)
      [] e.tag \in DOMAIN Minutes -> Later(now, Minutes[e.tag])
      [] e.tag = "midweek" -> Day(StartOf("week", now.day) + 2)
      [] e.tag \in {"past_n_units", "n_units_ago", "n_units_from_now", "in_n_units"} ->
            CountedUnits(e, now)
      [] e.tag \in {"few_units_ago", "few_units_from_now", "a_unit_ago", "a_unit_from_now"} ->
            FewUnits(e, now)
      [] e.tag \in ClockTags -> Clock(e, now)
      [] e.tag \in {"end_of_period", "start_of_period"} \cup DOMAIN Edges -> Edge(e, now)
      [] e.tag = "following_period" -> FollowingPeriod(e, now)
      [] e.tag \in {"quarter_n", "this_quarter", "last_quarter", "next_quarter"} ->
            Quarter(e, now)
      [] e.tag = "relative_season" -> Season(e, now)
      [] e.tag = "relative_decade" -> Decade(e, now)
      [] e.tag \in WeekdayTags -> WeekDay(e, now)
      [] e.tag \in DOMAIN Weekends -> Weekend(e, now)
      [] e.tag \in RelativePeriods -> RelativePeriod(e, now)

-----------------------------------------------------------------------------
(***************************************************************************)
(* The order of the rules.  rules.py sorts its patterns by the length of   *)
(* the regular expression, the longest first, and every rule replaces what *)
(* it matches before the next one is tried.  Here are the rules whose      *)
(* phrases share words, in that order; "friday", "3", "3:15", "days" and   *)
(* "am/pm" stand for every weekday, number, time, unit and suffix.  A rule *)
(* no other one overlaps has its tag for a phrase.                         *)
(***************************************************************************)
Rule(tag, phrases) == [tag |-> tag, phrases |-> phrases]

\* "yesterday night" is longer than "yesterday", its regular expression shorter.
RulesOfTheDay ==
    <<Rule("day_before_yesterday", {<<"the", "day", "before", "yesterday">>}),
      Rule("fortnight_from_now", {<<"a", "fortnight", "from", "now">>}),
      Rule("day_after_tomorrow", {<<"the", "day", "after", "tomorrow">>, <<"day", "tomorrow">>}),
      Rule("first_thing_morning", {<<"first", "thing", "in", "the", "morning">>,
                                   <<"first", "thing">>}),
      Rule("yesterday_afternoon", {<<"yesterday", "afternoon">>}),
      Rule("end_of_day", {<<"end", "of", "day">>}),
      Rule("yesterday_morning", {<<"yesterday", "morning">>}),
      Rule("yesterday_evening", {<<"yesterday", "evening">>}),
      Rule("yesterday", {<<"yesterday">>}),
      Rule("yesterday_night", {<<"yesterday", "night">>}),
      Rule("first_thing_tomorrow", {<<"first", "thing", "tomorrow">>}),
      Rule("earlier_today", {<<"earlier", "today">>, <<"earlier", "tonight">>}),
      Rule("later_today", {<<"later", "today">>, <<"later", "tonight">>})>>

RulesOfTheTime ==
    <<Rule("relative_day_of_week", {<<d, "friday">> : d \in {"last", "next", "this", "previous"}}),
      Rule("coming_day_of_week", {<<"coming", "friday">>}),
      Rule("n_units_from_now", {<<"3", "days", "from", "now">>}),
      Rule("on_weekday", {<<"on", "friday">>}),
      Rule("specific_time_datetime", {<<"at", "3:15", "am/pm">>}),
      Rule("quarter_to", {<<"quarter", "to", "3", "am/pm">>, <<"quarter", "to", "3">>}),
      Rule("quarter_past", {<<"quarter", "past", "3", "am/pm">>, <<"quarter", "past", "3">>}),
      Rule("specific_time_datetime", {<<"3:15", "am/pm">>, <<"3", "am/pm">>}),
      Rule("a_unit_from_now", {<<"a", "hour", "from", "now">>}),
      Rule("bare_weekday", {<<"friday">>}),
      Rule("half_past", {<<"half", "past", "3", "am/pm">>, <<"half", "past", "3">>}),
      Rule("now_datetime", {<<"right", "now">>}),
      Rule("few_units_from_now", {<<"a", "few", "days", "from", "now">>})>>

RulesOfTomorrow ==
    <<Rule("tomorrow_afternoon", {<<"tomorrow", "afternoon">>}),
      Rule("tomorrow_morning", {<<"tomorrow", "morning">>}),
      Rule("tomorrow_evening", {<<"tomorrow", "evening">>}),
      Rule("tonight_datetime", {<<"tonight">>}),
      Rule("tomorrow_night", {<<"tomorrow", "night">>}),
      Rule("this_afternoon_datetime", {<<"this", "afternoon">>}),
      Rule("this_morning_datetime", {<<"this", "morning">>}),
      Rule("this_evening_datetime", {<<"this", "evening">>}),
      Rule("afternoon_standalone", {<<"afternoon">>}),
      Rule("morning_standalone", {<<"morning">>}),
      Rule("evening_standalone", {<<"evening">>}),
      Rule("tomorrow", {<<"tomorrow">>}),
      Rule("today", {<<"today">>}),
      Rule("now_datetime", {<<"now">>})>>

Mut_RulesInOrder ==      \* Mutant: the rules are tried shortest first.
    Seqs!Reverse(RulesOfTheTime \o RulesOfTheDay \o RulesOfTomorrow)

RulesInOrder == RulesOfTheTime \o RulesOfTheDay \o RulesOfTomorrow

\* A word of a message, or what it was replaced by.
Word(w) == [word |-> w, value |-> Untouched]
Value(v) == [word |-> "", value |-> v]

Occurs(phrase, i, text) ==
    /\ i + Len(phrase) - 1 <= Len(text)
    /\ \A k \in 1..Len(phrase) : text[i + k - 1].word = phrase[k]

Replace(text, i, n, value) ==
    IF value = Untouched THEN text
    ELSE SubSeq(text, 1, i - 1) \o <<Value(value)>> \o SubSeq(text, i + n, Len(text))

\* One rule on one message: its longest phrase, once.
ApplyRule(text, rule, e, now) ==
    LET places == {x \in rule.phrases \X (1..Len(text)) : Occurs(x[1], x[2], text)}
        place == CHOOSE x \in places : \A y \in places : Len(y[1]) <= Len(x[1])
        suffix == IF Seqs!Contains(place[1], "am/pm") THEN e.ampm ELSE ""
    IN  IF places = {} THEN text
        ELSE Replace(text, place[2], Len(place[1]),
                     Resolve([e EXCEPT !.tag = rule.tag, !.ampm = suffix], now))

\* process_message: e holds what the patterns of this message capture, and the
\* tag of its rule if no other rule overlaps it.
ProcessMessage(words, e, now) ==
    LET rules == IF e.tag = "" THEN RulesInOrder
                 ELSE Append(RulesInOrder, Rule(e.tag, {words}))
    IN  Seqs!FoldLeft(LAMBDA text, rule : ApplyRule(text, rule, e, now),
                 [k \in DOMAIN words |-> Word(words[k])], rules)

\* What a message that was processed says.
Values(text) ==
    Seqs!FoldLeft(LAMBDA said, token :
                     IF token.value = Untouched THEN said ELSE Append(said, token.value),
                  <<>>, text)
=============================================================================
