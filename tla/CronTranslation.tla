--------------------------- MODULE CronTranslation ---------------------------
(***************************************************************************)
(* When a job fires (pkg/cronx, validateJob of internal/service/job.go):   *)
(* its expression is Quartz's, the scheduler's library is robfig/cron, and *)
(* the two look alike.  They number the days of the week differently, and  *)
(* a step must not be renumbered with them; what the library does not have *)
(* is refused.                                                             *)
(*                                                                         *)
(* Seconds, minutes and hours pass as they are and are left out.  A field  *)
(* for the day of the week is a sequence of items, each a "*", a "?", one  *)
(* day or a range, and perhaps a step; a day is a number or a name.        *)
(***************************************************************************)
EXTENDS Integers, Sequences

CONSTANT CronItems   \* what a field for the day of the week may consist of, records of Item

VARIABLE schedule   \* of a job: its expression and, if it was accepted, what the library was given

cronVars == <<schedule>>

DayNames == <<"SUN", "MON", "TUE", "WED", "THU", "FRI", "SAT">>
Numbers == 0..8
Item == [kind: {"*", "?", "one", "range", "last", "nth"}, lo: Numbers, hi: Numbers, named: BOOLEAN, step: 0..3]

\* For the day of the month, the month and the year; "15" stands for any day,
\* "*" for a month without the letters, "2027" for any year.
Doms == {"?", "*", "15", "L", "15W"}
Months == {"*", "JUL"}
Years == {"", "*", "2027"}
Wild(field) == field.kind \in {"*", "?"}

\* One day is a range from itself, only days have names, and a "?" has no step.
WellFormed(item) ==
    /\ item.kind = "one" => item.lo = item.hi
    /\ item.named => {item.lo, item.hi} \subseteq 1..7
    /\ item.kind = "?" => item.step = 0

ASSUME CronAssumption == CronItems \subseteq {item \in Item : WellFormed(item)}

NoSchedule == [dom |-> "?", month |-> "*", dow |-> << >>, year |-> "", accepted |-> FALSE, given |-> << >>]

-----------------------------------------------------------------------------
(* Translate: unsupported, the field of the year, shiftDayOfWeek.          *)

\* The letters L and W and the sign # stand for Quartz's own syntax, wherever
\* in a field they are: in the names JUL and WED, too.
Unsupported(dom, month, dow) ==
    \/ dom \in {"L", "15W"}
    \/ month = "JUL"
    \/ \E i \in DOMAIN dow :
         \/ dow[i].kind \in {"last", "nth"}
         \/ dow[i].named /\ "WED" \in {DayNames[dow[i].lo], DayNames[dow[i].hi]}

shiftWeekdayValues(item) == IF Wild(item) \/ item.named THEN item ELSE [item EXCEPT !.lo = @ - 1, !.hi = @ - 1]

\* Mutant: what follows the "/" is shifted, too.
ShiftSteps(dow) ==
    [i \in DOMAIN dow |->
       LET item == dow[i]
       IN IF Wild(item) \/ item.named THEN item
          ELSE [item EXCEPT !.lo = @ - 1, !.hi = @ - 1, !.step = IF @ > 1 THEN @ - 1 ELSE @]]

shiftDayOfWeek(dow) == [i \in DOMAIN dow |-> shiftWeekdayValues(dow[i])]

\* A number that is no day is refused.
Shiftable(item) == Wild(item) \/ item.named \/ {item.lo, item.hi} \subseteq 1..7

Translates(dom, month, dow, year) ==
    /\ year \in {"", "*"}
    /\ ~Unsupported(dom, month, dow)
    /\ \A i \in DOMAIN dow : Shiftable(dow[i])

-----------------------------------------------------------------------------
(* The library, robfig/cron: days of the week from 0; a day with a step    *)
(* goes on to the last; a range that runs backwards is refused.            *)

FirstDay(item) == IF Wild(item) THEN 0 ELSE IF item.named THEN item.lo - 1 ELSE item.lo
LastDay(item) ==
    IF Wild(item) \/ (item.kind = "one" /\ item.step > 0) THEN 6
    ELSE IF item.named THEN item.hi - 1 ELSE item.hi

Parses(given) == \A i \in DOMAIN given : FirstDay(given[i]) <= LastDay(given[i]) /\ LastDay(given[i]) <= 6

Weekdays(given) ==
    {d \in 0..6 : \E i \in DOMAIN given :
        /\ d \in FirstDay(given[i])..LastDay(given[i])
        /\ given[i].step > 0 => (d - FirstDay(given[i])) % given[i].step = 0}

\* Whether it fires on a weekday; today says whether the day of the month fits
\* a field that is not wild.  With two fields that are not wild one is enough.
Fires(dom, given, weekday, today) ==
    LET byDom == dom \in {"*", "?"} \/ today
        byDow == weekday \in Weekdays(given)
    IN IF dom \in {"*", "?"} \/ \E i \in DOMAIN given : Wild(given[i])
       THEN byDom /\ byDow ELSE byDom \/ byDow

-----------------------------------------------------------------------------
\* A request to create or change a job, whose expression cronx.Parse accepts or not.
SaveJob ==
    /\ schedule = NoSchedule
    /\ \E dom \in Doms, month \in Months, year \in Years,
          dow \in {<<item>> : item \in CronItems} \cup (CronItems \X CronItems) :
         LET given == shiftDayOfWeek(dow)
             accepted == Translates(dom, month, dow, year) /\ Parses(given)
         IN schedule' = [dom |-> dom, month |-> month, dow |-> dow, year |-> year, accepted |-> accepted,
                         given |-> IF accepted THEN given ELSE << >>]

CronInit == schedule = NoSchedule
CronNext == SaveJob

CronSpec == CronInit /\ [][CronNext]_cronVars

-----------------------------------------------------------------------------
(* Quartz: days of the week from 1, and one of the two fields for days is  *)
(* "?".  A range may run backwards, over the end of the week.              *)

QuartzItem(item) ==
    CASE item.kind = "*" -> {d \in 1..7 : item.step > 0 => (d - 1) % item.step = 0}
      [] item.kind = "one" -> IF item.step = 0 THEN {item.lo} ELSE {d \in item.lo..7 : (d - item.lo) % item.step = 0}
      [] OTHER -> {d \in 1..7 : \E n \in 0..6 :
                     /\ n <= (item.hi + 7 - item.lo) % 7 /\ (item.step > 0 => n % item.step = 0)
                     /\ d = ((item.lo + n - 1) % 7) + 1}

QuartzLegal(dom, dow) ==
    IF dom = "?" THEN \A i \in DOMAIN dow : dow[i].kind # "?" ELSE Len(dow) = 1 /\ dow[1].kind = "?"

QuartzFires(dom, dow, weekday, today) ==
    IF dom = "?" THEN \E i \in DOMAIN dow : weekday \in QuartzItem(dow[i]) ELSE dom = "*" \/ today

CronTypeOK ==
    /\ DOMAIN schedule = DOMAIN NoSchedule /\ schedule.accepted \in BOOLEAN
    /\ \A i \in DOMAIN schedule.dow : schedule.dow[i] \in Item

\* A job that was accepted fires on the very days its expression names
\* (cronx.go:81), whatever lists, ranges, steps and names it is made of; what
\* Quartz alone has is refused (cronx.go:32), and what both have is not, unless a
\* name in it holds an L or a W.
SchedulesFaithful ==
    LET s == schedule IN
    s # NoSchedule /\ QuartzLegal(s.dom, s.dow) =>
        IF s.accepted
        THEN /\ s.dom \notin {"L", "15W"} /\ s.year # "2027" /\ \A i \in DOMAIN s.dow : s.dow[i].kind \notin {"last", "nth"}
             /\ \A weekday \in 1..7, today \in BOOLEAN :
                  Fires(s.dom, s.given, weekday - 1, today) <=> QuartzFires(s.dom, s.dow, weekday, today)
        ELSE \/ s.dom \in {"L", "15W"} \/ s.month = "JUL" \/ s.year = "2027"
             \/ \E i \in DOMAIN s.dow :
                  \/ s.dow[i].kind \in {"last", "nth"}
                  \/ s.dow[i].named /\ 4 \in {s.dow[i].lo, s.dow[i].hi}
                  \/ ~s.dow[i].named /\ ~({s.dow[i].lo, s.dow[i].hi} \subseteq 1..7)
                  \/ s.dow[i].hi < s.dow[i].lo

=============================================================================
