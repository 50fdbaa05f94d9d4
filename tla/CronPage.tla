------------------------------ MODULE CronPage ------------------------------
(***************************************************************************)
(* Cron expressions as the schedules page handles them: the builder that   *)
(* reads and writes them, the field where any of them can be typed, the    *)
(* calendar of the days they fire on, and the scheduler's own reading of   *)
(* them (robfig/cron, and a schedule of the program's own for the token L).*)
(* A field of an expression is the set of the parts between its commas.    *)
(***************************************************************************)
EXTENDS Page, Integers

CONSTANTS
    BuilderDays,    \* bounds the model: days of the week tried in the builder
    MaxMonths       \* bounds the model: months the calendar shows

ASSUME CronBounds == BuilderDays \subseteq 0..6 /\ MaxMonths \in Nat

(* "*", "*/n", "a", "a/n", "a-b", "L"; step 0 is a part without a step.    *)
(* What only robfig can read is not plain: "MON", "JAN-MAR", "?".          *)
Part(k, lo, hi, step) == [k |-> k, lo |-> lo, hi |-> hi, step |-> step, plain |-> TRUE]
Star        == Part("star", 0, 0, 0)
Every(n)    == Part("star", 0, 0, n)
Num(a)      == Part("num", a, a, 0)
From(a, n)  == Part("num", a, a, n)
Span(a, b)  == Part("range", a, b, 0)
LastDay     == Part("last", 0, 0, 0)
Named(p)    == [p EXCEPT !.plain = FALSE]

Stars == {Star}
Cron(minute, hour, dom, month, dow) ==
    [minute |-> minute, hour |-> hour, dom |-> dom, month |-> month, dow |-> dow,
     descriptor |-> FALSE]

(* "@daily" and the like, which robfig reads as an expression. *)
Descriptor(hour, dom, dow) ==
    [minute |-> {Num(0)}, hour |-> hour, dom |-> dom, month |-> Stars, dow |-> dow,
     descriptor |-> TRUE]

IsInt(field)  == \E p \in field : field = {p} /\ p.k = "num" /\ p.step = 0 /\ p.plain
AsInt(field)  == (CHOOSE p \in field : TRUE).lo
IsStep(field) == \E p \in field : field = {p} /\ p.k = "star" /\ p.step > 0
AsStep(field) == (CHOOSE p \in field : TRUE).step

-----------------------------------------------------------------------------
(* parseCron and buildCron *)

Model(mode, unit, n, days, lastDay, hour, minute) ==
    [mode |-> mode, unit |-> unit, n |-> n, days |-> days, lastDay |-> lastDay,
     hour |-> hour, minute |-> minute]

Custom == Model("custom", "none", 0, {}, FALSE, 0, 0)
EveryN(unit, n)  == Model("everyN", unit, n, {}, FALSE, 0, 0)
Daily(h, m)      == Model("daily", "none", 0, {}, FALSE, h, m)
Weekly(days, h, m) == Model("weekly", "none", 0, days, FALSE, h, m)
Monthly(days, lastDay, h, m) == Model("monthly", "none", 0, days, lastDay, h, m)

ParseableDays(dow) ==
    \A p \in dow : p.k \in {"num", "range"} /\ p.plain /\ p.step = 0 /\ p.lo <= p.hi /\ p.hi <= 7

(* Mutant: Sunday may be a seventh day. *)
ParseDaysAsWritten(dow) == UNION {p.lo..p.hi : p \in dow}

ParseDays(dow) == {d % 7 : d \in UNION {p.lo..p.hi : p \in dow}}

ParseableMonthDays(dom) ==
    \A p \in dom : p.k = "last" \/ (p.k = "num" /\ p.plain /\ p.step = 0 /\ p.lo \in 1..31)

ParseCron(e) ==
    LET starred == e.dom = Stars /\ e.month = Stars /\ e.dow = Stars
        minute  == AsInt(e.minute)
        hour    == AsInt(e.hour)
        timed   == /\ IsInt(e.minute) /\ IsInt(e.hour) /\ e.month = Stars
                   /\ minute <= 59 /\ hour <= 23
    IN IF e.descriptor THEN Custom ELSE
       CASE IsStep(e.minute) /\ e.hour = Stars /\ starred -> EveryN("minute", AsStep(e.minute))
         [] e.minute = {Num(0)} /\ IsStep(e.hour) /\ starred -> EveryN("hour", AsStep(e.hour))
         [] e.minute = {Num(0)} /\ e.hour = Stars /\ starred -> EveryN("hour", 1)
         [] timed /\ starred -> Daily(hour, minute)
         [] timed /\ ~starred /\ e.dom = Stars /\ ParseableDays(e.dow) ->
              Weekly(ParseDays(e.dow), hour, minute)
         [] timed /\ ~starred /\ e.dow = Stars /\ ParseableMonthDays(e.dom) ->
              Monthly({p.lo : p \in e.dom \ {LastDay}}, LastDay \in e.dom, hour, minute)
         [] OTHER -> Custom

Least(S) == CHOOSE x \in S : \A y \in S : x <= y
Greatest(S) == CHOOSE x \in S : \A y \in S : x >= y

(* Mutant: days are always written as a range. *)
BuildDaysAsRange(days) ==
    IF days = {} THEN Stars ELSE {Span(Least(days), Greatest(days))}

(* Neighbouring days are written as a range. *)
BuildDaysField(days) ==
    CASE days = {} -> Stars
      [] Cardinality(days) > 1 /\ days = Least(days)..Greatest(days) ->
           {Span(Least(days), Greatest(days))}
      [] OTHER -> {Num(d) : d \in days}

BuildCron(m) ==
    CASE m.mode = "everyN" /\ m.unit = "minute" -> Cron({Every(m.n)}, Stars, Stars, Stars, Stars)
      [] m.mode = "everyN" /\ m.unit # "minute" -> Cron({Num(0)}, {Every(m.n)}, Stars, Stars, Stars)
      [] m.mode = "daily"  -> Cron({Num(m.minute)}, {Num(m.hour)}, Stars, Stars, Stars)
      [] m.mode = "weekly" ->
           Cron({Num(m.minute)}, {Num(m.hour)}, Stars, Stars, BuildDaysField(m.days))
      [] m.mode = "monthly" ->
           LET parts == {Num(d) : d \in m.days} \cup IF m.lastDay THEN {LastDay} ELSE {}
               dom   == IF parts = {} THEN {Num(1)} ELSE parts
           IN Cron({Num(m.minute)}, {Num(m.hour)}, dom, Stars, Stars)

-----------------------------------------------------------------------------
(* Dates.  Month 0 is January 2024, which begins on a Monday; until 2100   *)
(* every fourth year is a leap year.                                       *)

MonthLength(i) ==
    <<31, IF i % 48 < 12 THEN 29 ELSE 28, 31, 30, 31, 30, 31, 31, 30, 31, 30, 31>>[(i % 12) + 1]

DaysBefore[i \in 0..MaxMonths] ==
    IF i = 0 THEN 0 ELSE DaysBefore[i - 1] + MonthLength(i - 1)

(* n counts the days from the first one on. *)
Dates(i) == {[month |-> (i % 12) + 1, day |-> d, weekday |-> (DaysBefore[i] + d) % 7,
              last |-> d = MonthLength(i), n |-> DaysBefore[i] + d] : d \in 1..MonthLength(i)}

(* The calendar's reading. *)

Within(p, value, min, max) ==
    LET lo == IF p.k = "star" THEN min ELSE p.lo
        hi == IF p.k = "star" \/ (p.k = "num" /\ p.step > 0) THEN max ELSE p.hi
    IN lo <= value /\ value <= hi /\ (p.step > 0 => (value - lo) % p.step = 0)

FieldMatches(field, value, min, max, isLast) ==
    \E p \in field : p.plain /\ IF p.k = "last" THEN isLast ELSE Within(p, value, min, max)

(* Mutant: both days have to match. *)
CronFiresOnBoth(e, date) ==
    /\ ~e.descriptor
    /\ FieldMatches(e.month, date.month, 1, 12, FALSE)
    /\ FieldMatches(e.dom, date.day, 1, 31, date.last)
    /\ \/ FieldMatches(e.dow, date.weekday, 0, 7, FALSE)
       \/ date.weekday = 0 /\ FieldMatches(e.dow, 7, 0, 7, FALSE)

(* Of two days that are both given one is enough; 7 is Sunday too.         *)
CronFiresOnDate(e, date) ==
    LET domOk == FieldMatches(e.dom, date.day, 1, 31, date.last)
        dowOk == \/ FieldMatches(e.dow, date.weekday, 0, 7, FALSE)
                 \/ date.weekday = 0 /\ FieldMatches(e.dow, 7, 0, 7, FALSE)
    IN /\ ~e.descriptor
       /\ FieldMatches(e.month, date.month, 1, 12, FALSE)
       /\ IF e.dom = Stars /\ e.dow = Stars THEN TRUE
          ELSE IF e.dow = Stars THEN domOk
          ELSE IF e.dom = Stars THEN dowOk ELSE domOk \/ dowOk

(* The scheduler's: ParseScheduleTZ and what it returns. *)

HasL(e) == LastDay \in e.dom

MonthDaysAccepted(e) ==
    /\ IsInt(e.minute) /\ AsInt(e.minute) \in 0..59
    /\ IsInt(e.hour) /\ AsInt(e.hour) \in 0..23
    /\ e.month = Stars /\ e.dow = Stars
    /\ \A p \in e.dom \ {LastDay} : p.k = "num" /\ p.plain /\ p.step = 0 /\ p.lo \in 1..31

(* Months and days of the week have names, "?" goes anywhere. *)
StandardAccepts(field, min, max, names) ==
    \A p \in field :
        p.k # "star" => min <= p.lo /\ p.lo <= p.hi /\ p.hi <= max /\ (p.plain \/ names)

CronAccepted(e) ==
    IF HasL(e) THEN MonthDaysAccepted(e)
    ELSE /\ StandardAccepts(e.minute, 0, 59, FALSE) /\ StandardAccepts(e.hour, 0, 23, FALSE)
         /\ StandardAccepts(e.dom, 1, 31, FALSE) /\ StandardAccepts(e.month, 1, 12, TRUE)
         /\ StandardAccepts(e.dow, 0, 6, TRUE)

(* robfig's star bit. *)
StarBit(field) == \E p \in field : p.k = "star" /\ p.step <= 1

SchedulerFires(e, date) ==
    LET InField(field, value, min, max) == \E p \in field : Within(p, value, min, max)
        domOk == InField(e.dom, date.day, 1, 31)
        dowOk == InField(e.dow, date.weekday, 0, 6)
    IN IF HasL(e)
       THEN Num(date.day) \in e.dom \/ date.last
       ELSE /\ InField(e.month, date.month, 1, 12)
            /\ IF StarBit(e.dom) \/ StarBit(e.dow) THEN domOk /\ dowOk ELSE domOk \/ dowOk

-----------------------------------------------------------------------------
(* Placeholders, which a firing replaces by dates.  The expressions here   *)
(* fire once a day, so that a day stands for its firing.                   *)

OnceADay(e) == IsInt(e.minute) /\ IsInt(e.hour)

Firings(e) == {date.n : date \in {d \in UNION {Dates(i) : i \in 0..MaxMonths} :
                                     SchedulerFires(e, d)}}

Windows == <<1, 7, 40, 200>>

(* Mutant: the walk stops at the first firing of the window. *)
PrevFireFirst(fired, now) ==
    LET Since(w) == {f \in fired : now < f + Windows[w] /\ f < now}
        hits     == {w \in DOMAIN Windows : Since(w) # {}}
    IN IF hits = {} THEN 0 ELSE Least(Since(Least(hits)))

(* The latest firing after the edge of the first window that has one; 0    *)
(* when none has.                                                          *)
PrevFire(fired, now) ==
    LET Since(w) == {f \in fired : now < f + Windows[w] /\ f < now}
        hits     == {w \in DOMAIN Windows : Since(w) # {}}
    IN IF hits = {} THEN 0 ELSE Greatest(Since(Least(hits)))

(* {{today+N}}, {{prev_run+N}}; {{yesterday}} is {{today-1}}. *)
Expand(keyword, days, now, prevRun) ==
    days + IF keyword = "prev_run" /\ prevRun # 0 THEN prevRun ELSE now

(* "{{prev_run+1}}" and "{{yesterday}}" at a firing, between which the     *)
(* page proposes to take the days since the last execution.                *)
PeriodFrom(fired, now) == Expand("prev_run", 1, now, PrevFire(fired, now))
PeriodTo(now)          == Expand("today", -1, now, 0)

-----------------------------------------------------------------------------
(* The form. *)

CronInit ==
    /\ ui = [page |-> "cron", expr |-> Cron({Num(0)}, {Num(8)}, Stars, Stars, Stars),
             emitted |-> Custom, cursor |-> 0]
    /\ srv = [none |-> TRUE]
    /\ left = Bounds(0)

OnCron == ui.page = "cron"

Builder == ParseCron(ui.expr)

Emit(m) == ui' = [ui EXCEPT !.expr = BuildCron(m), !.emitted = m] /\ Free /\ UNCHANGED srv

TimeOf(m) == IF m.mode \in {"daily", "weekly", "monthly"}
             THEN [hour |-> m.hour, minute |-> m.minute] ELSE [hour |-> 8, minute |-> 0]

DefaultModel(mode, t) ==
    CASE mode = "everyN"  -> EveryN("minute", 30)
      [] mode = "daily"   -> Daily(t.hour, t.minute)
      [] mode = "weekly"  -> Weekly({1}, t.hour, t.minute)
      [] mode = "monthly" -> Monthly({1}, FALSE, t.hour, t.minute)

ChooseMode ==
    OnCron /\ \E mode \in {"everyN", "daily", "weekly", "monthly"} :
                Emit(DefaultModel(mode, TimeOf(Builder)))

(* The number is only kept above 0, and below its unit's limit when the    *)
(* unit changes.                                                           *)
ChangeN ==
    /\ OnCron /\ Builder.mode = "everyN"
    /\ \E n \in {1, 45, 90} : Emit([Builder EXCEPT !.n = n])

ChangeUnit ==
    /\ OnCron /\ Builder.mode = "everyN"
    /\ \E unit \in {"minute", "hour"} :
         LET max == IF unit = "minute" THEN 59 ELSE 23
         IN Emit([Builder EXCEPT !.unit = unit, !.n = IF @ < max THEN @ ELSE max])

ChangeTime ==
    /\ OnCron /\ Builder.mode \in {"daily", "weekly", "monthly"}
    /\ \E h \in {0, 23} : Emit([Builder EXCEPT !.hour = h, !.minute = 59])

Flip(days, d) == IF d \in days THEN days \ {d} ELSE days \cup {d}

ToggleWeekday ==
    /\ OnCron /\ Builder.mode = "weekly"
    /\ \E d \in BuilderDays :
         Flip(Builder.days, d) # {} /\ Emit([Builder EXCEPT !.days = Flip(@, d)])

ToggleMonthDay ==
    /\ OnCron /\ Builder.mode = "monthly"
    /\ \E d \in {1, 15, 31} :
         /\ Flip(Builder.days, d) # {} \/ Builder.lastDay
         /\ Emit([Builder EXCEPT !.days = Flip(@, d)])

ToggleLastDay ==
    /\ OnCron /\ Builder.mode = "monthly"
    /\ ~Builder.lastDay \/ Builder.days # {}
    /\ Emit([Builder EXCEPT !.lastDay = ~@])

(* Any expression can be typed, and presets are expressions too.  "@hourly" *)
(* stands for "@every" with less than a day as well.                       *)
Descriptors ==
    {Descriptor(Stars, Stars, Stars), Descriptor({Num(0)}, Stars, Stars),
     Descriptor({Num(0)}, Stars, {Num(0)}), Descriptor({Num(0)}, {Num(1)}, Stars)}

Typed == Descriptors \cup {Cron({Num(30)}, {Num(7)}, dom, month, dow) :
            dom   \in {Stars, {Num(29)}, {Num(8), LastDay}, {LastDay}, {Every(10)}, {Every(1)},
                       {Star, Num(3)}, {From(10, 10)}, {Span(28, 31), Num(2)},
                       {Named(Star)}},
            month \in {Stars, {Num(2)}, {From(1, 5)}, {Named(Span(1, 3))}},
            dow   \in {Stars, {Span(1, 5)}, {Num(0), Num(6)}, {Every(2)}, {From(1, 3)}, {Num(7)},
                       {Named(Span(1, 5))}}}

TypeCron ==
    /\ OnCron
    /\ \E e \in Typed : ui' = [ui EXCEPT !.expr = e, !.emitted = Custom]
    /\ Free /\ UNCHANGED srv

(* The calendar. *)
Shift ==
    /\ OnCron
    /\ \E i \in {ui.cursor - 1, ui.cursor + 1, 0} \cap 0..MaxMonths : ui' = [ui EXCEPT !.cursor = i]
    /\ Free /\ UNCHANGED srv

CronNext ==
    \/ ChooseMode \/ ChangeN \/ ChangeUnit \/ ChangeTime
    \/ ToggleWeekday \/ ToggleMonthDay \/ ToggleLastDay \/ TypeCron \/ Shift

CronSpec == CronInit /\ [][CronNext]_webVars

-----------------------------------------------------------------------------
(* Properties *)

(* The builder reads what it wrote as what it meant: the buttons never     *)
(* jump to another day, hour or mode.                                      *)
BuilderReadsBack ==
    OnCron /\ ui.emitted # Custom => Builder = ui.emitted /\ CronAccepted(ui.expr)

(* The calendar marks the days on which the scheduler fires, for the       *)
(* expressions that the server takes and both read alike.  Those are not:  *)
(* descriptors, names and "?", which the calendar cannot read; fields      *)
(* other than "*" that robfig takes for a star, such as "*/1"; days of the *)
(* week counted from one of them, which the calendar counts up to the      *)
(* second Sunday.                                                          *)
SameReading(e) == /\ ~e.descriptor
                  /\ \A field \in {e.dom, e.month, e.dow} : \A p \in field : p.plain
                  /\ \A field \in {e.dom, e.dow} : StarBit(field) => field = Stars
                  /\ \A p \in e.dow : p.k = "num" => p.step = 0

CalendarAgrees ==
    OnCron /\ CronAccepted(ui.expr) /\ SameReading(ui.expr) =>
        \A date \in Dates(ui.cursor) :
            CronFiresOnDate(ui.expr, date) = SchedulerFires(ui.expr, date)

(* cron.ts says the same of every expression of five fields ("Diz se uma   *)
(* expressão cron de 5 campos dispara em algum momento da data dada"); it  *)
(* is not so of those above, of "MON-FRI" for one, which marks no day.     *)
CalendarOfFiveFields ==
    OnCron /\ CronAccepted(ui.expr) /\ ~ui.expr.descriptor =>
        \A date \in Dates(ui.cursor) :
            CronFiresOnDate(ui.expr, date) = SchedulerFires(ui.expr, date)

OnSchedule == OnCron /\ ui.cursor = 0 /\ CronAccepted(ui.expr) /\ OnceADay(ui.expr)

(* The period that the placeholders give at a firing begins after every    *)
(* earlier firing, and so after the period of each: no day is taken twice. *)
NoDayTwice ==
    OnSchedule =>
        LET fired == Firings(ui.expr)
        IN \A n \in fired :
             LET from == PeriodFrom(fired, n)
             IN \A f \in fired : f < n => from > f /\ from > PeriodTo(f)

(* The page proposes them for the time since the last execution ("pra      *)
(* pegar só o período desde a última execução"): no day should be left     *)
(* out, but the days of the firings are in no period, and that of a daily  *)
(* schedule ends before it begins.                                         *)
EveryDayTaken ==
    OnSchedule =>
        LET fired == Firings(ui.expr)
        IN \A f, n \in fired : \A d \in f..(n - 1) :
             \E m \in fired : PeriodFrom(fired, m) <= d /\ d <= PeriodTo(m)

(* PrevFire's comment has it find nothing for a schedule without a firing  *)
(* in the last year or so ("sem disparo no último ~ano"); it looks no      *)
(* further back than 200 days, and {{prev_run}} becomes the present day.   *)
FoundWithinYear ==
    OnSchedule =>
        LET fired == Firings(ui.expr)
        IN \A n \in fired :
             (\E f \in fired : f < n /\ n < f + 365) => PrevFire(fired, n) # 0

=============================================================================
