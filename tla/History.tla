------------------------------ MODULE History -------------------------------
(***************************************************************************)
(* The history of a host: the points RecordHealthSnapshot writes at the    *)
(* end of each cycle (internal/collector/collector.go), their retention    *)
(* (health_history in internal/store/store.go), and the three ways the     *)
(* page shows them (internal/collector/timeline.go): the cells of a        *)
(* window, the episodes, and the bars of the last fourteen days.           *)
(*                                                                         *)
(* A tick is the date of a point.  A tick without a point is a cycle that  *)
(* was late, or a console that was stopped.  A page is made in four steps, *)
(* while cycles write: Timeline takes the time, then reads the points of   *)
(* its window; bars takes the time again, and reads the points again.  The *)
(* history of a host does not depend on the others'.  Labels, titles and   *)
(* sorting are left out.                                                   *)
(***************************************************************************)
EXTENDS Integers, FiniteSets, Sequences, FiniteSetsExt

CONSTANTS
    None,
    Windows,        \* windows of the page: [duration, bucket]
    BarDuration,    \* fourteen days
    Step,           \* granularity of the bars: an hour
    Keep,           \* retention: fifteen days
    Slack,          \* a page takes less than that much time: a day
    MaxTime         \* bound: ticks

ASSUME HistoryAssumption ==
    /\ Keep \in Nat /\ MaxTime \in Nat
    /\ Step \in Nat \ {0} /\ BarDuration \in Nat /\ Slack \in Nat
    /\ BarDuration + Slack <= Keep
    /\ BarDuration % Step = 0
    /\ \A w \in Windows :
        /\ w.bucket \in Nat \ {0} /\ w.duration \in Nat
        /\ w.duration <= BarDuration /\ w.duration % w.bucket = 0

Levels == {"ok", "warn", "crit"}

\* start, end and the dates of the points; cause is the date of the point whose
\* summary it is.
Episode == [start : Nat, end : Nat, state : Levels, cause : Nat]

ASSUME NoneAssumption == None \notin Episode

Rank == [unknown |-> 0, ok |-> 1, warn |-> 2, crit |-> 3]

VARIABLES
    now,
    hist,       \* date -> state, the rows of health_history
    log,        \* date -> state, all that was ever recorded
    first,      \* is the next cycle of Run its first one
    at,         \* the step the page is at: "series", "bars" or "slots"
    win,        \* its window
    asked,      \* the time Timeline took
    pts,        \* date -> state, the points Timeline read
    again       \* the time bars took

pageVars == <<at, win, asked, pts, again>>
vars == <<now, hist, log, first, pageVars>>

Init ==
    /\ now = 0 /\ hist = << >> /\ log = << >> /\ first = TRUE
    /\ at = "idle" /\ win = None /\ asked = 0 /\ pts = << >> /\ again = 0

\* The page is made, or given up.
EndPage == at' = "idle" /\ win' = None /\ asked' = 0 /\ pts' = << >> /\ again' = 0

-----------------------------------------------------------------------------
\* One row per date: a second point of the same second replaces the first.
RecordHealth(h, t, state) ==
    [u \in DOMAIN h \cup {t} |-> IF u = t THEN state ELSE h[u]]

PurgeHealthHistoryMutWeek(h) ==
    [u \in {u \in DOMAIN h : u >= now - Keep \div 2} |-> h[u]]

PurgeHealthHistory(h) == [u \in {u \in DOMAIN h : u >= now - Keep} |-> h[u]]

Tick ==
    /\ now < MaxTime
    /\ at # "idle" => now < asked + Slack
    /\ now' = now + 1
    /\ UNCHANGED <<hist, log, first, pageVars>>

\* The end of a cycle that found the host in state s.  The first cycle of the
\* process does not purge.
CycleMutRoundUp(s) ==
    /\ hist' = RecordHealth(hist, now + 1, s)
    /\ log' = RecordHealth(log, now, s)
    /\ first' = FALSE
    /\ UNCHANGED <<now, pageVars>>

Cycle(s) ==
    LET recorded == RecordHealth(hist, now, s)
    IN  /\ hist' = IF first THEN recorded ELSE PurgeHealthHistory(recorded)
        /\ log' = RecordHealth(log, now, s)
        /\ first' = FALSE
        /\ UNCHANGED <<now, pageVars>>

\* SanteFleet could not read the base: nothing is recorded, the purge is made.
CycleUnread ==
    /\ hist' = IF first THEN hist ELSE PurgeHealthHistory(hist)
    /\ first' = FALSE
    /\ UNCHANGED <<now, log, pageVars>>

\* The process is started again; the page it was making is lost.
Restart ==
    /\ ~ first
    /\ first' = TRUE
    /\ EndPage
    /\ UNCHANGED <<now, hist, log>>

-----------------------------------------------------------------------------
(* The intervals of a window, by the time taken for it.                    *)

\* The last interval is the one that time is in.
End(clock, bucket) == (clock \div bucket) * bucket + bucket
Start(clock, duration, bucket) == End(clock, bucket) - duration

\* HealthSeries.
Series(since) == {t \in DOMAIN hist : t >= since}

\* The worst of the points h of each interval, "unknown" without a point.
\* Points after the last interval, which come while the page is made, are
\* left out.
Intervals(h, clock, duration, bucket) ==
    LET start == Start(clock, duration, bucket)
        n == duration \div bucket
        Of(i) == {h[t] : t \in {t \in DOMAIN h :
                                    t >= start /\ (t - start) \div bucket = i}}
    IN  [i \in 0..(n - 1) |->
            CHOOSE s \in Of(i) \cup {"unknown"} :
                \A u \in Of(i) : Rank[s] >= Rank[u]]

-----------------------------------------------------------------------------
(* The making of a page.                                                   *)

\* The first date of the window, and its cells from the points h.
From == Start(asked, win.duration, win.bucket)
Cells(h) == Intervals(h, asked, win.duration, win.bucket)

Timeline(w) ==
    /\ at = "idle"
    /\ at' = "series" /\ win' = w /\ asked' = now
    /\ UNCHANGED <<now, hist, log, first, pts, again>>

\* The cells and the episodes are made of these points.
ReadSeries ==
    /\ at = "series"
    /\ pts' = [t \in Series(From) |-> hist[t]]
    /\ at' = "bars"
    /\ UNCHANGED <<now, hist, log, first, win, asked, again>>

Bars ==
    /\ at = "bars"
    /\ at' = "slots" /\ again' = now
    /\ UNCHANGED <<now, hist, log, first, win, asked, pts>>

\* bars reads the points, or skips the host when it cannot, and the page goes
\* out; or Timeline cannot read them, and there is no page.
Render ==
    /\ at \in {"series", "slots"}
    /\ EndPage
    /\ UNCHANGED <<now, hist, log, first>>

\* episodes: one point further.  An episode goes on until a point in order;
\* when it grows worse it keeps its start and takes the new cause.
EpisodeStepMutSplit(acc, t) ==
    IF acc.cur # None /\ hist[t] # acc.cur.state
    THEN [out |-> Append(acc.out, [acc.cur EXCEPT !.end = t]),
          cur |-> IF hist[t] = "ok" THEN None
                  ELSE [start |-> t, end |-> now, state |-> hist[t], cause |-> t]]
    ELSE IF acc.cur = None /\ hist[t] # "ok"
    THEN [acc EXCEPT !.cur = [start |-> t, end |-> now, state |-> hist[t],
                              cause |-> t]]
    ELSE acc

EpisodeStep(acc, t) ==
    IF hist[t] \in {"ok", "unknown"}
    THEN IF acc.cur = None THEN acc
         ELSE [out |-> Append(acc.out, [acc.cur EXCEPT !.end = t]), cur |-> None]
    ELSE IF acc.cur = None
    THEN [acc EXCEPT !.cur = [start |-> t, end |-> now, state |-> hist[t],
                              cause |-> t]]
    ELSE IF hist[t] = "crit" /\ acc.cur.state # "crit"
    THEN [acc EXCEPT !.cur.state = "crit", !.cur.cause = t]
    ELSE acc

\* The points one after the other (the fold takes the last one last).
EpisodesOf(points) ==
    MapThenFoldSet(LAMBDA t, acc : EpisodeStep(acc, t),
                   [out |-> << >>, cur |-> None], LAMBDA t : t, Max, points)

\* The one that is not over ends now.
Episodes ==
    LET acc == EpisodesOf(Series(From))
    IN  IF acc.cur = None THEN acc.out ELSE Append(acc.out, acc.cur)

\* bars: the share of the measured hours, truncated, and what remains for ok.
\* (The code's quotient is a floating-point one: with fifty hours or more it is
\* sometimes just below a whole percentage, and is truncated to one less.)
Slots == Intervals(hist, again, BarDuration, Step)
Hours(s) == Cardinality({i \in DOMAIN Slots : Slots[i] = s})
Measured == Hours("ok") + Hours("warn") + Hours("crit")
PctCrit == (Hours("crit") * 100) \div Measured
PctWarn == (Hours("warn") * 100) \div Measured
PctOK == 100 - PctCrit - PctWarn

Next ==
    \/ Tick \/ (\E s \in Levels : Cycle(s)) \/ CycleUnread \/ Restart
    \/ (\E w \in Windows : Timeline(w)) \/ ReadSeries \/ Bars \/ Render

Spec == Init /\ [][Next]_vars

-----------------------------------------------------------------------------
(* Properties.                                                             *)

TypeOK ==
    /\ now \in 0..MaxTime
    /\ DOMAIN hist \subseteq 0..now /\ DOMAIN log \subseteq 0..now
    /\ \A t \in DOMAIN hist : hist[t] \in Levels
    /\ first \in BOOLEAN
    /\ at \in {"idle", "series", "bars", "slots"}
    /\ at # "idle" => win \in Windows /\ asked \in 0..now /\ now <= asked + Slack
    /\ DOMAIN pts \subseteq 0..now
    /\ \A t \in DOMAIN pts : pts[t] \in Levels
    /\ at = "slots" => again \in asked..now

\* The retention and the page agree: every point recorded in the window of a
\* page is in a cell of it, one at least as serious, however late the cycles,
\* the purges, the restarts and the reading; and a cell says nothing that no
\* point said.
NothingShownIsLost ==
    at = "series" =>
        LET cells == Cells(hist)
            Cell(t) == (t - From) \div win.bucket
        IN  /\ \A t \in DOMAIN log : t >= From /\ t < From + win.duration =>
                    Cell(t) \in DOMAIN cells /\ Rank[cells[Cell(t)]] >= Rank[log[t]]
            /\ \A i \in DOMAIN cells : cells[i] # "unknown" =>
                    \E t \in DOMAIN log :
                        t >= From /\ Cell(t) = i /\ log[t] = cells[i]

\* An episode is a longest stretch of points out of order, as serious as the
\* worst of them and explained by the first of these; every cell out of order
\* has its episode.  Both are made of one reading of the points.
EpisodesMatchCells ==
    at = "series" =>
        LET cells == Cells(hist)
            eps == Episodes
            Within(e) == {t \in Series(From) : t >= e.start /\ t <= e.end}
            Bad(e) == {t \in Within(e) : hist[t] # "ok"}
        IN  /\ \A k \in DOMAIN eps :
                /\ \A t \in Within(eps[k]) : hist[t] = "ok" => t = eps[k].end
                /\ \A t \in Bad(eps[k]) : Rank[hist[t]] <= Rank[eps[k].state]
                /\ hist[eps[k].cause] = eps[k].state
                /\ \A t \in Bad(eps[k]) : hist[t] = eps[k].state => t >= eps[k].cause
                /\ k > 1 => /\ eps[k - 1].end < eps[k].start
                            /\ hist[eps[k - 1].end] = "ok"
            /\ \A i \in DOMAIN cells : cells[i] \in {"warn", "crit"} =>
                \E k \in DOMAIN eps : \E t \in Bad(eps[k]) :
                    (t - From) \div win.bucket = i /\ hist[t] = cells[i]

\* The percentages of the bars are shares: none is negative, and the hours out
\* of order are never overstated, and understated by at most one.
SharesAreFair ==
    Measured > 0 =>
        /\ PctOK >= 0
        /\ 100 * Hours("crit") - PctCrit * Measured \in 0..Measured
        /\ 100 * Hours("warn") - PctWarn * Measured \in 0..Measured

\* The hour of a slot of the bars, by its date, and of a cell of an hour.
SlotOf(t) == (t - Start(again, BarDuration, Step)) \div Step

\* The bars, made of a later time and a later reading, say the same as the
\* cells of every hour that both show and that was over when the page was
\* asked for.
BarsMatchCells ==
    at = "slots" /\ win.bucket = Step =>
        \A i \in DOMAIN Cells(pts) :
            LET hour == From + i * Step
            IN  hour + Step <= asked /\ hour >= Start(again, BarDuration, Step) =>
                    Slots[SlotOf(hour)] = Cells(pts)[i]

\* The three displays of a page, made of two readings of the clock and of the
\* points while cycles write, tell the same story.
DisplaysAgree ==
    /\ EpisodesMatchCells
    /\ at = "slots" => SharesAreFair
    /\ BarsMatchCells

-----------------------------------------------------------------------------
(* The inductive invariant behind them (HistoryProofs).                    *)

\* The base holds nothing that was not recorded, and all that was since Keep.
Retained ==
    /\ \A t \in DOMAIN hist : t \in DOMAIN log /\ hist[t] = log[t]
    /\ \A t \in DOMAIN log : t >= now - Keep => t \in DOMAIN hist

\* So do the points of the page, up to the time it was asked for.
PageHolds ==
    at \in {"bars", "slots"} =>
        /\ \A t \in DOMAIN pts : t >= From
        /\ \A t \in DOMAIN pts : t < asked => t \in DOMAIN log /\ pts[t] = log[t]
        /\ \A t \in DOMAIN log : t >= From /\ t < asked => t \in DOMAIN pts

IInv == TypeOK /\ Retained /\ PageHolds
=============================================================================
