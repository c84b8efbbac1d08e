------------------------------ MODULE Backoff -------------------------------
(***************************************************************************)
(* The spacing of the attempts on a host that fails                        *)
(* (internal/collector/collector.go: backoff, due, noteFailure,            *)
(* noteSuccess) against the ticker of Run, with time.                      *)
(*                                                                         *)
(* One host.  The loop attempts it when the ticker ticks and nextTry is    *)
(* past; an operator's action collects it whenever she wants, and counts   *)
(* its failures in the same entry.  The other hosts make a cycle last      *)
(* longer than the attempt.  Time is counted in units finer than Interval. *)
(*                                                                         *)
(* This is the life of one process: c.bo is in memory, and a restart is    *)
(* Init again.  It is also a console whose calls to hosts all end: one     *)
(* that hangs, as Collector.tla has it, makes a cycle last for ever.       *)
(***************************************************************************)
EXTENDS Integers, FiniteSets

CONSTANTS
    Interval,       \* period of the ticker, cfg.Interval
    MaxBackoff,     \* maxBackoff
    MaxCycle,       \* longest cycle: hosts queue for c.limit, and each may
                    \* use up the timeout of collectOne, unless a handshake
                    \* or a NewSession, which have none, hangs
    Budget,         \* failures of the loop a host may see in MaxBackoff
    MaxClicks,      \* bound: operators' actions
    MaxTime         \* bound: how long the system is watched

\* The shift does not overflow int64: Interval is less than 400 days.
ASSUME BackoffAssumption ==
    /\ Interval \in Nat \ {0} /\ MaxBackoff \in Nat \ {0}
    /\ MaxCycle \in Nat /\ Budget \in Nat \ {0}
    /\ MaxClicks \in Nat /\ MaxTime \in Nat

VARIABLES
    now,        \* time.Now
    tick,       \* when the ticker ticks next; 0 before NewTicker
    pending,    \* t.C holds a tick (it holds at most one)
    cycle,      \* the loop: "idle" in its select, "ask" while it collects
                \* the host, "wait" while it waits for the others
    began,      \* when the cycle began
    click,      \* does an operator's action collect the host
    clicked,    \* when it began
    clicks,     \* how many there were (bounded)
    fails,      \* b.fails; 0 when c.bo has no entry
    nextTry,    \* b.nextTry
    noted,      \* history: when the last attempt was noted
    log         \* history: the loop's failures since the last success

clockVars == <<now, tick, pending>>
loopVars == <<cycle, began>>
clickVars == <<click, clicked, clicks>>
boVars == <<fails, nextTry, noted, log>>
vars == <<clockVars, loopVars, clickVars, boVars>>

\* Run collects at once, before the ticker exists.
Init ==
    /\ now = 0 /\ tick = 0 /\ pending = TRUE
    /\ cycle = "idle" /\ began = 0
    /\ click = FALSE /\ clicked = 0 /\ clicks = 0
    /\ fails = 0 /\ nextTry = 0
    /\ noted = 0 /\ log = {}

-----------------------------------------------------------------------------
\* Interval << min(fails, 8), no more than maxBackoff.
Shift == <<2, 4, 8, 16, 32, 64, 128, 256>>

DelayMutUncapped(n) == Interval * Shift[IF n < 8 THEN n ELSE 8]

Delay(n) ==
    LET d == Interval * Shift[IF n < 8 THEN n ELSE 8]
    IN  IF d > MaxBackoff THEN MaxBackoff ELSE d

\* The first n waits (n > 0) one after the other, but for the cap.
Waits(n) == Interval * (IF n < 8 THEN 2 * Shift[n] - 2 ELSE 254 + 256 * (n - 7))

\* Budget failures, and the waits they cost, fill maxBackoff.
ASSUME BudgetAssumption == MaxBackoff <= Waits(Budget)

\* A new entry, or the one that was there.
NoteFailureMutFlat ==
    /\ fails' = IF fails = 0 THEN 1 ELSE fails
    /\ nextTry' = now + Delay(fails')
    /\ noted' = now

NoteFailureMutStacked ==
    /\ fails' = fails + 1
    /\ nextTry' = (IF fails = 0 THEN now ELSE nextTry) + Delay(fails')
    /\ noted' = now

NoteFailure ==
    /\ fails' = fails + 1
    /\ nextTry' = now + Delay(fails')
    /\ noted' = now

NoteSuccess ==
    /\ fails' = 0 /\ nextTry' = 0
    /\ noted' = now
    /\ log' = {}

DueMutAlways == TRUE

Due == fails = 0 \/ now > nextTry

-----------------------------------------------------------------------------
\* Time passes, unless the loop has a tick to take or a collection has used
\* up its timeout.
Pass ==
    /\ now < MaxTime
    /\ ~(cycle = "idle" /\ pending)
    /\ cycle # "idle" => now < began + MaxCycle
    /\ click => now < clicked + MaxCycle
    /\ now' = now + 1
    /\ IF tick = now + 1
       THEN pending' = TRUE /\ tick' = tick + Interval
       ELSE UNCHANGED <<pending, tick>>
    /\ UNCHANGED <<loopVars, clickVars, boVars>>

CollectAll ==
    /\ cycle = "idle" /\ pending
    /\ pending' = FALSE
    /\ cycle' = IF Due THEN "ask" ELSE "wait"
    /\ began' = now
    /\ UNCHANGED <<now, tick, clickVars, boVars>>

LoopFails ==
    /\ cycle = "ask"
    /\ NoteFailure
    /\ log' = log \cup {now}
    /\ cycle' = "wait"
    /\ UNCHANGED <<clockVars, began, clickVars>>

LoopSucceeds ==
    /\ cycle = "ask"
    /\ NoteSuccess
    /\ cycle' = "wait"
    /\ UNCHANGED <<clockVars, began, clickVars>>

\* wg.Wait returns; after the first cycle the ticker is created.
CycleEnds ==
    /\ cycle = "wait"
    /\ cycle' = "idle"
    /\ tick' = IF tick = 0 THEN now + Interval ELSE tick
    /\ UNCHANGED <<now, pending, began, clickVars, boVars>>

\* An operator's action collects the host; running allows one at a time.
Click ==
    /\ ~click
    /\ clicks < MaxClicks /\ clicks' = clicks + 1
    /\ click' = TRUE /\ clicked' = now
    /\ UNCHANGED <<clockVars, loopVars, boVars>>

ClickFails ==
    /\ click
    /\ NoteFailure
    /\ click' = FALSE
    /\ UNCHANGED <<clockVars, loopVars, clicked, clicks, log>>

ClickSucceeds ==
    /\ click
    /\ NoteSuccess
    /\ click' = FALSE
    /\ UNCHANGED <<clockVars, loopVars, clicked, clicks>>

\* The end of the watch.
Watched == now = MaxTime /\ UNCHANGED vars

Next ==
    \/ Pass \/ CollectAll \/ LoopFails \/ LoopSucceeds \/ CycleEnds
    \/ Click \/ ClickFails \/ ClickSucceeds \/ Watched

Spec == Init /\ [][Next]_vars

-----------------------------------------------------------------------------
(* Properties.                                                             *)

TypeOK ==
    /\ now \in Nat /\ tick \in Nat /\ pending \in BOOLEAN
    /\ cycle \in {"idle", "ask", "wait"} /\ began \in 0..now
    /\ click \in BOOLEAN /\ clicked \in 0..now /\ clicks \in Nat
    /\ fails \in Nat /\ nextTry \in 0..(now + MaxBackoff)
    /\ noted \in 0..now /\ log \subseteq 0..now

\* Two failures of the loop on a host that does not come back are further
\* apart than two periods (or than maxBackoff, if that is less), whatever
\* operators do in between.
SpacedOut ==
    \A a, b \in log : a < b => b - a > 2 * Interval \/ b - a > MaxBackoff

\* In any stretch of maxBackoff the loop fails at most Budget times on such a
\* host: what keeps the host's fail2ban from banning the console.
FewFailures == Cardinality({t \in log : t > now - MaxBackoff}) <= Budget

\* The longest a host may wait for an attempt, by what the last one said.
Patience == IF fails = 0 THEN 0 ELSE MaxBackoff

\* The host is not forgotten: an attempt is noted within maxBackoff (at once
\* after a success), one period of the ticker and two cycles, even if the
\* ticker dropped a tick and operators' failures put the attempt off.
NotForgotten == now - noted <= Patience + Interval + 2 * MaxCycle

-----------------------------------------------------------------------------
(* The strengthening that makes SpacedOut and NotForgotten inductive.      *)

\* Until the entry is deleted, nextTry keeps its distance from every failure;
\* an attempt under way began after it.
KeepsDistance ==
    \A a \in log :
        /\ fails > 0 /\ nextTry >= a + Delay(1)
        /\ cycle = "ask" => now > a + Delay(1)
        /\ \A b \in log : a < b => b > a + Delay(1)

\* Where the ticker is, and since when the loop has been where it is.
TickerInTime ==
    /\ cycle # "idle" => now <= began + MaxCycle
    /\ tick = 0 => cycle # "idle" \/ pending
    /\ tick # 0 => now < tick /\ tick <= now + Interval
    /\ tick # 0 /\ ~pending => tick <= began + Interval + MaxCycle
    /\ cycle = "idle" => now <= began + Interval + MaxCycle

\* A cycle that did not attempt the host came before nextTry.
AttemptInTime ==
    /\ fails > 0 => nextTry <= noted + MaxBackoff
    /\ cycle # "ask" => began <= noted + Patience
    /\ cycle = "ask" => began <= noted + Patience + Interval + MaxCycle

IInv == TypeOK /\ KeepsDistance /\ TickerInTime /\ AttemptInTime

\* The strengthening behind FewFailures: an attempt is separated from a failure
\* of the loop by the waits of all its failures in between, or by maxBackoff.
Since(a) == Cardinality({c \in log : a <= c})
Between(a, b) == Cardinality({c \in log : a <= c /\ c < b})

Far(a, t, n) == t >= a + Waits(n) \/ t >= a + MaxBackoff

WaitsAddUp ==
    /\ Cardinality(log) <= fails
    /\ fails > 0 => nextTry <= now + Delay(fails)
    /\ \A a \in log :
        /\ Far(a, nextTry, Since(a))
        /\ cycle = "ask" => Far(a, now - 1, Since(a))
        /\ \A b \in log : a < b => Far(a, b - 1, Between(a, b))
=============================================================================
