---------------------------- MODULE HistoryProofs ---------------------------
(***************************************************************************)
(* Proofs about History, for any windows that are whole numbers of their   *)
(* intervals and within the time of the bars, itself within the retention  *)
(* less the time a page may take, and any length of time.                  *)
(***************************************************************************)
EXTENDS History, FiniteSetTheorems, WellFoundedInduction, TLAPS

-----------------------------------------------------------------------------
(* The arithmetic of the intervals.                                        *)

\* Euclid's division.
LEMMA Division ==
    ASSUME NEW a \in Int, NEW b \in Nat \ {0}
    PROVE  /\ a \div b \in Int /\ a % b \in 0..(b - 1)
           /\ a = b * (a \div b) + (a % b)
OBVIOUS

\* A difference smaller than n intervals falls into one of the n.
LEMMA InRange ==
    ASSUME NEW b \in Nat \ {0}, NEW n \in Int, NEW x \in Int,
           x >= 0, x < b * n
    PROVE  x \div b \in 0..(n - 1)
<1>1. x \div b \in Int /\ x = b * (x \div b) + (x % b) /\ x % b \in 0..(b - 1)
    BY Division
<1>2. x \div b >= 0
    BY <1>1
<1>3. x \div b < n
    BY <1>1
<1>. QED
    BY <1>1, <1>2, <1>3

\* The quotient of a date moved by whole intervals moves by their number.
LEMMA Shift ==
    ASSUME NEW b \in Nat \ {0}, NEW x \in Int, NEW k \in Int
    PROVE  (x + b * k) \div b = (x \div b) + k
<1>. DEFINE q == x \div b
            p == (x + b * k) \div b
<1>0. b * k \in Int /\ x + b * k \in Int
    OBVIOUS
<1>1. q \in Int /\ x % b \in 0..(b - 1) /\ x = b * q + (x % b)
    BY Division
<1>2. p \in Int /\ (x + b * k) % b \in 0..(b - 1)
      /\ x + b * k = b * p + ((x + b * k) % b)
    BY <1>0, Division
<1>. HIDE DEF q, p
<1>3. PICK r \in 0..(b - 1) : x = b * q + r
    BY <1>1
<1>4. PICK u \in 0..(b - 1) : x + b * k = b * p + u
    BY <1>2
<1>5. b * (p - q - k) = r - u
    BY <1>1, <1>2, <1>3, <1>4
<1>6. PICK z \in Int : z = p - q - k
    BY <1>1, <1>2
<1>7. z = 0
  <2>1. b * z < b /\ b * z > 0 - b
      BY <1>5, <1>6
  <2>2. CASE z >= 1
    <3>1. PICK m \in Nat : z = m + 1
        BY <2>2
    <3>2. b * z = b * m + b /\ b * m >= 0
        BY <3>1
    <3>. QED
        BY <2>1, <3>2
  <2>3. CASE z <= 0 - 1
    <3>1. PICK m \in Nat : z = 0 - (m + 1)
        BY <2>3
    <3>2. b * z = 0 - (b * m) - b /\ b * m >= 0
        BY <3>1
    <3>. QED
        BY <2>1, <3>2
  <2>. QED
      BY <2>2, <2>3
<1>. QED
    BY <1>1, <1>2, <1>6, <1>7 DEF q, p

\* The dates whose quotient is i are those of the i-th interval.
LEMMA InInterval ==
    ASSUME NEW b \in Nat \ {0}, NEW x \in Int, NEW i \in Int
    PROVE  x \div b = i <=> x >= b * i /\ x < b * i + b
<1>. DEFINE q == x \div b
<1>1. q \in Int /\ x % b \in 0..(b - 1) /\ x = b * q + (x % b)
    BY Division
<1>2. PICK r \in 0..(b - 1) : x = b * q + r
    BY <1>1
<1>3. b * i \in Int /\ b * q \in Int
    BY <1>1
<1>. HIDE DEF q
<1>4. CASE q = i
    BY <1>2, <1>3, <1>4 DEF q
<1>5. CASE q < i
  <2>1. PICK m \in Nat : i = q + (m + 1)
      BY <1>1, <1>5
  <2>2. b * i = b * q + b * m + b /\ b * m >= 0 /\ b * m \in Int
      BY <1>1, <2>1
  <2>. QED
      BY <1>1, <1>2, <1>3, <1>5, <2>2 DEF q
<1>6. CASE q > i
  <2>1. PICK m \in Nat : q = i + (m + 1)
      BY <1>1, <1>6
  <2>2. b * q = b * i + b * m + b /\ b * m >= 0 /\ b * m \in Int
      BY <1>1, <2>1
  <2>. QED
      BY <1>1, <1>2, <1>3, <1>6, <2>2 DEF q
<1>. QED
    BY <1>1, <1>4, <1>5, <1>6

\* A window is a whole number of intervals, begins on one, and ends after the
\* time taken for it and within an interval of it.
LEMMA WindowFits ==
    ASSUME NEW clock \in Nat, NEW d \in Nat, NEW b \in Nat \ {0}, d % b = 0
    PROVE  /\ d \div b \in Int /\ d = b * (d \div b)
           /\ Start(clock, d, b) \in Int
           /\ \E k \in Int : Start(clock, d, b) = b * k
           /\ clock < Start(clock, d, b) + d
<1>. DEFINE q == clock \div b
            n == d \div b
<1>1. q \in Int /\ clock % b \in 0..(b - 1) /\ clock = b * q + (clock % b)
    BY Division
<1>2. n \in Int /\ d = b * n
    BY Division
<1>3. Start(clock, d, b) = (q * b + b) - d
    BY DEF Start, End
<1>. HIDE DEF q, n
<1>4. PICK m \in Int : m = b * q /\ m = q * b
    BY <1>1
<1>5. Start(clock, d, b) = b * (q + 1 - n) /\ q + 1 - n \in Int
    BY <1>1, <1>2, <1>3
<1>6. Start(clock, d, b) = m + b - d
    BY <1>3, <1>4
<1>7. PICK r \in 0..(b - 1) : clock = m + r
    BY <1>1, <1>4
<1>8. Start(clock, d, b) \in Int /\ clock < Start(clock, d, b) + d
    BY <1>6, <1>7
<1>. QED
    BY <1>2, <1>5, <1>8 DEF n

-----------------------------------------------------------------------------
(* Retention.                                                              *)

\* PurgeHealthHistory forgets the dates before the retention, and no other.
LEMMA Purged ==
    ASSUME NEW h
    PROVE  /\ DOMAIN PurgeHealthHistory(h) = {u \in DOMAIN h : u >= now - Keep}
           /\ \A u \in DOMAIN PurgeHealthHistory(h) :
                PurgeHealthHistory(h)[u] = h[u]
BY DEF PurgeHealthHistory

\* While a page is made its window begins within the retention.
LEMMA PageFits ==
    ASSUME TypeOK, at # "idle"
    PROVE  /\ win.bucket \in Nat \ {0} /\ win.duration \in Nat
           /\ win.duration % win.bucket = 0
           /\ win.duration \div win.bucket \in Int
           /\ win.duration = win.bucket * (win.duration \div win.bucket)
           /\ From \in Int /\ From >= now - Keep
           /\ asked \in Nat /\ now \in Nat /\ asked < From + win.duration
<1>1. /\ win.bucket \in Nat \ {0} /\ win.duration \in Nat
      /\ win.duration <= BarDuration /\ win.duration % win.bucket = 0
      /\ BarDuration + Slack <= Keep /\ BarDuration \in Nat
      /\ Slack \in Nat /\ Keep \in Nat
    BY HistoryAssumption DEF TypeOK
<1>2. asked \in Nat /\ now \in Nat /\ now <= asked + Slack
    BY HistoryAssumption DEF TypeOK
<1>3. /\ win.duration \div win.bucket \in Int
      /\ win.duration = win.bucket * (win.duration \div win.bucket)
      /\ From \in Int /\ asked < From + win.duration
    BY <1>1, <1>2, WindowFits DEF From
<1>4. From >= now - Keep
    BY <1>1, <1>2, <1>3
<1>. QED
    BY <1>1, <1>2, <1>3, <1>4

\* At first nothing was recorded.
LEMMA InitIInv == Init => IInv
BY HistoryAssumption DEF Init, IInv, TypeOK, Retained, PageHolds

\* Every step preserves the invariant: one case per action.
LEMMA NextIInv == IInv /\ [Next]_vars => IInv'
<1>. SUFFICES ASSUME IInv, [Next]_vars PROVE IInv'
    OBVIOUS
<1>. USE HistoryAssumption DEF IInv
<1>1. CASE Tick
  <2>1. TypeOK'
      BY <1>1 DEF Tick, pageVars, TypeOK
  <2>2. Retained'
      BY <1>1 DEF Tick, TypeOK, Retained
  <2>3. PageHolds'
      BY <1>1 DEF Tick, pageVars, PageHolds, From
  <2>. QED
      BY <2>1, <2>2, <2>3
<1>2. ASSUME NEW s \in Levels, Cycle(s) PROVE IInv'
  <2>. DEFINE r == RecordHealth(hist, now, s)
  <2>1. /\ hist' = r \/ hist' = PurgeHealthHistory(r)
        /\ log' = RecordHealth(log, now, s) /\ now' = now /\ first' = FALSE
        /\ at' = at /\ win' = win /\ asked' = asked /\ pts' = pts /\ again' = again
      BY <1>2 DEF Cycle, pageVars
  <2>2. /\ DOMAIN r = DOMAIN hist \cup {now} /\ r[now] = s
        /\ \A u \in DOMAIN hist \ {now} : r[u] = hist[u]
      BY DEF RecordHealth
  <2>3. /\ DOMAIN log' = DOMAIN log \cup {now} /\ log'[now] = s
        /\ \A u \in DOMAIN log \ {now} : log'[u] = log[u]
      BY <2>1 DEF RecordHealth
  <2>4. /\ DOMAIN hist' \subseteq DOMAIN r
        /\ \A u \in DOMAIN r : u >= now - Keep => u \in DOMAIN hist'
        /\ \A u \in DOMAIN hist' : hist'[u] = r[u]
      BY <2>1, Purged
  <2>. HIDE DEF r
  <2>5. TypeOK'
    <3>1. ASSUME NEW t \in DOMAIN hist' PROVE hist'[t] \in Levels
      <4>1. t = now \/ t \in DOMAIN hist \ {now}
          BY <2>2, <2>4
      <4>2. r[t] \in Levels
          BY <2>2, <4>1 DEF TypeOK
      <4>. QED
          BY <2>4, <4>2
    <3>2. DOMAIN hist' \subseteq 0..now /\ DOMAIN log' \subseteq 0..now
        BY <2>2, <2>3, <2>4 DEF TypeOK
    <3>3. now' \in 0..MaxTime /\ now' = now
        BY <2>1 DEF TypeOK
    <3>4. first' \in BOOLEAN
        BY <2>1
    <3>. QED
        BY <2>1, <3>1, <3>2, <3>3, <3>4 DEF TypeOK
  <2>6. Retained'
      BY <2>1, <2>2, <2>3, <2>4 DEF TypeOK, Retained
  <2>7. PageHolds'
    <3>. SUFFICES ASSUME at \in {"bars", "slots"}
                  PROVE  /\ \A t \in DOMAIN pts : t >= From
                         /\ \A t \in DOMAIN pts : t < asked =>
                                t \in DOMAIN log' /\ pts[t] = log'[t]
                         /\ \A t \in DOMAIN log' : t >= From /\ t < asked =>
                                t \in DOMAIN pts
        BY <2>1 DEF PageHolds, From
    <3>1. asked \in Nat /\ now \in Nat /\ asked <= now
        BY DEF TypeOK
    <3>2. ASSUME NEW t, t < asked, t \in DOMAIN pts \/ t \in DOMAIN log
          PROVE  t # now
        BY <3>1, <3>2 DEF TypeOK
    <3>. QED
        BY <2>3, <3>1, <3>2 DEF PageHolds
  <2>. QED
      BY <2>5, <2>6, <2>7
<1>3. CASE CycleUnread
  <2>1. /\ DOMAIN hist' \subseteq DOMAIN hist
        /\ \A u \in DOMAIN hist : u >= now - Keep => u \in DOMAIN hist'
        /\ \A u \in DOMAIN hist' : hist'[u] = hist[u]
      BY <1>3, Purged DEF CycleUnread
  <2>2. TypeOK' /\ Retained'
      BY <1>3, <2>1 DEF CycleUnread, pageVars, TypeOK, Retained
  <2>3. PageHolds'
      BY <1>3 DEF CycleUnread, pageVars, PageHolds, From
  <2>. QED
      BY <2>2, <2>3
<1>4. CASE Restart \/ Render
  <2>1. EndPage /\ UNCHANGED <<now, hist, log>> /\ first' \in BOOLEAN
      BY <1>4 DEF Restart, Render, TypeOK
  <2>. QED
      BY <2>1 DEF EndPage, TypeOK, Retained, PageHolds
<1>5. ASSUME NEW w \in Windows, Timeline(w) PROVE IInv'
    BY <1>5 DEF Timeline, TypeOK, Retained, PageHolds
<1>6. CASE ReadSeries
  <2>1. /\ at = "series" /\ at' = "bars" /\ pts' = [t \in Series(From) |-> hist[t]]
        /\ UNCHANGED <<now, hist, log, first, win, asked, again>> /\ From' = From
      BY <1>6 DEF ReadSeries, From
  <2>2. /\ DOMAIN pts' = {t \in DOMAIN hist : t >= From}
        /\ \A t \in DOMAIN pts' : pts'[t] = hist[t]
      BY <2>1 DEF Series
  <2>3. From \in Int /\ From >= now - Keep /\ now \in Nat /\ DOMAIN log \subseteq Nat
      BY <2>1, PageFits DEF TypeOK
  <2>4. TypeOK'
      BY <2>1, <2>2 DEF TypeOK
  <2>5. Retained'
      BY <2>1 DEF Retained
  <2>6. \A t \in DOMAIN log : t >= From => t \in DOMAIN hist
      BY <2>3 DEF Retained
  <2>7. PageHolds'
      BY <2>1, <2>2, <2>6 DEF PageHolds, Retained
  <2>. QED
      BY <2>4, <2>5, <2>7
<1>7. CASE Bars
  <2>1. /\ at = "bars" /\ at' = "slots" /\ again' = now
        /\ UNCHANGED <<now, hist, log, first, win, asked, pts>> /\ From' = From
      BY <1>7 DEF Bars, From
  <2>. QED
      BY <2>1 DEF TypeOK, Retained, PageHolds
<1>8. CASE UNCHANGED vars
    BY <1>8 DEF vars, pageVars, TypeOK, Retained, PageHolds, From
<1>. QED
    BY <1>1, <1>2, <1>3, <1>4, <1>5, <1>6, <1>7, <1>8 DEF Next

\* The invariant holds for ever.
THEOREM AlwaysIInv == Spec => []IInv
<1>1. Init => IInv
    BY InitIInv
<1>2. IInv /\ [Next]_vars => IInv'
    BY NextIInv
<1>. QED
    BY <1>1, <1>2, PTL DEF Spec

\* The points of History have dates of the past and states of Levels.
THEOREM TypeCorrect == Spec => []TypeOK
<1>1. IInv => TypeOK
    BY DEF IInv
<1>. QED
    BY <1>1, AlwaysIInv, PTL

-----------------------------------------------------------------------------
(* The cells.                                                              *)

\* Among states there is a worst one, "unknown" when there is none.
LEMMA WorstOf ==
    ASSUME NEW S \in SUBSET Levels
    PROVE  \E s \in S \cup {"unknown"} : \A u \in S : Rank[s] >= Rank[u]
<1>0. Rank["unknown"] = 0 /\ Rank["ok"] = 1 /\ Rank["warn"] = 2 /\ Rank["crit"] = 3
    BY DEF Rank
<1>1. CASE "crit" \in S
    BY <1>0, <1>1 DEF Levels
<1>2. CASE "crit" \notin S /\ "warn" \in S
    BY <1>0, <1>2 DEF Levels
<1>3. CASE "crit" \notin S /\ "warn" \notin S /\ "ok" \in S
    BY <1>0, <1>3 DEF Levels
<1>4. CASE S = {}
    BY <1>4
<1>. QED
    BY <1>1, <1>2, <1>3, <1>4 DEF Levels

\* The points of the interval i of a window that begins at start.
Points(h, start, bucket, i) ==
    {t \in DOMAIN h : t >= start /\ (t - start) \div bucket = i}

\* The worst of a set of states.
Worst(S) == CHOOSE s \in S \cup {"unknown"} : \A u \in S : Rank[s] >= Rank[u]

\* An interval is the worst of its points.
LEMMA IntervalIsWorst ==
    ASSUME NEW h, NEW clock, NEW d, NEW b, NEW i \in 0..((d \div b) - 1)
    PROVE  Intervals(h, clock, d, b)[i]
                = Worst({h[t] : t \in Points(h, Start(clock, d, b), b, i)})
BY DEF Intervals, Points, Worst

\* An interval is one of its points, or "unknown", and as serious as any of
\* them.
LEMMA CellIsWorst ==
    ASSUME NEW h, \A t \in DOMAIN h : h[t] \in Levels,
           NEW clock, NEW d, NEW b, NEW i \in 0..((d \div b) - 1)
    PROVE  /\ \A t \in Points(h, Start(clock, d, b), b, i) :
                    Rank[Intervals(h, clock, d, b)[i]] >= Rank[h[t]]
           /\ Intervals(h, clock, d, b)[i] # "unknown" =>
                    \E t \in Points(h, Start(clock, d, b), b, i) :
                        h[t] = Intervals(h, clock, d, b)[i]
<1>. DEFINE P == Points(h, Start(clock, d, b), b, i)
            S == {h[t] : t \in P}
            c == Worst(S)
<1>1. Intervals(h, clock, d, b)[i] = c
    BY DEF Intervals, Points, Worst
<1>2. S \in SUBSET Levels
    BY DEF Points
<1>3. \E s \in S \cup {"unknown"} : \A u \in S : Rank[s] >= Rank[u]
    BY <1>2, WorstOf
<1>4. c \in S \cup {"unknown"} /\ \A u \in S : Rank[c] >= Rank[u]
    BY <1>3 DEF Worst
<1>. QED
    BY <1>1, <1>4

\* Every point recorded in a window shows in its cell, and a cell says
\* nothing that no point said: the retention of health_history is enough for
\* any window of the page, however late the cycles, the purges, the restarts
\* and the reading of the points.
THEOREM NothingIsLost == Spec => []NothingShownIsLost
<1>1. ASSUME IInv PROVE NothingShownIsLost
  <2>. SUFFICES ASSUME at = "series"
                PROVE
        LET cells == Cells(hist)
            Cell(t) == (t - From) \div win.bucket
        IN  /\ \A t \in DOMAIN log : t >= From /\ t < From + win.duration =>
                    Cell(t) \in DOMAIN cells /\ Rank[cells[Cell(t)]] >= Rank[log[t]]
            /\ \A i \in DOMAIN cells : cells[i] # "unknown" =>
                    \E t \in DOMAIN log :
                        t >= From /\ Cell(t) = i /\ log[t] = cells[i]
      BY DEF NothingShownIsLost
  <2>. DEFINE b == win.bucket
              d == win.duration
              n == d \div b
              start == From
              cells == Cells(hist)
  <2>1. b \in Nat \ {0} /\ n \in Int /\ d = b * n
      BY <1>1, PageFits DEF IInv
  <2>2. start \in Int /\ start >= now - Keep
      BY <1>1, PageFits DEF IInv
  <2>3. DOMAIN cells = 0..(n - 1) /\ cells = Intervals(hist, asked, d, b)
      BY DEF Cells, Intervals
  <2>4. ASSUME NEW i \in 0..(n - 1)
        PROVE  /\ \A t \in Points(hist, start, b, i) :
                    Rank[cells[i]] >= Rank[hist[t]]
               /\ cells[i] # "unknown" =>
                    \E t \in Points(hist, start, b, i) : hist[t] = cells[i]
      BY <1>1, <2>3, CellIsWorst DEF IInv, TypeOK, From
  <2>. HIDE DEF b, d, n, start, cells
  <2>5. ASSUME NEW t \in DOMAIN log, t >= start, t < start + d
        PROVE  /\ (t - start) \div b \in DOMAIN cells
               /\ Rank[cells[(t - start) \div b]] >= Rank[log[t]]
    <3>1. t \in DOMAIN hist /\ hist[t] = log[t] /\ t \in Int
        BY <1>1, <2>2, <2>5, HistoryAssumption DEF IInv, TypeOK, Retained
    <3>2. t - start \in Int /\ t - start >= 0 /\ t - start < b * n
        BY <2>1, <2>2, <2>5, <3>1
    <3>3. (t - start) \div b \in 0..(n - 1)
        BY <2>1, <3>2, InRange
    <3>4. t \in Points(hist, start, b, (t - start) \div b)
        BY <2>5, <3>1 DEF Points
    <3>. QED
        BY <2>3, <2>4, <3>1, <3>3, <3>4
  <2>6. ASSUME NEW i \in DOMAIN cells, cells[i] # "unknown"
        PROVE  \E t \in DOMAIN log :
                    t >= start /\ (t - start) \div b = i /\ log[t] = cells[i]
    <3>1. PICK t \in Points(hist, start, b, i) : hist[t] = cells[i]
        BY <2>3, <2>4, <2>6
    <3>. QED
        BY <1>1, <3>1 DEF Points, IInv, Retained
  <2>. QED
      BY <2>5, <2>6 DEF b, d, start, cells
<1>. QED
    BY <1>1, AlwaysIInv, PTL

-----------------------------------------------------------------------------
(* The bars.                                                               *)

\* Truncated shares of a whole leave something to the remainder, and each is
\* short by less than one.
LEMMA Shares ==
    ASSUME NEW o \in Nat, NEW w \in Nat, NEW c \in Nat, NEW M \in Nat,
           M = o + w + c, M > 0
    PROVE  LET x == (c * 100) \div M
               y == (w * 100) \div M
           IN  /\ 100 - x - y >= 0
               /\ 100 * c - x * M \in 0..M /\ 100 * w - y * M \in 0..M
<1>. DEFINE x == (c * 100) \div M
            y == (w * 100) \div M
<1>1. x \in Int /\ (c * 100) % M \in 0..(M - 1) /\ c * 100 = M * x + ((c * 100) % M)
    BY Division
<1>2. y \in Int /\ (w * 100) % M \in 0..(M - 1) /\ w * 100 = M * y + ((w * 100) % M)
    BY Division
<1>. HIDE DEF x, y
<1>3. PICK mx \in Int : mx = M * x /\ mx = x * M
    BY <1>1
<1>4. PICK my \in Int : my = M * y /\ my = y * M
    BY <1>2
<1>5. 100 * c - mx \in 0..M /\ 100 * w - my \in 0..M
    BY <1>1, <1>2, <1>3, <1>4
<1>6. (100 - x - y) * M = 100 * M - mx - my
    BY <1>1, <1>2, <1>3, <1>4
<1>7. (100 - x - y) * M >= 0
    BY <1>5, <1>6
<1>8. 100 - x - y >= 0
  <2>. SUFFICES ASSUME 100 - x - y < 0 PROVE FALSE
      BY <1>1, <1>2
  <2>1. PICK k \in Nat : 100 - x - y = 0 - (k + 1)
      BY <1>1, <1>2
  <2>2. PICK km \in Nat : km = k * M
      OBVIOUS
  <2>3. (100 - x - y) * M = 0 - (km + M)
      BY <2>1, <2>2
  <2>. QED
      BY <1>7, <2>3
<1>. QED
    BY <1>3, <1>4, <1>5, <1>8 DEF x, y

\* The hours of a state are counted.
LEMMA HoursAreCounted ==
    ASSUME NEW s
    PROVE  Hours(s) \in Nat
<1>1. BarDuration \div Step \in Int
    BY HistoryAssumption, Division
<1>2. DOMAIN Slots = 0..((BarDuration \div Step) - 1)
    BY DEF Slots, Intervals
<1>3. IsFiniteSet(DOMAIN Slots)
    BY <1>1, <1>2, FS_Interval
<1>4. IsFiniteSet({i \in DOMAIN Slots : Slots[i] = s})
    BY <1>3, FS_Subset
<1>. QED
    BY <1>4, FS_CardinalityType DEF Hours

\* The points of an interval, by its dates.
LEMMA PointsAreDated ==
    ASSUME NEW h, DOMAIN h \subseteq Nat, NEW start \in Int,
           NEW b \in Nat \ {0}, NEW i \in Nat
    PROVE  Points(h, start, b, i) =
            {t \in DOMAIN h : t >= start + b * i /\ t < start + b * i + b}
<1>1. b * i \in Nat
    OBVIOUS
<1>2. ASSUME NEW t \in DOMAIN h
      PROVE  t >= start /\ (t - start) \div b = i
                <=> t >= start + b * i /\ t < start + b * i + b
  <2>1. t \in Nat /\ t - start \in Int
      OBVIOUS
  <2>2. PICK x \in Int : x = t - start
      BY <2>1
  <2>3. x \div b = i <=> x >= b * i /\ x < b * i + b
      BY InInterval
  <2>4. PICK z \in Nat : z = b * i
      BY <1>1
  <2>. QED
      BY <2>1, <2>2, <2>3, <2>4
<1>. QED
    BY <1>2 DEF Points

\* An hour that both the cells and the bars show, and that was over when the
\* page was asked for, has the same points in both readings.
LEMMA CellIsSlot ==
    ASSUME IInv, at = "slots", win.bucket = Step, NEW i \in DOMAIN Cells(pts),
           From + i * Step + Step <= asked,
           From + i * Step >= Start(again, BarDuration, Step)
    PROVE  Slots[SlotOf(From + i * Step)] = Cells(pts)[i]
<1>. DEFINE b == Step
            d == win.duration
            n == d \div b
            m == BarDuration \div b
            f == From
            g == Start(again, BarDuration, b)
            hour == f + i * b
            j == (hour - g) \div b
            P == Points(pts, f, b, i)
            Q == Points(hist, g, b, j)
<1>1. /\ b \in Nat \ {0} /\ BarDuration \in Nat /\ BarDuration % b = 0
      /\ Slack \in Nat /\ Keep \in Nat /\ BarDuration + Slack <= Keep
    BY HistoryAssumption
<1>2. /\ d \in Nat /\ n \in Int /\ f \in Int /\ now \in Nat /\ asked \in Nat
      /\ d % b = 0
    BY PageFits DEF IInv
<1>3. /\ again \in Nat /\ asked <= again /\ again <= now /\ now <= asked + Slack
      /\ DOMAIN pts \subseteq Nat /\ DOMAIN hist \subseteq Nat
      /\ DOMAIN log \subseteq Nat
    BY <1>2, HistoryAssumption DEF IInv, TypeOK
<1>4. /\ m \in Int /\ BarDuration = b * m /\ g \in Int
      /\ again < g + BarDuration /\ \E k \in Int : g = b * k
  <2>. HIDE DEF b
  <2>1. again \in Nat /\ BarDuration \in Nat /\ b \in Nat \ {0} /\ BarDuration % b = 0
      BY <1>1, <1>3
  <2>. QED
      BY <2>1, WindowFits, Zenon
<1>5. \E k \in Int : f = b * k
  <2>1. f = Start(asked, d, b)
      BY DEF From
  <2>. HIDE DEF b, d, f
  <2>2. asked \in Nat /\ d \in Nat /\ b \in Nat \ {0} /\ d % b = 0
      BY <1>1, <1>2
  <2>3. \E k \in Int : Start(asked, d, b) = b * k
      BY <2>2, WindowFits, Zenon
  <2>. QED
      BY <2>1, <2>3
<1>6. i \in 0..(n - 1) /\ i \in Nat
    BY <1>2 DEF Cells, Intervals
<1>. HIDE DEF b, d, n, m, f, g
<1>7. PICK bi \in Nat : bi = b * i /\ bi = i * b
    BY <1>1, <1>6
<1>8. hour = f + bi /\ hour + b <= asked /\ hour >= g /\ hour \in Int
    BY <1>2, <1>7 DEF b, f, g
<1>9. j \in 0..(m - 1) /\ b * j = hour - g
  <2>1. PICK kf \in Int : f = b * kf
      BY <1>5
  <2>2. PICK kg \in Int : g = b * kg
      BY <1>4
  <2>3. hour - g = 0 + b * (kf + i - kg) /\ kf + i - kg \in Int
      BY <1>1, <1>6, <1>7, <1>8, <2>1, <2>2
  <2>4. (0 + b * (kf + i - kg)) \div b = (0 \div b) + (kf + i - kg)
      BY <1>1, <2>3, Shift
  <2>5. 0 \div b = 0
      BY <1>1
  <2>6. j = kf + i - kg
      BY <2>3, <2>4, <2>5
  <2>7. hour - g \in Int /\ hour - g >= 0 /\ hour - g < b * m
      BY <1>1, <1>2, <1>3, <1>4, <1>8
  <2>8. j \in 0..(m - 1)
      BY <1>1, <1>4, <2>7, InRange
  <2>. QED
      BY <1>1, <2>3, <2>6, <2>8
<1>. HIDE DEF hour, j
<1>10. P = {t \in DOMAIN pts : t >= hour /\ t < hour + b}
    BY <1>1, <1>2, <1>3, <1>6, <1>7, <1>8, PointsAreDated
<1>11. Q = {t \in DOMAIN hist : t >= hour /\ t < hour + b}
  <2>1. j \in Nat /\ g + b * j = hour
      BY <1>4, <1>8, <1>9
  <2>. QED
      BY <1>1, <1>3, <1>4, <2>1, PointsAreDated
<1>. HIDE DEF P, Q
<1>12. /\ \A t \in DOMAIN pts : t < asked => t \in DOMAIN log /\ pts[t] = log[t]
       /\ \A t \in DOMAIN log : t >= f /\ t < asked => t \in DOMAIN pts
    BY DEF IInv, PageHolds, f
<1>13. /\ \A t \in DOMAIN hist : t \in DOMAIN log /\ hist[t] = log[t]
       /\ \A t \in DOMAIN log : t >= now - Keep => t \in DOMAIN hist
    BY DEF IInv, Retained
<1>14. hour >= now - Keep
    BY <1>1, <1>2, <1>3, <1>4, <1>8
<1>15. ASSUME NEW t \in P PROVE t \in Q /\ pts[t] = hist[t]
  <2>1. t \in DOMAIN pts /\ t \in Nat /\ t >= hour /\ t < hour + b /\ t < asked
      BY <1>1, <1>2, <1>3, <1>8, <1>10
  <2>2. t \in DOMAIN log /\ pts[t] = log[t]
      BY <1>12, <2>1
  <2>3. t >= now - Keep
      BY <1>1, <1>2, <1>8, <1>14, <2>1
  <2>. QED
      BY <1>11, <1>13, <2>1, <2>2, <2>3
<1>16. ASSUME NEW t \in Q PROVE t \in P
  <2>1. t \in DOMAIN hist /\ t \in Nat /\ t >= hour /\ t < hour + b
        /\ t < asked /\ t >= f
      BY <1>1, <1>2, <1>3, <1>7, <1>8, <1>11
  <2>. QED
      BY <1>10, <1>12, <1>13, <2>1
<1>17. {pts[t] : t \in P} = {hist[t] : t \in Q}
    BY <1>15, <1>16
<1>18. Cells(pts)[i] = Worst({pts[t] : t \in P})
    BY <1>6, IntervalIsWorst DEF Cells, From, P, b, d, n, f
<1>19. Slots[j] = Worst({hist[t] : t \in Q})
    BY <1>9 DEF Slots, Intervals, Points, Worst, Q, b, g, m
<1>20. SlotOf(From + i * Step) = j
    BY DEF SlotOf, j, hour, b, f, g
<1>. QED
    BY <1>17, <1>18, <1>19, <1>20

\* The bars and the cells of an hour say the same.
LEMMA BarsAgree ==
    ASSUME IInv
    PROVE  BarsMatchCells
BY CellIsSlot DEF BarsMatchCells

\* The percentages of the bars are shares.
LEMMA SharesOfBars == SharesAreFair
<1>1. /\ Hours("ok") \in Nat /\ Hours("warn") \in Nat /\ Hours("crit") \in Nat
      /\ Measured \in Nat
      /\ Measured = Hours("ok") + Hours("warn") + Hours("crit")
    BY HoursAreCounted DEF Measured
<1>2. /\ PctCrit = (Hours("crit") * 100) \div Measured
      /\ PctWarn = (Hours("warn") * 100) \div Measured
      /\ PctOK = 100 - PctCrit - PctWarn
    BY DEF PctOK, PctCrit, PctWarn
<1>3. ASSUME Measured > 0
      PROVE  /\ 100 - PctCrit - PctWarn >= 0
             /\ 100 * Hours("crit") - PctCrit * Measured \in 0..Measured
             /\ 100 * Hours("warn") - PctWarn * Measured \in 0..Measured
  <2>. DEFINE o == Hours("ok")
              w == Hours("warn")
              c == Hours("crit")
              M == Measured
  <2>1. o \in Nat /\ w \in Nat /\ c \in Nat /\ M \in Nat /\ M = o + w + c /\ M > 0
      BY <1>1, <1>3
  <2>2. PctCrit = (c * 100) \div M /\ PctWarn = (w * 100) \div M
      BY <1>2
  <2>. HIDE DEF o, w, c, M
  <2>3. LET x == (c * 100) \div M
            y == (w * 100) \div M
        IN  /\ 100 - x - y >= 0
            /\ 100 * c - x * M \in 0..M /\ 100 * w - y * M \in 0..M
      BY <2>1, Shares
  <2>4. /\ 100 - PctCrit - PctWarn >= 0
        /\ 100 * c - PctCrit * M \in 0..M /\ 100 * w - PctWarn * M \in 0..M
      BY <2>2, <2>3, Zenon
  <2>. QED
      BY <2>4 DEF w, c, M
<1>. QED
    BY <1>2, <1>3 DEF SharesAreFair

-----------------------------------------------------------------------------
(* Induction, for sets of numbers and for sets of finite sets.             *)

\* A set of natural numbers has a least element.
LEMMA Least ==
    ASSUME NEW T \in SUBSET Nat, T # {}
    PROVE  \E x \in T : \A y \in T : x <= y
<1>1. PICK x \in T : \A y \in T : ~ (<<y, x>> \in OpToRel(<, Nat))
    BY WFMin, NatLessThanWellFounded
<1>2. ASSUME NEW y \in T, y < x PROVE FALSE
  <2>1. <<y, x>> \in {ss \in Nat \X Nat : ss[1] < ss[2]}
      BY <1>2
  <2>2. {ss \in Nat \X Nat : ss[1] < ss[2]} = OpToRel(<, Nat)
      BY Zenon DEF OpToRel
  <2>. QED
      BY <1>1, <2>1, <2>2
<1>. QED
    BY <1>2

\* A set with 0 and the successors of its elements is Nat.
LEMMA Induction ==
    ASSUME NEW S \in SUBSET Nat, 0 \in S, \A n \in S : n + 1 \in S
    PROVE  S = Nat
<1>. SUFFICES ASSUME Nat \ S # {} PROVE FALSE
    OBVIOUS
<1>1. PICK x \in Nat \ S : \A y \in Nat \ S : x <= y
    BY Least
<1>2. x # 0 /\ x - 1 \in Nat
    BY <1>1
<1>3. x - 1 \in S
    BY <1>1, <1>2
<1>. QED
    BY <1>1, <1>2, <1>3

\* A family of subsets that has {}, and every set that has all its elements
\* but one in the family, whichever one, has all the subsets.
LEMMA SetInduction ==
    ASSUME NEW U, IsFiniteSet(U), NEW F \in SUBSET (SUBSET U), {} \in F,
           \A s \in SUBSET U : s # {} /\ (\A x \in s : s \ {x} \in F) => s \in F
    PROVE  F = SUBSET U
<1>. SUFFICES ASSUME (SUBSET U) \ F # {} PROVE FALSE
    OBVIOUS
<1>. DEFINE R == (SUBSET U) \ F
            C == {Cardinality(s) : s \in R}
<1>1. \A s \in SUBSET U : IsFiniteSet(s) /\ Cardinality(s) \in Nat
    BY FS_Subset, FS_CardinalityType
<1>2. C \in SUBSET Nat /\ C # {}
    BY <1>1
<1>. HIDE DEF C
<1>3. PICK n \in C : \A m \in C : n <= m
    BY <1>2, Least
<1>4. PICK s \in R : Cardinality(s) = n
    BY <1>3 DEF C
<1>5. ASSUME NEW x \in s PROVE s \ {x} \in F
  <2>1. Cardinality(s \ {x}) = n - 1 /\ n \in Nat
      BY <1>1, <1>4, FS_RemoveElement
  <2>2. s \ {x} \in R => n - 1 \in C
      BY <2>1 DEF C
  <2>3. s \ {x} \in SUBSET U
      OBVIOUS
  <2>. QED
      BY <1>3, <2>1, <2>2, <2>3
<1>. QED
    BY <1>4, <1>5

-----------------------------------------------------------------------------
(* The fold of the episodes: the points by date.                           *)

\* The points of the base are finitely many.
LEMMA PointsAreFinite ==
    ASSUME TypeOK, NEW S \in SUBSET DOMAIN hist
    PROVE  IsFiniteSet(S)
<1>1. now \in Int /\ S \subseteq 0..now
    BY HistoryAssumption DEF TypeOK
<1>2. IsFiniteSet(0..now)
    BY <1>1, FS_Interval
<1>. QED
    BY <1>1, <1>2, FS_Subset

\* Points have a last one, which Max gives.
LEMMA LastPoint ==
    ASSUME TypeOK, NEW S \in SUBSET DOMAIN hist, S # {}
    PROVE  Max(S) \in S /\ \A y \in S : Max(S) >= y
<1>. DEFINE R == {now - t : t \in S}
<1>0. now \in Nat /\ \A t \in S : t \in Nat /\ now - t \in Nat
    BY HistoryAssumption DEF TypeOK
<1>1. R \in SUBSET Nat /\ R # {}
    BY <1>0
<1>2. PICK r \in R : \A y \in R : r <= y
    BY <1>1, Least
<1>3. PICK x \in S : r = now - x
    BY <1>2
<1>4. ASSUME NEW y \in S PROVE x >= y
  <2>1. now - y \in R
      OBVIOUS
  <2>. HIDE DEF R
  <2>2. r <= now - y /\ x \in Nat /\ y \in Nat
      BY <1>0, <1>2, <2>1
  <2>. QED
      BY <1>0, <1>3, <2>2
<1>. QED
    BY <1>4 DEF Max

\* The episodes of the points s, when g gives those of fewer points.
Upto(g, s) ==
    IF s = {} THEN [out |-> << >>, cur |-> None]
    ELSE EpisodeStep(g[s \ {Max(s)}], Max(s))

\* EpisodesOf is the value of a function on the subsets, defined by recursion.
LEMMA EpisodesAreFolded ==
    ASSUME TypeOK, NEW S \in SUBSET DOMAIN hist
    PROVE  \E g : g = [s \in SUBSET S |-> Upto(g, s)] /\ EpisodesOf(S) = g[S]
<1>. DEFINE D(n) == {s \in SUBSET S : Cardinality(s) <= n}
            Good(n) == \E g : g = [s \in D(n) |-> Upto(g, s)]
            G == {n \in Nat : Good(n)}
<1>0. IsFiniteSet(S)
    BY PointsAreFinite
<1>1. \A s \in SUBSET S : IsFiniteSet(s) /\ Cardinality(s) \in Nat
    BY <1>0, FS_Subset, FS_CardinalityType
<1>2. ASSUME NEW s \in SUBSET S, s # {}
      PROVE  /\ s \ {Max(s)} \in SUBSET S
             /\ Cardinality(s \ {Max(s)}) = Cardinality(s) - 1
  <2>1. Max(s) \in s
      BY <1>2, LastPoint
  <2>. QED
      BY <1>1, <2>1, FS_RemoveElement
<1>3. 0 \in G
  <2>1. \A s \in D(0) : s = {}
      BY <1>1, FS_EmptySet
  <2>. DEFINE g == [s \in D(0) |-> [out |-> << >>, cur |-> None]]
  <2>2. \A s \in D(0) : Upto(g, s) = [out |-> << >>, cur |-> None]
      BY <2>1 DEF Upto
  <2>3. g = [s \in D(0) |-> Upto(g, s)]
      BY <2>2
  <2>. QED
      BY <2>3
<1>4. ASSUME NEW n \in G PROVE n + 1 \in G
  <2>1. PICK g : g = [s \in D(n) |-> Upto(g, s)]
      OBVIOUS
  <2>. DEFINE h == [s \in D(n + 1) |-> IF s \in D(n) THEN g[s] ELSE Upto(g, s)]
  <2>2. ASSUME NEW s \in D(n + 1) PROVE h[s] = Upto(h, s)
    <3>1. h[s] = Upto(g, s)
        BY <2>1
    <3>2. CASE s = {}
        BY <3>1, <3>2 DEF Upto
    <3>3. CASE s # {}
      <4>1. s \ {Max(s)} \in D(n) /\ s \ {Max(s)} \in D(n + 1)
          BY <1>1, <1>2, <3>3
      <4>2. h[s \ {Max(s)}] = g[s \ {Max(s)}]
          BY <4>1
      <4>. HIDE DEF h
      <4>. QED
          BY <3>1, <3>3, <4>2 DEF Upto
    <3>. QED
        BY <3>2, <3>3
  <2>3. h = [s \in D(n + 1) |-> h[s]]
      OBVIOUS
  <2>. HIDE DEF h
  <2>4. h = [s \in D(n + 1) |-> Upto(h, s)]
      BY <2>2, <2>3
  <2>5. Good(n + 1)
      BY <2>4, Zenon
  <2>. HIDE DEF Good
  <2>. QED
      BY <2>5
<1>5. G = Nat
  <2>1. G \in SUBSET Nat
      OBVIOUS
  <2>. HIDE DEF G
  <2>. QED
      BY <1>3, <1>4, <2>1, Induction
<1>6. Cardinality(S) \in Nat /\ D(Cardinality(S)) = SUBSET S
    BY <1>0, FS_CardinalityType, FS_Subset
<1>7. Good(Cardinality(S))
  <2>. HIDE DEF Good
  <2>. QED
      BY <1>5, <1>6
<1>8. \E g : g = [s \in SUBSET S |-> Upto(g, s)]
    BY <1>6, <1>7
<1>. DEFINE f == CHOOSE g : g = [s \in SUBSET S |-> Upto(g, s)]
<1>9. f = [s \in SUBSET S |-> Upto(f, s)]
    BY <1>8
<1>10. EpisodesOf(S) = f[S]
    BY Zenon DEF EpisodesOf, MapThenFoldSet, Upto
<1>. HIDE DEF f
<1>. QED
    BY <1>9, <1>10

-----------------------------------------------------------------------------
(* The episodes.                                                           *)

\* e is right about the points s: from its start to its end they are out of
\* order, but the one at its end, it is as serious as the worst of them, and
\* explained by the first of these.
Tells(e, s) ==
    /\ hist[e.cause] = e.state
    /\ \A t \in s : t >= e.start /\ t <= e.end =>
        /\ hist[t] = "ok" => t = e.end
        /\ hist[t] # "ok" => /\ Rank[hist[t]] <= Rank[e.state]
                             /\ hist[t] = e.state => t >= e.cause

\* An episode that is over ends with a point in order.
Closed(e, s) == Tells(e, s) /\ e.end \in s /\ hist[e.end] = "ok"

\* The one that is not over has no point in order since its start.
Open(e, s) ==
    /\ e \in Episode /\ e.end = now /\ Tells(e, s)
    /\ e.start \in s /\ e.cause \in s /\ e.state # "ok"
    /\ \A t \in s : t >= e.start => hist[t] # "ok"

\* t is in an episode of out.
Covered(t, out) == \E k \in 1..Len(out) : t >= out[k].start /\ t <= out[k].end

\* The episodes after the points s.
Told(s, acc) ==
    /\ acc = [out |-> acc.out, cur |-> acc.cur] /\ acc.out \in Seq(Episode)
    /\ \A k \in 1..Len(acc.out) :
        /\ Closed(acc.out[k], s)
        /\ k > 1 => acc.out[k - 1].end < acc.out[k].start
    /\ acc.cur # None =>
        /\ Open(acc.cur, s)
        /\ \A k \in 1..Len(acc.out) : acc.out[k].end < acc.cur.start
    /\ \A t \in s : hist[t] # "ok" =>
        Covered(t, acc.out) \/ (acc.cur # None /\ t >= acc.cur.start)

\* The points of the past are dates, of a known state.
LEMMA Dates ==
    ASSUME TypeOK
    PROVE  /\ now \in Nat /\ DOMAIN hist \subseteq Nat
           /\ \A t \in DOMAIN hist : t <= now /\ hist[t] \in Levels
                                     /\ hist[t] # "unknown"
BY HistoryAssumption DEF TypeOK, Levels

\* A later point is not one of an episode that is over.
LEMMA StaysClosed ==
    ASSUME TypeOK, NEW s \in SUBSET DOMAIN hist, NEW m \in DOMAIN hist,
           \A t \in s : t < m, NEW e \in Episode, Closed(e, s)
    PROVE  Closed(e, s \cup {m})
<1>1. m \in Nat /\ e.end \in Nat /\ e.end < m
    BY Dates DEF Closed, Episode
<1>. QED
    BY <1>1 DEF Closed, Tells

\* One point further, episodes are told as before: one case per branch of
\* the loop of episodes.
LEMMA OneMore ==
    ASSUME TypeOK, NEW s \in SUBSET DOMAIN hist, NEW m \in DOMAIN hist,
           \A t \in s : t < m, NEW acc, Told(s, acc)
    PROVE  Told(s \cup {m}, EpisodeStep(acc, m))
<1>. DEFINE out == acc.out
            cur == acc.cur
            new == EpisodeStep(acc, m)
            S == s \cup {m}
<1>0. /\ m \in Nat /\ m <= now /\ now \in Nat /\ s \subseteq Nat
      /\ hist[m] \in {"ok", "warn", "crit"}
    BY Dates DEF Levels
<1>1. /\ acc = [out |-> out, cur |-> cur] /\ out \in Seq(Episode)
      /\ Len(out) \in Nat /\ DOMAIN out = 1..Len(out)
      /\ \A k \in 1..Len(out) : out[k] \in Episode
    BY DEF Told
<1>2. \A k \in 1..Len(out) :
        /\ Closed(out[k], S) /\ out[k].end < m
        /\ k > 1 => out[k - 1].end < out[k].start
    BY <1>1, StaysClosed DEF Told, Closed
<1>3. cur # None =>
        /\ cur \in Episode /\ cur.end = now /\ Tells(cur, s)
        /\ cur.start \in s /\ cur.cause \in s /\ cur.state # "ok"
        /\ \A t \in s : t >= cur.start => hist[t] # "ok"
        /\ \A k \in 1..Len(out) : out[k].end < cur.start
    BY DEF Told, Open
<1>4. \A t \in s : hist[t] # "ok" =>
        Covered(t, out) \/ (cur # None /\ t >= cur.start)
    BY DEF Told
<1>5. Rank["ok"] = 1 /\ Rank["warn"] = 2 /\ Rank["crit"] = 3
    BY DEF Rank
<1>6. CASE hist[m] = "ok" /\ cur = None
  <2>1. new = acc
      BY <1>6 DEF EpisodeStep
  <2>. QED
      BY <1>1, <1>2, <1>4, <1>6, <2>1 DEF Told
<1>7. CASE hist[m] = "ok" /\ cur # None
  <2>. DEFINE e == [cur EXCEPT !.end = m]
  <2>1. new = [out |-> Append(out, e), cur |-> None]
      BY <1>7 DEF EpisodeStep
  <2>2. /\ e \in Episode /\ e.start = cur.start /\ e.end = m
        /\ e.state = cur.state /\ e.cause = cur.cause
      BY <1>0, <1>3, <1>7 DEF Episode
  <2>3. Closed(e, S)
      BY <1>0, <1>3, <1>7, <2>2 DEF Closed, Tells
  <2>. HIDE DEF e
  <2>4. /\ Append(out, e) \in Seq(Episode) /\ Len(Append(out, e)) = Len(out) + 1
        /\ Append(out, e)[Len(out) + 1] = e
        /\ \A k \in 1..Len(out) : Append(out, e)[k] = out[k]
      BY <1>1, <2>2
  <2>5. ASSUME NEW t \in S, hist[t] # "ok" PROVE Covered(t, Append(out, e))
    <3>1. t \in s /\ t \in Nat /\ t <= m
        BY <1>0, <1>7, <2>5
    <3>2. CASE Covered(t, out)
        BY <1>1, <2>4, <3>2 DEF Covered
    <3>3. CASE t >= cur.start
        BY <1>1, <2>2, <2>4, <3>1, <3>3 DEF Covered
    <3>. QED
        BY <1>4, <2>5, <3>1, <3>2, <3>3
  <2>6. \A k \in 1..Len(Append(out, e)) :
            /\ Closed(Append(out, e)[k], S)
            /\ k > 1 => Append(out, e)[k - 1].end < Append(out, e)[k].start
    <3>. SUFFICES ASSUME NEW k \in 1..(Len(out) + 1)
                  PROVE  /\ Closed(Append(out, e)[k], S)
                         /\ k > 1 => Append(out, e)[k - 1].end
                                        < Append(out, e)[k].start
        BY <2>4
    <3>1. CASE k \in 1..Len(out)
      <4>1. k > 1 => k - 1 \in 1..Len(out)
          BY <1>1, <3>1
      <4>2. /\ Append(out, e)[k] = out[k]
            /\ k > 1 => Append(out, e)[k - 1] = out[k - 1]
          BY <2>4, <3>1, <4>1
      <4>. QED
          BY <1>2, <3>1, <4>2
    <3>2. CASE k = Len(out) + 1
      <4>1. Closed(Append(out, e)[k], S)
          BY <2>3, <2>4, <3>2
      <4>2. k > 1 => Append(out, e)[k - 1] = out[k - 1] /\ k - 1 \in 1..Len(out)
          BY <1>1, <2>4, <3>2
      <4>3. Append(out, e)[k].start = cur.start
          BY <2>2, <2>4, <3>2
      <4>. QED
          BY <1>3, <1>7, <4>1, <4>2, <4>3
    <3>. QED
        BY <1>1, <3>1, <3>2
  <2>7. new.out = Append(out, e) /\ new.cur = None
        /\ new = [out |-> new.out, cur |-> new.cur]
      BY <2>1
  <2>. HIDE DEF new
  <2>8. Told(S, new)
      BY <2>4, <2>5, <2>6, <2>7 DEF Told
  <2>. QED
      BY <2>8 DEF new
<1>8. CASE hist[m] # "ok" /\ cur = None
  <2>. DEFINE e == [start |-> m, end |-> now, state |-> hist[m], cause |-> m]
  <2>1. new = [out |-> out, cur |-> e]
      BY <1>0, <1>1, <1>8 DEF EpisodeStep
  <2>2. /\ e \in Episode /\ e.start = m /\ e.end = now
        /\ e.state = hist[m] /\ e.cause = m
      BY <1>0 DEF Episode, Levels
  <2>. HIDE DEF e
  <2>3. \A t \in S : t >= e.start => t = m
      BY <1>0, <2>2
  <2>4. Open(e, S)
      BY <1>0, <1>5, <1>8, <2>2, <2>3 DEF Open, Tells
  <2>5. \A t \in S : hist[t] # "ok" => Covered(t, out) \/ t >= e.start
      BY <1>0, <1>4, <1>8, <2>2
  <2>6. new.out = out /\ new.cur = e /\ e # None
        /\ new = [out |-> new.out, cur |-> new.cur]
      BY <2>1, <2>2, NoneAssumption
  <2>7. \A k \in 1..Len(out) : out[k].end < e.start
      BY <1>2, <2>2
  <2>. HIDE DEF new
  <2>8. Told(S, new)
      BY <1>1, <1>2, <2>2, <2>4, <2>5, <2>6, <2>7 DEF Told
  <2>. QED
      BY <2>8 DEF new
<1>9. CASE hist[m] = "crit" /\ cur # None /\ cur.state # "crit"
  <2>. DEFINE e == [cur EXCEPT !.state = "crit", !.cause = m]
  <2>1. new = [out |-> out, cur |-> e]
      BY <1>1, <1>3, <1>9 DEF EpisodeStep
  <2>2. /\ e \in Episode /\ e.start = cur.start /\ e.end = now
        /\ e.state = "crit" /\ e.cause = m
      BY <1>0, <1>3, <1>9 DEF Episode, Levels
  <2>. HIDE DEF e
  <2>3. Open(e, S)
    <3>1. hist[e.cause] = e.state
        BY <1>9, <2>2
    <3>2. ASSUME NEW t \in S, t >= e.start
          PROVE  /\ hist[t] # "ok" /\ Rank[hist[t]] <= Rank[e.state]
                 /\ hist[t] = e.state => t >= e.cause
      <4>1. CASE t = m
          BY <1>0, <1>5, <1>9, <2>2, <4>1
      <4>2. CASE t \in s
        <5>1. hist[t] # "ok" /\ t <= cur.end /\ t \in Nat
            BY <1>3, <1>9, <2>2, <3>2, <4>2, Dates
        <5>2. Rank[hist[t]] <= Rank[cur.state] /\ cur.state \in {"ok", "warn"}
            BY <1>3, <1>9, <2>2, <3>2, <4>2, <5>1 DEF Tells, Episode, Levels
        <5>3. hist[t] \in {"ok", "warn", "crit"}
            BY <4>2, Dates DEF Levels
        <5>. QED
            BY <1>5, <2>2, <5>1, <5>2, <5>3
      <4>. QED
          BY <4>1, <4>2
    <3>. QED
        BY <1>3, <1>9, <2>2, <3>1, <3>2 DEF Open, Tells
  <2>4. \A t \in S : hist[t] # "ok" => Covered(t, out) \/ t >= e.start
    <3>1. cur.start \in s /\ cur.start \in Nat /\ cur.start < m
        BY <1>0, <1>3, <1>9
    <3>. QED
        BY <1>0, <1>4, <1>9, <2>2, <3>1
  <2>6. new.out = out /\ new.cur = e /\ e # None
        /\ new = [out |-> new.out, cur |-> new.cur]
      BY <2>1, <2>2, NoneAssumption
  <2>. HIDE DEF new
  <2>8. Told(S, new)
      BY <1>1, <1>2, <1>3, <1>9, <2>2, <2>3, <2>4, <2>6 DEF Told
  <2>. QED
      BY <2>8 DEF new
<1>10. CASE hist[m] # "ok" /\ cur # None /\ ~ (hist[m] = "crit" /\ cur.state # "crit")
  <2>1. new = acc
      BY <1>0, <1>10 DEF EpisodeStep
  <2>2. cur.start < m /\ cur.cause < m /\ cur.start \in Nat /\ cur.cause \in Nat
      BY <1>0, <1>3, <1>10
  <2>3. Rank[hist[m]] <= Rank[cur.state]
      BY <1>0, <1>3, <1>5, <1>10 DEF Episode, Levels
  <2>4. Tells(cur, S)
      BY <1>0, <1>3, <1>10, <2>2, <2>3 DEF Tells
  <2>5. Open(cur, S)
      BY <1>0, <1>3, <1>10, <2>4 DEF Open
  <2>6. \A t \in S : hist[t] # "ok" =>
            Covered(t, out) \/ (cur # None /\ t >= cur.start)
      BY <1>0, <1>4, <1>10, <2>2
  <2>. QED
      BY <1>1, <1>2, <1>3, <1>10, <2>1, <2>5, <2>6 DEF Told
<1>. QED
    BY <1>6, <1>7, <1>8, <1>9, <1>10

\* The loop of episodes tells all the points it goes through.
LEMMA AllTold ==
    ASSUME TypeOK, NEW S \in SUBSET DOMAIN hist
    PROVE  Told(S, EpisodesOf(S))
<1>1. PICK g : g = [s \in SUBSET S |-> Upto(g, s)] /\ EpisodesOf(S) = g[S]
    BY EpisodesAreFolded
<1>. DEFINE F == {s \in SUBSET S : Told(s, g[s])}
<1>2. \A s \in SUBSET S : g[s] = Upto(g, s)
    BY <1>1
<1>3. {} \in F
  <2>1. g[{}] = [out |-> << >>, cur |-> None]
      BY <1>2 DEF Upto
  <2>2. Told({}, [out |-> << >>, cur |-> None])
      BY DEF Told
  <2>. QED
      BY <2>1, <2>2
<1>4. ASSUME NEW s \in SUBSET S, s # {}, \A x \in s : s \ {x} \in F
      PROVE  s \in F
  <2>. DEFINE m == Max(s)
              r == s \ {m}
  <2>1. m \in s /\ \A y \in s : m >= y
      BY <1>4, LastPoint
  <2>2. Told(r, g[r])
      BY <1>4, <2>1
  <2>3. g[s] = EpisodeStep(g[r], m)
      BY <1>2, <1>4 DEF Upto
  <2>. HIDE DEF m
  <2>4. \A t \in r : t < m
    <3>1. s \subseteq Nat
        BY Dates
    <3>. QED
        BY <2>1, <3>1
  <2>5. r \cup {m} = s /\ r \in SUBSET DOMAIN hist /\ m \in DOMAIN hist
      BY <2>1
  <2>. HIDE DEF r
  <2>6. Told(r \cup {m}, EpisodeStep(g[r], m))
      BY <2>2, <2>4, <2>5, OneMore
  <2>. QED
      BY <2>3, <2>5, <2>6
<1>5. F = SUBSET S
  <2>1. F \in SUBSET (SUBSET S) /\ IsFiniteSet(S)
      BY PointsAreFinite
  <2>. HIDE DEF F
  <2>. QED
      BY <1>3, <1>4, <2>1, SetInduction
<1>. QED
    BY <1>1, <1>5

\* The episodes of a window, the one that is not over included.
LEMMA EpisodesAreTold ==
    ASSUME TypeOK
    PROVE  LET S == Series(From)
               eps == Episodes
           IN  /\ Len(eps) \in Nat /\ DOMAIN eps = 1..Len(eps)
               /\ \A k \in 1..Len(eps) :
                    /\ Tells(eps[k], S)
                    /\ k > 1 => /\ eps[k - 1].end < eps[k].start
                                /\ hist[eps[k - 1].end] = "ok"
               /\ \A t \in S : hist[t] # "ok" => Covered(t, eps)
<1>. DEFINE S == Series(From)
            acc == EpisodesOf(S)
            out == acc.out
            cur == acc.cur
            eps == Episodes
<1>1. S \in SUBSET DOMAIN hist
    BY DEF Series
<1>2. Told(S, acc)
    BY <1>1, AllTold
<1>3. eps = IF cur = None THEN out ELSE Append(out, cur)
    BY DEF Episodes
<1>. HIDE DEF S, acc, eps
<1>4. /\ out \in Seq(Episode) /\ Len(out) \in Nat /\ DOMAIN out = 1..Len(out)
      /\ \A k \in 1..Len(out) :
            /\ Tells(out[k], S) /\ hist[out[k].end] = "ok"
            /\ k > 1 => out[k - 1].end < out[k].start
    BY <1>2 DEF Told, Closed
<1>5. CASE cur = None
  <2>1. \A t \in S : hist[t] # "ok" => Covered(t, out)
      BY <1>2, <1>5 DEF Told
  <2>2. \A k \in 1..Len(out) : k > 1 => k - 1 \in 1..Len(out)
      BY <1>4
  <2>. QED
      BY <1>3, <1>4, <1>5, <2>1, <2>2 DEF S, eps
<1>6. CASE cur # None
  <2>1. /\ cur \in Episode /\ cur.end = now /\ Tells(cur, S)
        /\ \A k \in 1..Len(out) : out[k].end < cur.start
      BY <1>2, <1>6 DEF Told, Open
  <2>2. /\ Len(eps) = Len(out) + 1 /\ DOMAIN eps = 1..Len(eps)
        /\ eps[Len(out) + 1] = cur
        /\ \A k \in 1..Len(out) : eps[k] = out[k]
      BY <1>3, <1>4, <1>6, <2>1
  <2>3. ASSUME NEW k \in 1..Len(eps)
        PROVE  /\ Tells(eps[k], S)
               /\ k > 1 => /\ eps[k - 1].end < eps[k].start
                           /\ hist[eps[k - 1].end] = "ok"
    <3>1. k > 1 => k - 1 \in 1..Len(out) /\ eps[k - 1] = out[k - 1]
        BY <1>4, <2>2
    <3>2. CASE k \in 1..Len(out)
        BY <1>4, <2>2, <3>1, <3>2
    <3>3. CASE k = Len(out) + 1
        BY <1>4, <2>1, <2>2, <3>1, <3>3
    <3>. QED
        BY <1>4, <2>2, <3>2, <3>3
  <2>4. ASSUME NEW t \in S, hist[t] # "ok" PROVE Covered(t, eps)
    <3>1. CASE Covered(t, out)
        BY <1>4, <2>2, <3>1 DEF Covered
    <3>2. CASE t >= cur.start
      <4>1. t <= now
          BY <1>1, Dates DEF S
      <4>. QED
          BY <1>4, <2>1, <2>2, <3>2, <4>1 DEF Covered
    <3>. QED
        BY <1>2, <2>4, <3>1, <3>2 DEF Told
  <2>. QED
      BY <1>4, <2>2, <2>3, <2>4 DEF S, eps
<1>. QED
    BY <1>5, <1>6

\* Episodes are longest stretches of points out of order, as serious as the
\* worst of them and explained by the first of these, and every cell out of
\* order has its episode.
LEMMA EpisodesAgree ==
    ASSUME TypeOK
    PROVE  EpisodesMatchCells
<1>. SUFFICES ASSUME at = "series"
     PROVE  LET cells == Cells(hist)
                eps == Episodes
                Within(e) == {t \in Series(From) : t >= e.start /\ t <= e.end}
                Bad(e) == {t \in Within(e) : hist[t] # "ok"}
            IN  /\ \A k \in DOMAIN eps :
                    /\ \A t \in Within(eps[k]) : hist[t] = "ok" => t = eps[k].end
                    /\ \A t \in Bad(eps[k]) : Rank[hist[t]] <= Rank[eps[k].state]
                    /\ hist[eps[k].cause] = eps[k].state
                    /\ \A t \in Bad(eps[k]) :
                            hist[t] = eps[k].state => t >= eps[k].cause
                    /\ k > 1 => /\ eps[k - 1].end < eps[k].start
                                /\ hist[eps[k - 1].end] = "ok"
                /\ \A i \in DOMAIN cells : cells[i] \in {"warn", "crit"} =>
                    \E k \in DOMAIN eps : \E t \in Bad(eps[k]) :
                        (t - From) \div win.bucket = i /\ hist[t] = cells[i]
    BY DEF EpisodesMatchCells
<1>. DEFINE b == win.bucket
            d == win.duration
            start == From
            S == Series(start)
            cells == Cells(hist)
            eps == Episodes
<1>1. /\ Len(eps) \in Nat /\ DOMAIN eps = 1..Len(eps)
      /\ \A k \in 1..Len(eps) :
            /\ Tells(eps[k], S)
            /\ k > 1 => /\ eps[k - 1].end < eps[k].start
                        /\ hist[eps[k - 1].end] = "ok"
      /\ \A t \in S : hist[t] # "ok" => Covered(t, eps)
    BY EpisodesAreTold
<1>2. DOMAIN cells = 0..((d \div b) - 1) /\ cells = Intervals(hist, asked, d, b)
    BY DEF Cells, Intervals
<1>3. ASSUME NEW i \in DOMAIN cells, cells[i] \in {"warn", "crit"}
      PROVE  \E t \in S : (t - start) \div b = i /\ hist[t] = cells[i]
  <2>1. PICK t \in Points(hist, start, b, i) : hist[t] = cells[i]
      BY <1>2, <1>3, CellIsWorst DEF TypeOK, From
  <2>. QED
      BY <2>1 DEF Points, Series
<1>. HIDE DEF b, start, S, cells, eps
<1>4. ASSUME NEW i \in DOMAIN cells, cells[i] \in {"warn", "crit"}
      PROVE  \E k \in DOMAIN eps : \E t \in S :
                /\ t >= eps[k].start /\ t <= eps[k].end /\ hist[t] # "ok"
                /\ (t - start) \div b = i /\ hist[t] = cells[i]
  <2>1. PICK t \in S : (t - start) \div b = i /\ hist[t] = cells[i]
      BY <1>3, <1>4
  <2>2. hist[t] # "ok"
      BY <1>4, <2>1
  <2>3. PICK k \in 1..Len(eps) : t >= eps[k].start /\ t <= eps[k].end
      BY <1>1, <2>2 DEF Covered
  <2>. QED
      BY <1>1, <2>1, <2>2, <2>3
<1>5. ASSUME NEW k \in DOMAIN eps
      PROVE  /\ hist[eps[k].cause] = eps[k].state
             /\ \A t \in S : t >= eps[k].start /\ t <= eps[k].end =>
                  /\ hist[t] = "ok" => t = eps[k].end
                  /\ hist[t] # "ok" => /\ Rank[hist[t]] <= Rank[eps[k].state]
                                       /\ hist[t] = eps[k].state => t >= eps[k].cause
    BY <1>1 DEF Tells
<1>. QED
    BY <1>1, <1>4, <1>5 DEF b, d, start, S, cells, eps

\* The three displays of a page tell the same story, whatever the windows and
\* the points, and whatever is recorded between the two readings: the episodes
\* are the stretches of points out of order that the cells show, the bars are
\* the cells of every hour that was over when the page was asked for, and
\* their percentages are shares.
THEOREM DisplaysTellTheSame == Spec => []DisplaysAgree
<1>1. IInv => DisplaysAgree
    BY EpisodesAgree, BarsAgree, SharesOfBars DEF IInv, DisplaysAgree
<1>. QED
    BY <1>1, AlwaysIInv, PTL
=============================================================================
