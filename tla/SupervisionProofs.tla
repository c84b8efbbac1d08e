------------------------- MODULE SupervisionProofs --------------------------
(***************************************************************************)
(* Proofs about Supervision, for any reports, certificates, thresholds,    *)
(* number of attempts and length of time.                                  *)
(***************************************************************************)
EXTENDS Supervision, FiniteSetTheorems, WellFoundedInduction, TLAPS

-----------------------------------------------------------------------------
(* Induction, for sets of numbers.                                         *)

\* A set of natural numbers has a least element.
LEMMA Least ==
    ASSUME NEW T \in SUBSET Nat, T # {}
    PROVE  \E x \in T : \A y \in T : x <= y
<1>1. PICK x \in T : \A y \in T : ~ (<<y, x>> \in OpToRel(<, Nat))
    BY WFMin, NatLessThanWellFounded
<1>2. ASSUME NEW y \in T, y < x PROVE FALSE
  <2>1. <<y, x>> \in {ss \in Nat \X Nat : ss[1] < ss[2]}
      BY <1>2
  <2>2. {ss \in Nat \X Nat : ss[1] < ss[2]} = OpToRel(<, Nat)
      BY Zenon DEF OpToRel
  <2>. QED
      BY <1>1, <2>1, <2>2
<1>. QED
    BY <1>2

\* A set with 0 and the successors of its elements is Nat.
LEMMA Induction ==
    ASSUME NEW S \in SUBSET Nat, 0 \in S, \A n \in S : n + 1 \in S
    PROVE  S = Nat
<1>. SUFFICES ASSUME Nat \ S # {} PROVE FALSE
    OBVIOUS
<1>1. PICK x \in Nat \ S : \A y \in Nat \ S : x <= y
    BY Least
<1>2. x # 0 /\ x - 1 \in Nat
    BY <1>1
<1>3. x - 1 \in S
    BY <1>1, <1>2
<1>. QED
    BY <1>1, <1>2, <1>3

-----------------------------------------------------------------------------
(* The probe.                                                              *)

\* What request i adds to the requests that come after it.
From(g, i) == Request(i, IF i = Attempts THEN None ELSE g[i + 1])

\* ProbeFrom is well defined: the last request depends on no other, and each
\* of the others on the next one.
LEMMA ProbeFromDef ==
    ProbeFrom = [i \in 1..Attempts |-> From(ProbeFrom, i)]
<1>. DEFINE N == Attempts
            Good(n) == \E g : g = [i \in (N - n)..N |-> From(g, i)]
            S == {n \in Nat : n < N => Good(n)}
<1>0. N \in Nat \ {0}
    BY SupervisionAssumption
<1>. HIDE DEF N
<1>1. 0 \in S
  <2>. DEFINE g == [i \in (N - 0)..N |-> Request(i, None)]
  <2>1. g = [i \in (N - 0)..N |-> From(g, i)]
      BY <1>0 DEF From, N
  <2>. QED
      BY <2>1
<1>2. ASSUME NEW n \in S PROVE n + 1 \in S
  <2>. SUFFICES ASSUME n + 1 < N PROVE Good(n + 1)
      OBVIOUS
  <2>1. PICK g : g = [i \in (N - n)..N |-> From(g, i)]
      BY <1>0
  <2>. DEFINE m == N - (n + 1)
              h == [i \in m..N |-> IF i = m THEN Request(i, g[i + 1]) ELSE g[i]]
  <2>2. ASSUME NEW i \in m..N PROVE h[i] = From(h, i)
    <3>1. CASE i = m
      <4>1. i # N /\ i + 1 \in m..N /\ i + 1 # m
          BY <1>0, <3>1
      <4>2. h[i + 1] = g[i + 1] /\ h[i] = Request(i, g[i + 1])
          BY <3>1, <4>1
      <4>. QED
          BY <4>1, <4>2 DEF From, N
    <3>2. CASE i = N
      <4>1. i \in (N - n)..N /\ i # m
          BY <1>0, <3>2
      <4>2. h[i] = From(g, i)
          BY <2>1, <4>1
      <4>. QED
          BY <3>2, <4>2 DEF From, N
    <3>3. CASE i # m /\ i # N
      <4>1. i \in (N - n)..N /\ i + 1 \in m..N /\ i + 1 # m
          BY <1>0, <3>3
      <4>2. h[i] = From(g, i) /\ h[i + 1] = g[i + 1]
          BY <2>1, <3>3, <4>1
      <4>. QED
          BY <3>3, <4>2 DEF From, N
    <3>. QED
        BY <3>1, <3>2, <3>3
  <2>3. h = [i \in m..N |-> h[i]]
      OBVIOUS
  <2>. HIDE DEF h
  <2>4. h = [i \in m..N |-> From(h, i)]
      BY <2>2, <2>3
  <2>. QED
      BY <2>4
<1>3. S = Nat
  <2>1. S \in SUBSET Nat
      OBVIOUS
  <2>. HIDE DEF S
  <2>. QED
      BY <1>1, <1>2, <2>1, Induction
<1>4. Good(N - 1)
  <2>1. N - 1 \in Nat /\ N - 1 < N
      BY <1>0
  <2>. HIDE DEF Good
  <2>. QED
      BY <1>3, <2>1
<1>5. N - (N - 1) = 1
    BY <1>0
<1>6. \E g : g = [i \in 1..N |-> From(g, i)]
    BY <1>4, <1>5
<1>. QED
    BY <1>6 DEF ProbeFrom, From, N

Expiries == Certs \cup {None}

\* What DownIsEarned asks of a probe that has n requests after this one and
\* what is left of the context.
Fair(p, n, left) ==
    /\ p.up \in BOOLEAN /\ p.certExpiry \in Expiries /\ p.left \in 0..left
    /\ \/ p.up
       \/ p.attempts = Attempts /\ left - p.left >= n * Spacing
       \/ p.left = 0 /\ left < (n + 1) * Timeout + n * Spacing

\* A request ends within its timeout and within the context.
LEMMA RequestEnds ==
    ASSUME NEW left \in 0..Budget, NEW cert \in Expiries,
           NEW f \in Failures(left, cert)
    PROVE  f[1] \in 0..left /\ f[1] >= left - Timeout /\ f[2] \in Expiries
<1>. USE SupervisionAssumption
<1>1. ASSUME NEW l \in After(left) PROVE l \in 0..left /\ l >= left - Timeout
    BY <1>1 DEF After
<1>2. CASE f \in Answers(left, cert)
  <2>1. PICK r \in After(left) \X Certs :
            f = <<r[1], IF r[2] = None THEN cert ELSE r[2]>>
      BY <1>2 DEF Answers
  <2>. QED
      BY <1>1, <2>1 DEF Expiries
<1>3. CASE f \in After(left) \X {cert}
    BY <1>1, <1>3
<1>. QED
    BY <1>2, <1>3 DEF Failures

\* One request more is one timeout and one pause more.
LEMMA OneMore ==
    ASSUME NEW n \in Nat, NEW a \in Nat, n > 0
    PROVE  /\ n - 1 \in Nat /\ n * a = (n - 1) * a + a /\ (n - 1) * a \in Nat
           /\ (n + 1) * a = n * a + a /\ n * a \in Nat /\ n * a >= a
OBVIOUS

\* If the requests after it are fair, request i is.
LEMMA RequestIsFair ==
    ASSUME NEW i \in 1..Attempts, NEW next,
           i # Attempts =>
             \A l \in 0..Budget, c \in Expiries :
               \A r \in next[l][c] : Fair(r, Attempts - (i + 1), l),
           NEW left \in 0..Budget, NEW cert \in Expiries,
           NEW p \in Request(i, next)[left][cert]
    PROVE  Fair(p, Attempts - i, left)
<1>. USE SupervisionAssumption
<1>. DEFINE n == Attempts - i
<1>0. n \in Nat /\ (n = 0 <=> i = Attempts) /\ Attempts - (i + 1) = n - 1
    BY DEF n
<1>1. \/ \E a \in Answers(left, cert) : p = Result(TRUE, i, a[1], a[2])
      \/ \E f \in Failures(left, cert) :
            IF i = Attempts THEN p = Result(FALSE, i, f[1], f[2])
            ELSE \/ \E l \in Pause(f[1]) : p \in next[l][f[2]]
                 \/ Cut(f[1]) /\ p = Result(FALSE, i, 0, f[2])
  <2>. DEFINE Fails(f) ==
        IF i = Attempts THEN {Result(FALSE, i, f[1], f[2])}
        ELSE (UNION {next[l][f[2]] : l \in Pause(f[1])})
             \cup (IF Cut(f[1]) THEN {Result(FALSE, i, 0, f[2])} ELSE {})
  <2>1. Request(i, next)[left][cert] =
            {Result(TRUE, i, a[1], a[2]) : a \in Answers(left, cert)}
            \cup UNION {Fails(f) : f \in Failures(left, cert)}
      BY DEF Request, Expiries
  <2>. HIDE DEF Fails
  <2>2. \/ \E a \in Answers(left, cert) : p = Result(TRUE, i, a[1], a[2])
        \/ \E f \in Failures(left, cert) : p \in Fails(f)
      BY <2>1
  <2>3. ASSUME NEW f, p \in Fails(f)
        PROVE  IF i = Attempts THEN p = Result(FALSE, i, f[1], f[2])
               ELSE \/ \E l \in Pause(f[1]) : p \in next[l][f[2]]
                    \/ Cut(f[1]) /\ p = Result(FALSE, i, 0, f[2])
      BY <2>3 DEF Fails
  <2>. QED
      BY <2>2, <2>3
<1>. HIDE DEF n
<1>2. ASSUME NEW a \in Answers(left, cert), p = Result(TRUE, i, a[1], a[2])
      PROVE  Fair(p, n, left)
  <2>1. a \in Failures(left, cert)
      BY DEF Failures
  <2>. QED
      BY <1>2, <2>1, RequestEnds DEF Result, Fair
<1>3. ASSUME NEW f \in Failures(left, cert), i = Attempts,
             p = Result(FALSE, i, f[1], f[2])
      PROVE  Fair(p, n, left)
  <2>1. n * Spacing = 0
      BY <1>0, <1>3
  <2>. QED
      BY <1>3, <2>1, RequestEnds DEF Result, Fair
<1>4. ASSUME NEW f \in Failures(left, cert), i # Attempts, Cut(f[1]),
             p = Result(FALSE, i, 0, f[2])
      PROVE  Fair(p, n, left)
  <2>1. f[1] \in 0..left /\ f[1] >= left - Timeout /\ f[2] \in Expiries
      BY RequestEnds
  <2>2. /\ (n + 1) * Timeout = n * Timeout + Timeout /\ n * Timeout >= Timeout
        /\ n * Spacing >= Spacing /\ n * Timeout \in Nat /\ n * Spacing \in Nat
      BY <1>0, <1>4, OneMore
  <2>3. left < (n + 1) * Timeout + n * Spacing
      BY <1>4, <2>1, <2>2 DEF Cut
  <2>. QED
      BY <1>4, <2>1, <2>3 DEF Result, Fair
<1>5. ASSUME NEW f \in Failures(left, cert), i # Attempts,
             NEW l \in Pause(f[1]), p \in next[l][f[2]]
      PROVE  Fair(p, n, left)
  <2>1. f[1] \in 0..left /\ f[1] >= left - Timeout /\ f[2] \in Expiries
      BY RequestEnds
  <2>2. l = f[1] - Spacing /\ l \in 0..Budget /\ l <= left
      BY <1>5, <2>1 DEF Pause
  <2>3. Fair(p, n - 1, l)
      BY <1>0, <1>5, <2>1, <2>2
  <2>4. /\ n - 1 \in Nat /\ (n - 1) + 1 = n
        /\ (n + 1) * Timeout = n * Timeout + Timeout /\ n * Timeout \in Nat
        /\ n * Spacing = (n - 1) * Spacing + Spacing
        /\ (n - 1) * Spacing \in Nat
      BY <1>0, <1>5, OneMore
  <2>5. p.up \in BOOLEAN /\ p.certExpiry \in Expiries /\ p.left \in 0..left
      BY <2>2, <2>3 DEF Fair
  <2>6. CASE p.up
      BY <2>5, <2>6 DEF Fair
  <2>7. CASE p.attempts = Attempts /\ l - p.left >= (n - 1) * Spacing
    <3>1. left - p.left >= n * Spacing
        BY <2>1, <2>2, <2>4, <2>5, <2>7
    <3>. QED
        BY <2>5, <2>7, <3>1 DEF Fair
  <2>8. CASE p.left = 0 /\ l < n * Timeout + (n - 1) * Spacing
    <3>1. left < (n + 1) * Timeout + n * Spacing
        BY <2>1, <2>2, <2>4, <2>8
    <3>. QED
        BY <2>5, <2>8, <3>1 DEF Fair
  <2>. QED
      BY <2>3, <2>4, <2>6, <2>7, <2>8 DEF Fair
<1>. QED
    BY <1>1, <1>2, <1>3, <1>4, <1>5 DEF n

\* So they all are, from the last one back.
LEMMA ProbeIsFair ==
    ASSUME NEW left \in 0..Budget, NEW p \in ProbeFrom[1][left][None]
    PROVE  Fair(p, Attempts - 1, left)
<1>. DEFINE N == Attempts
            Good(i) == \A l \in 0..Budget, c \in Expiries :
                        \A r \in ProbeFrom[i][l][c] : Fair(r, N - i, l)
            S == {n \in Nat : n < N => Good(N - n)}
<1>0. N \in Nat \ {0}
    BY SupervisionAssumption
<1>1. ASSUME NEW i \in 1..N, i # N => Good(i + 1) PROVE Good(i)
  <2>. DEFINE next == IF i = N THEN None ELSE ProbeFrom[i + 1]
  <2>1. ProbeFrom[i] = Request(i, next)
      BY ProbeFromDef DEF From
  <2>2. i # N => \A l \in 0..Budget, c \in Expiries :
                    \A r \in next[l][c] : Fair(r, N - (i + 1), l)
      BY <1>1
  <2>. HIDE DEF next
  <2>3. ASSUME NEW l \in 0..Budget, NEW c \in Expiries,
               NEW r \in Request(i, next)[l][c]
        PROVE  Fair(r, N - i, l)
      BY <2>2, RequestIsFair
  <2>. QED
      BY <2>1, <2>3
<1>. HIDE DEF N, Good
<1>2. 0 \in S
  <2>1. N \in 1..N /\ N - 0 = N
      BY <1>0
  <2>. QED
      BY <1>1, <2>1
<1>3. ASSUME NEW n \in S PROVE n + 1 \in S
  <2>. SUFFICES ASSUME n + 1 < N PROVE Good(N - (n + 1))
      OBVIOUS
  <2>1. N - (n + 1) \in 1..N /\ (N - (n + 1)) + 1 = N - n /\ n < N
      BY <1>0
  <2>2. Good(N - n)
      BY <2>1
  <2>. QED
      BY <1>1, <2>1, <2>2
<1>4. S = Nat
  <2>1. S \in SUBSET Nat
      OBVIOUS
  <2>. HIDE DEF S
  <2>. QED
      BY <1>2, <1>3, <2>1, Induction
<1>5. Good(1)
  <2>1. N - 1 \in S /\ N - (N - 1) = 1 /\ N - 1 < N
    <3>. HIDE DEF S
    <3>. QED
        BY <1>0, <1>4
  <2>. QED
      BY <2>1
<1>. QED
    BY <1>5 DEF Good, Expiries, N

\* The results collectOne may record: all of them earned.
LEMMA FindingsEarned ==
    ASSUME NEW f \in Findings
    PROVE  f.up \in BOOLEAN /\ f.certExpiry \in Expiries /\ f.earned = TRUE
<1>a. PICK left \in 0..Budget, stop \in BOOLEAN, parsed \in BOOLEAN :
        \E p \in ProbeHTTP(left, stop, parsed) :
            f = Finding(p, left, stop, parsed)
    BY DEF Findings
<1>0. PICK p \in ProbeHTTP(left, stop, parsed) :
        f = Finding(p, left, stop, parsed)
    BY <1>a
<1>. DEFINE Earned == \/ p.up
                      \/ p.attempts = Attempts /\ left - p.left >= Spaced
                      \/ p.left = 0 /\ left < Room
                      \/ stop \/ ~ parsed
<1>1. CASE parsed /\ p \in ProbeFrom[1][left][None]
  <2>1. Fair(p, Attempts - 1, left)
      BY <1>1, ProbeIsFair
  <2>2. Spaced = (Attempts - 1) * Spacing
        /\ Room = ((Attempts - 1) + 1) * Timeout + (Attempts - 1) * Spacing
      BY SupervisionAssumption DEF Spaced, Room
  <2>3. p.up \in BOOLEAN /\ p.certExpiry \in Expiries
      BY <2>1 DEF Fair
  <2>4. Earned
      BY <2>1, <2>2 DEF Fair
  <2>. QED
      BY <1>0, <2>3, <2>4 DEF Finding
<1>2. CASE parsed /\ p \notin ProbeFrom[1][left][None]
  <2>1. stop /\ p \in Cancelled(left)
      BY <1>2 DEF ProbeHTTP
  <2>2. p.up = FALSE /\ p.certExpiry \in Expiries
      BY <2>1 DEF Cancelled, Result, Expiries
  <2>. QED
      BY <1>0, <2>1, <2>2 DEF Finding
<1>3. CASE ~ parsed
  <2>1. p.up = FALSE /\ p.certExpiry \in Expiries
      BY <1>3 DEF ProbeHTTP, Result, Expiries
  <2>. QED
      BY <1>0, <1>3, <2>1 DEF Finding
<1>. QED
    BY <1>1, <1>2, <1>3

-----------------------------------------------------------------------------
(* The alerts.                                                             *)

\* A group of at most one alert is finite.
LEMMA WhenFinite ==
    ASSUME NEW c, NEW a
    PROVE  IsFiniteSet(When(c, a))
BY FS_EmptySet, FS_Singleton DEF When

\* So is one alert per name.
LEMMA NamesFinite ==
    ASSUME NEW S, IsFiniteSet(S), NEW level, NEW subject
    PROVE  IsFiniteSet({<<level, subject, x>> : x \in S})
<1>. DEFINE T == {<<level, subject, x>> : x \in S}
            f == [x \in S |-> <<level, subject, x>>]
<1>1. f \in Surjection(S, T)
    BY DEF Surjection
<1>. QED
    BY <1>1, FS_Surjection

\* Whatever is in the report, the alerts are finitely many.
LEMMA HealthFinite ==
    ASSUME NEW h, NEW d
    PROVE  IsFiniteSet(HealthAlerts(h, d))
<1>1. ASSUME NEW what, NEW c PROVE IsFiniteSet(CheckAlerts(what, c))
  <2>1. CheckAlerts(what, c) = {} \/ \E a : CheckAlerts(what, c) = {a}
    <3>. DEFINE kind == CheckKind(c.kind, c.msg)
    <3>. HIDE DEF kind
    <3>. QED
        BY DEF CheckAlerts, kind
  <2>2. CASE CheckAlerts(what, c) = {}
      BY <2>2, FS_EmptySet, Zenon
  <2>3. ASSUME NEW a, CheckAlerts(what, c) = {a}
        PROVE  IsFiniteSet(CheckAlerts(what, c))
    <3>1. IsFiniteSet({a})
        BY FS_Singleton
    <3>. QED
        BY <2>3, <3>1, Zenon
  <2>. QED
      BY <2>1, <2>2, <2>3, Zenon
<1>2. IsFiniteSet(CapacityAlerts(h))
  <2>. DEFINE C == {f \in Mounts : h.pct[f] >= 92}
              W == {f \in Mounts : h.pct[f] \in 85..91}
  <2>1. C \in SUBSET Mounts /\ W \in SUBSET Mounts
      OBVIOUS
  <2>. HIDE DEF C, W
  <2>2. IsFiniteSet({<<"crit", "disk", f>> : f \in C})
    <3>1. IsFiniteSet(C)
        BY <2>1, SanteAssumption, FS_Subset
    <3>. QED
        BY <3>1, NamesFinite
  <2>3. IsFiniteSet({<<"warn", "disk", f>> : f \in W})
    <3>1. IsFiniteSet(W)
        BY <2>1, SanteAssumption, FS_Subset
    <3>. QED
        BY <3>1, NamesFinite
  <2>4. CapacityAlerts(h) =
            {<<"crit", "disk", f>> : f \in C} \cup {<<"warn", "disk", f>> : f \in W}
            \cup When(h.memTotal > 0 /\ h.memAvailable * 10 < h.memTotal,
                      <<"warn", "memory">>)
      BY Zenon DEF CapacityAlerts, C, W
  <2>. QED
      BY <2>2, <2>3, <2>4, WhenFinite, FS_Union
<1>3. IsFiniteSet(UpgradeAlerts(h, d))
    BY WhenFinite, FS_Singleton DEF UpgradeAlerts
<1>4. IsFiniteSet(EolAlerts(h, d))
    BY WhenFinite, FS_EmptySet, FS_Union DEF EolAlerts
<1>5. IsFiniteSet(SystemAlerts(h, d))
    BY <1>3, <1>4, WhenFinite, FS_Union DEF SystemAlerts
<1>6. IsFiniteSet({<<"crit", "timer", t>> : t \in {t \in Timers : ~ h.active[t]}})
  <2>. DEFINE I == {t \in Timers : ~ h.active[t]}
  <2>1. I \in SUBSET Timers
      OBVIOUS
  <2>. HIDE DEF I
  <2>2. IsFiniteSet(I)
      BY <2>1, SanteAssumption, FS_Subset
  <2>3. IsFiniteSet({<<"crit", "timer", t>> : t \in I})
      BY <2>2, NamesFinite
  <2>. QED
      BY <2>3, Zenon DEF I
<1>7. CASE h = None
    BY <1>7, FS_Singleton DEF HealthAlerts
<1>8. CASE h # None
    BY <1>1, <1>2, <1>5, <1>6, <1>8, WhenFinite, FS_Union DEF HealthAlerts
<1>. QED
    BY <1>7, <1>8

\* And those of a row and of a probe.
LEMMA OthersFinite ==
    ASSUME NEW v, NEW q, NEW d
    PROVE  IsFiniteSet(BackupAlerts(v)) /\ IsFiniteSet(ProbeAlerts(q, d))
BY WhenFinite, FS_Union, FS_EmptySet DEF BackupAlerts, ProbeAlerts

Grades == {"crit", "warn"}
Graded(a) == a[1] \in Grades

BackupSubjects == {"backup late", "no backup", "host unreachable"}
ProbeSubjects == {"site down", "certificate"}
Subjects == {"no health report", "never checked", "memory", "security fixes",
             "no upgrade", "end of support", "failed units", "out of memory",
             "i/o errors", "reboot required", "application down"}
Lists == {"check", "deep", "disk", "timer"}
Items == Timers \cup Mounts
         \cup {"locked", "not found", "password", "unknown cause", "corruption"}

\* A group of at most one alert is among the alerts it may give.
LEMMA WhenIn ==
    ASSUME NEW A, NEW c, NEW a \in A
    PROVE  When(c, a) \subseteq A
BY DEF When

\* What a row and a probe call for is known by its subject,
LEMMA OthersKinds ==
    ASSUME NEW v, NEW q, NEW d
    PROVE  /\ \A a \in BackupAlerts(v) : a[1] = "crit" /\ OfBackup(a)
           /\ \A a \in ProbeAlerts(q, d) :
                    a[1] = "crit" /\ OfProbe(a) /\ ~OfBackup(a)
<1>. DEFINE B == {"crit"} \X BackupSubjects
            P == {"crit"} \X ProbeSubjects
<1>1. /\ <<"crit", "backup late">> \in B /\ <<"crit", "no backup">> \in B
      /\ <<"crit", "host unreachable">> \in B
    BY DEF BackupSubjects
<1>2. <<"crit", "site down">> \in P /\ <<"crit", "certificate">> \in P
    BY DEF ProbeSubjects
<1>3. \A a \in B : a[1] = "crit" /\ OfBackup(a)
    BY DEF OfBackup, BackupSubjects
<1>4. \A a \in P : a[1] = "crit" /\ OfProbe(a) /\ ~OfBackup(a)
  <2>1. \A a \in P : a[1] = "crit" /\ a[2] \in ProbeSubjects
      OBVIOUS
  <2>2. \A x \in ProbeSubjects : x \notin BackupSubjects
      BY DEF BackupSubjects, ProbeSubjects
  <2>. QED
      BY <2>1, <2>2 DEF OfProbe, OfBackup, BackupSubjects, ProbeSubjects
<1>. HIDE DEF B, P
<1>5. BackupAlerts(v) \subseteq B
    BY <1>1, WhenIn DEF BackupAlerts
<1>6. ProbeAlerts(q, d) \subseteq P
    BY <1>2, WhenIn DEF ProbeAlerts
<1>. QED
    BY <1>3, <1>4, <1>5, <1>6

\* and what a report calls for has another.
LEMMA HealthKinds ==
    ASSUME NEW h, NEW d, NEW a \in HealthAlerts(h, d)
    PROVE  Graded(a) /\ ~OfBackup(a) /\ ~OfProbe(a)
<1>. DEFINE A == (Grades \X Subjects) \cup (Grades \X Lists \X Items)
<1>1. ASSUME NEW x \in A PROVE Graded(x) /\ ~OfBackup(x) /\ ~OfProbe(x)
  <2>1. x[1] \in Grades /\ x[2] \in Subjects \cup Lists
      BY <1>1
  <2>2. \A y \in Subjects \cup Lists : y \notin BackupSubjects \cup ProbeSubjects
      BY DEF Subjects, Lists, BackupSubjects, ProbeSubjects
  <2>. QED
      BY <2>1, <2>2
         DEF Graded, OfBackup, OfProbe, BackupSubjects, ProbeSubjects
<1>2. ASSUME NEW l \in Grades, NEW y \in Subjects PROVE <<l, y>> \in A
    OBVIOUS
<1>3. ASSUME NEW l \in Grades, NEW y \in Lists, NEW z \in Items
      PROVE  <<l, y, z>> \in A
    OBVIOUS
<1>. HIDE DEF A
<1>4. ASSUME NEW what \in {"check", "deep"}, NEW c
      PROVE  CheckAlerts(what, c) \subseteq A
  <2>. DEFINE kind == CheckKind(c.kind, c.msg)
  <2>1. /\ <<"warn", what, "locked">> \in A /\ <<"crit", what, "not found">> \in A
        /\ <<"crit", what, "password">> \in A
        /\ <<"warn", what, "unknown cause">> \in A
        /\ <<"crit", what, "corruption">> \in A
      BY <1>3 DEF Grades, Lists, Items
  <2>. HIDE DEF kind
  <2>. QED
      BY <2>1 DEF CheckAlerts, kind
<1>5. CapacityAlerts(h) \subseteq A
  <2>1. \A f \in Mounts : <<"crit", "disk", f>> \in A /\ <<"warn", "disk", f>> \in A
      BY <1>3 DEF Grades, Lists, Items
  <2>2. <<"warn", "memory">> \in A
      BY <1>2 DEF Grades, Subjects
  <2>3. When(h.memTotal > 0 /\ h.memAvailable * 10 < h.memTotal,
             <<"warn", "memory">>) \subseteq A
      BY <2>2, WhenIn
  <2>. QED
      BY <2>1, <2>3 DEF CapacityAlerts
<1>6. UpgradeAlerts(h, d) \subseteq A
  <2>1. /\ <<"crit", "security fixes">> \in A /\ <<"warn", "security fixes">> \in A
        /\ <<"warn", "no upgrade">> \in A
      BY <1>2 DEF Grades, Subjects
  <2>. QED
      BY <2>1, WhenIn DEF UpgradeAlerts
<1>7. EolAlerts(h, d) \subseteq A
  <2>1. <<"crit", "end of support">> \in A /\ <<"warn", "end of support">> \in A
      BY <1>2 DEF Grades, Subjects
  <2>. QED
      BY <2>1, WhenIn DEF EolAlerts
<1>8. SystemAlerts(h, d) \subseteq A
  <2>1. /\ <<"crit", "failed units">> \in A /\ <<"warn", "out of memory">> \in A
        /\ <<"crit", "i/o errors">> \in A /\ <<"warn", "reboot required">> \in A
      BY <1>2 DEF Grades, Subjects
  <2>. QED
      BY <1>6, <1>7, <2>1, WhenIn DEF SystemAlerts
<1>9. HealthAlerts(h, d) \subseteq A
  <2>1. /\ <<"warn", "no health report">> \in A /\ <<"warn", "never checked">> \in A
        /\ <<"crit", "application down">> \in A
      BY <1>2 DEF Grades, Subjects
  <2>2. \A t \in Timers : <<"crit", "timer", t>> \in A
      BY <1>3 DEF Grades, Lists, Items
  <2>3. CASE h = None
      BY <2>1, <2>3 DEF HealthAlerts
  <2>4. CASE h # None
    <3>1. CheckAlerts("check", h.check) \subseteq A
        BY <1>4
    <3>2. CheckAlerts("deep", h.deep) \subseteq A
        BY <1>4
    <3>3. When(h.check.at = 0, <<"warn", "never checked">>) \subseteq A
        BY <2>1, WhenIn
    <3>4. {<<"crit", "timer", t>> : t \in {t \in Timers : ~ h.active[t]}} \subseteq A
        BY <2>2
    <3>5. When(h.localUp = FALSE, <<"crit", "application down">>) \subseteq A
        BY <2>1, WhenIn
    <3>6. \A x : x \in HealthAlerts(h, d) <=>
            \/ x \in CheckAlerts("check", h.check)
            \/ x \in CheckAlerts("deep", h.deep)
            \/ x \in When(h.check.at = 0, <<"warn", "never checked">>)
            \/ x \in {<<"crit", "timer", t>> : t \in {t \in Timers : ~ h.active[t]}}
            \/ x \in CapacityAlerts(h)
            \/ x \in SystemAlerts(h, d)
            \/ x \in When(h.localUp = FALSE, <<"crit", "application down">>)
        BY <2>4, Zenon DEF HealthAlerts
    <3>. QED
        BY <1>5, <1>8, <3>1, <3>2, <3>3, <3>4, <3>5, <3>6, Zenon
  <2>. QED
      BY <2>3, <2>4
<1>. QED
    BY <1>1, <1>9

\* State is the level of the worst alert.
LEMMA StateIsWorst ==
    ASSUME NEW A, IsFiniteSet(A)
    PROVE  State(A) = IF \E a \in A : a[1] = "crit" THEN "crit"
                      ELSE IF \E a \in A : a[1] = "warn" THEN "warn" ELSE "ok"
<1>1. ASSUME NEW level PROVE (Count(A, level) > 0) <=> \E a \in A : a[1] = level
  <2>. DEFINE L == {a \in A : a[1] = level}
  <2>1. L \in SUBSET A
      OBVIOUS
  <2>2. (L # {}) <=> \E a \in A : a[1] = level
      OBVIOUS
  <2>. HIDE DEF L
  <2>3. IsFiniteSet(L)
      BY <2>1, FS_Subset
  <2>4. Cardinality(L) \in Nat /\ (Cardinality(L) = 0 <=> L = {})
      BY <2>3, FS_CardinalityType, FS_EmptySet
  <2>5. Count(A, level) = Cardinality(L)
      BY DEF Count, L
  <2>. QED
      BY <2>2, <2>4, <2>5
<1>. QED
    BY <1>1 DEF State

\* Alerts that are matched by others, each by one as bad, make no worse state.
LEMMA MatchedIsNoWorse ==
    ASSUME NEW A, NEW B, IsFiniteSet(A), IsFiniteSet(B),
           \A a \in A : Graded(a), \A b \in B : Graded(b),
           \A a \in A : \E b \in B : AsBad(a, b)
    PROVE  Rank[State(B)] >= Rank[State(A)]
<1>0. /\ Rank["ok"] = 1 /\ Rank["warn"] = 2 /\ Rank["crit"] = 3
    BY DEF Rank
<1>1. CASE \E a \in A : a[1] = "crit"
  <2>1. \E b \in B : b[1] = "crit"
      BY <1>0, <1>1 DEF AsBad, Graded, Grades
  <2>. QED
      BY <1>0, <1>1, <2>1, StateIsWorst
<1>2. CASE (~ \E a \in A : a[1] = "crit") /\ \E a \in A : a[1] = "warn"
  <2>1. \E b \in B : b[1] \in {"crit", "warn"}
      BY <1>2 DEF Graded, Grades
  <2>2. State(A) = "warn" /\ State(B) \in {"crit", "warn"}
      BY <1>2, <2>1, StateIsWorst
  <2>. QED
      BY <1>0, <2>2
<1>3. CASE ~ \E a \in A : a[1] \in {"crit", "warn"}
  <2>1. State(A) = "ok" /\ State(B) \in {"crit", "warn", "ok"}
      BY <1>3, StateIsWorst
  <2>. QED
      BY <1>0, <2>1
<1>. QED
    BY <1>1, <1>2, <1>3

-----------------------------------------------------------------------------
(* Time and the alerts.                                                    *)

\* The order of the three levels.
LEMMA Ranks == Rank["ok"] = 1 /\ Rank["warn"] = 2 /\ Rank["crit"] = 3
BY DEF Rank

\* AsBad is transitive on the alerts.
LEMMA AsBadTrans ==
    ASSUME NEW a, NEW b, NEW c, Graded(a), Graded(b), Graded(c),
           AsBad(a, b), AsBad(b, c)
    PROVE  AsBad(a, c)
BY Ranks DEF AsBad, Graded, Grades

\* A day later an upgrade that waits is as bad or worse,
LEMMA UpgradeWorsens ==
    ASSUME NEW h, h.upgradedAt \in Nat, NEW d \in Int,
           NEW a \in UpgradeAlerts(h, d)
    PROVE  \E b \in UpgradeAlerts(h, d + 1) : AsBad(a, b)
<1>. DEFINE stale(n) == h.upgradedAt = 0 \/ n - h.upgradedAt > UpgradeStale
            grade(n) == IF stale(n) THEN "crit" ELSE "warn"
<1>0. stale(d) => stale(d + 1)
    BY SanteAssumption
<1>1. \A n : UpgradeAlerts(h, n) =
                IF h.security > 0 THEN {<<grade(n), "security fixes">>}
                ELSE When(stale(n) /\ h.upgradedAt > 0, <<"warn", "no upgrade">>)
    BY Zenon DEF UpgradeAlerts
<1>2. CASE h.security > 0
  <2>1. a = <<grade(d), "security fixes">>
      BY <1>1, <1>2
  <2>2. <<grade(d + 1), "security fixes">> \in UpgradeAlerts(h, d + 1)
      BY <1>1, <1>2
  <2>3. a[1] = grade(d) /\ <<grade(d + 1), "security fixes">>[1] = grade(d + 1)
      BY <2>1
  <2>4. Rank[grade(d + 1)] >= Rank[grade(d)]
      BY <1>0, Ranks
  <2>5. AsBad(a, <<grade(d + 1), "security fixes">>)
      BY <2>3, <2>4 DEF AsBad
  <2>. QED
      BY <2>2, <2>5
<1>3. CASE ~ (h.security > 0)
  <2>0. a \in When(stale(d) /\ h.upgradedAt > 0, <<"warn", "no upgrade">>)
      BY <1>1, <1>3
  <2>1. a = <<"warn", "no upgrade">> /\ stale(d) /\ h.upgradedAt > 0
      BY <2>0 DEF When
  <2>2. a \in UpgradeAlerts(h, d + 1)
      BY <1>0, <1>1, <1>3, <2>1 DEF When
  <2>3. a[1] = "warn"
      BY <2>1
  <2>4. AsBad(a, a)
      BY <2>3, Ranks DEF AsBad
  <2>. QED
      BY <2>2, <2>4
<1>. QED
    BY <1>2, <1>3

\* and so is the end of the support of the system.
LEMMA EolWorsens ==
    ASSUME NEW h, h.eol \in Int \cup {None}, NEW d \in Int,
           NEW a \in EolAlerts(h, d)
    PROVE  \E b \in EolAlerts(h, d + 1) : AsBad(a, b)
<1>. DEFINE crit == <<"crit", "end of support">>
            warn == <<"warn", "end of support">>
<1>0. AsBad(crit, crit) /\ AsBad(warn, crit) /\ AsBad(warn, warn)
    BY Ranks DEF AsBad
<1>. HIDE DEF crit, warn
<1>1. h.eol # None
    BY DEF EolAlerts
<1>2. \A n : EolAlerts(h, n) =
                When(h.eol - n < EolCrit, crit)
                \cup When(h.eol - n >= EolCrit /\ h.eol - n < EolWarn, warn)
    BY <1>1, Zenon DEF EolAlerts, crit, warn
<1>3. \/ a = crit /\ h.eol - d < EolCrit
      \/ a = warn /\ h.eol - d < EolWarn
    BY <1>2 DEF When
<1>4. h.eol - (d + 1) < EolCrit => crit \in EolAlerts(h, d + 1)
    BY <1>2 DEF When
<1>5. h.eol - (d + 1) >= EolCrit /\ h.eol - (d + 1) < EolWarn
      => warn \in EolAlerts(h, d + 1)
    BY <1>2 DEF When
<1>. QED
    BY <1>0, <1>1, <1>3, <1>4, <1>5, SanteAssumption

\* Nothing else in a report depends on the day.
LEMMA HealthWorsens ==
    ASSUME NEW h \in Reports \cup {None}, NEW d \in Int,
           NEW a \in HealthAlerts(h, d)
    PROVE  \E b \in HealthAlerts(h, d + 1) : AsBad(a, b)
<1>0. AsBad(a, a)
    BY HealthKinds, Ranks DEF Graded, Grades, AsBad
<1>1. CASE h = None
    BY <1>0, <1>1 DEF HealthAlerts
<1>2. CASE h # None
  <2>. DEFINE U == When(h.failedUnits > 0, <<"crit", "failed units">>)
                   \cup When(h.oom > 0, <<"warn", "out of memory">>)
                   \cup When(h.ioErrors > 0, <<"crit", "i/o errors">>)
                   \cup When(h.reboot, <<"warn", "reboot required">>)
              V == CheckAlerts("check", h.check) \cup CheckAlerts("deep", h.deep)
                   \cup When(h.check.at = 0, <<"warn", "never checked">>)
                   \cup {<<"crit", "timer", t>> :
                            t \in {t \in Timers : ~ h.active[t]}}
                   \cup CapacityAlerts(h)
              W == When(h.localUp = FALSE, <<"crit", "application down">>)
  <2>0. h.upgradedAt \in Nat /\ h.eol \in Int \cup {None}
      BY <1>2, SupervisionAssumption
  <2>1. ASSUME NEW n
        PROVE  HealthAlerts(h, n) = V \cup (U \cup UpgradeAlerts(h, n)
                                              \cup EolAlerts(h, n)) \cup W
      BY <1>2, Zenon DEF HealthAlerts, SystemAlerts
  <2>. HIDE DEF U, V, W
  <2>2. CASE a \in U \cup V \cup W
      BY <1>0, <2>1, <2>2
  <2>3. CASE a \in UpgradeAlerts(h, d)
      BY <2>0, <2>1, <2>3, UpgradeWorsens
  <2>4. CASE a \in EolAlerts(h, d)
      BY <2>0, <2>1, <2>4, EolWorsens
  <2>. QED
      BY <2>1, <2>2, <2>3, <2>4
<1>. QED
    BY <1>1, <1>2

\* A backup that is late stays late, a certificate that ends soon ends sooner.
LEMMA OthersWorsen ==
    ASSUME TypeOK, NEW d \in Int
    PROVE  /\ BackupAlerts(View(row, d)) \subseteq BackupAlerts(View(row, d + 1))
           /\ ProbeAlerts(probe, d) \subseteq ProbeAlerts(probe, d + 1)
<1>1. BackupAlerts(View(row, d)) \subseteq BackupAlerts(View(row, d + 1))
  <2>1. CASE row = None \/ ~ row.reachable \/ row.snapshotAt = None
    <3>1. View(row, d) = View(row, d + 1)
        BY <2>1 DEF View
    <3>. QED
        BY <3>1
  <2>2. CASE ~ (row = None \/ ~ row.reachable \/ row.snapshotAt = None)
    <3>1. row.snapshotAt \in Int
        BY <2>2 DEF TypeOK
    <3>2. /\ View(row, d) \in {"overdue", "ok"}
          /\ View(row, d) = "overdue" => View(row, d + 1) = "overdue"
        BY <2>2, <3>1, SanteAssumption DEF View
    <3>3. BackupAlerts("ok") = {}
        BY DEF BackupAlerts, When
    <3>. QED
        BY <3>2, <3>3
  <2>. QED
      BY <2>1, <2>2
<1>2. ProbeAlerts(probe, d) \subseteq ProbeAlerts(probe, d + 1)
  <2>1. CASE probe = None
      BY <2>1 DEF ProbeAlerts
  <2>2. CASE probe # None
    <3>1. probe.certExpiry \in Int \cup {None}
        BY <2>2, SupervisionAssumption DEF TypeOK
    <3>2. probe.certExpiry # None /\ probe.certExpiry - d < CertCrit
          => probe.certExpiry - (d + 1) < CertCrit
        BY <3>1, SanteAssumption
    <3>. QED
        BY <2>2, <3>2 DEF ProbeAlerts, When
  <2>. QED
      BY <2>1, <2>2
<1>. QED
    BY <1>1, <1>2

-----------------------------------------------------------------------------
(* The readings.                                                           *)

\* The alerts that stand, by where they come from.
LEMMA StandingKinds ==
    /\ \A a \in Standing :
        /\ Graded(a)
        /\ OfBackup(a) => a \in BackupAlerts(View(row, day))
        /\ OfProbe(a) => a \in ProbeAlerts(probe, day)
        /\ ~OfBackup(a) /\ ~OfProbe(a) => a \in HealthAlerts(health, day)
    /\ \A v, h, q, d :
        LET A == BackupAlerts(v) \cup HealthAlerts(h, d) \cup ProbeAlerts(q, d)
        IN  IsFiniteSet(A) /\ \A a \in A : Graded(a)
<1>1. \A v, h, q, d :
        LET A == BackupAlerts(v) \cup HealthAlerts(h, d) \cup ProbeAlerts(q, d)
        IN  IsFiniteSet(A) /\ \A a \in A : Graded(a)
  <2>. SUFFICES ASSUME NEW v, NEW h, NEW q, NEW d
       PROVE  /\ IsFiniteSet(BackupAlerts(v) \cup HealthAlerts(h, d)
                             \cup ProbeAlerts(q, d))
              /\ \A a \in BackupAlerts(v) \cup HealthAlerts(h, d)
                            \cup ProbeAlerts(q, d) : Graded(a)
      BY Zenon
  <2>1. IsFiniteSet(BackupAlerts(v) \cup HealthAlerts(h, d) \cup ProbeAlerts(q, d))
      BY HealthFinite, OthersFinite, FS_Union
  <2>2. \A a \in BackupAlerts(v) : Graded(a)
      BY OthersKinds DEF Graded, Grades
  <2>3. \A a \in ProbeAlerts(q, d) : Graded(a)
      BY OthersKinds DEF Graded, Grades
  <2>4. \A a \in HealthAlerts(h, d) : Graded(a)
      BY HealthKinds
  <2>. QED
      BY <2>1, <2>2, <2>3, <2>4
<1>2. ASSUME NEW a \in Standing
      PROVE  /\ OfBackup(a) => a \in BackupAlerts(View(row, day))
             /\ OfProbe(a) => a \in ProbeAlerts(probe, day)
             /\ ~OfBackup(a) /\ ~OfProbe(a) => a \in HealthAlerts(health, day)
  <2>1. \/ a \in BackupAlerts(View(row, day)) \/ a \in HealthAlerts(health, day)
        \/ a \in ProbeAlerts(probe, day)
      BY DEF Standing, Evaluate
  <2>2. a \in BackupAlerts(View(row, day)) => OfBackup(a) /\ ~OfProbe(a)
      BY OthersKinds DEF OfBackup, OfProbe
  <2>3. a \in ProbeAlerts(probe, day) => OfProbe(a) /\ ~OfBackup(a)
      BY OthersKinds
  <2>4. a \in HealthAlerts(health, day) => ~OfProbe(a) /\ ~OfBackup(a)
      BY HealthKinds
  <2>. QED
      BY <2>1, <2>2, <2>3, <2>4
<1>3. ASSUME NEW a \in Standing PROVE Graded(a)
    BY <1>1, Zenon DEF Standing, Evaluate
<1>. QED
    BY <1>1, <1>2, <1>3, Zenon

\* What is written, and the day that begins, while the reader is astride.
LEMMA WitnessKeeps ==
    ASSUME TypeOK, TypeOK', Shaped, ReadSoFar, Witness, UNCHANGED readVars,
           day' = day \/ day' = day + 1
    PROVE  ReadSoFar'
<1>. SUFFICES ASSUME at # "idle" PROVE ReadSoFar'
    BY DEF ReadSoFar, readVars
<1>0. /\ UNCHANGED <<at, fleet, seen, blind>> /\ day \in Int
      /\ always' = always \cap Standing'
      /\ ~moved' => ~moved /\ Standing' = Standing
  <2>1. UNCHANGED <<at, fleet, seen, blind>> /\ day \in Int
      BY DEF readVars, TypeOK
  <2>2. always' = always \cap Standing'
      BY DEF Witness
  <2>3. ~moved' => ~moved /\ Standing' = Standing
      BY Zenon DEF Witness
  <2>. QED
      BY <2>1, <2>2, <2>3
<1>1. always' \subseteq Standing'
    BY <1>0
<1>2. ~moved' => BackupAlerts(fleet)' \subseteq always'
  <2>. SUFFICES ASSUME ~moved' PROVE BackupAlerts(fleet) \subseteq always'
      BY <1>0 DEF BackupAlerts
  <2>1. BackupAlerts(fleet) \subseteq always /\ always \subseteq Standing
      BY <1>0 DEF ReadSoFar
  <2>. QED
      BY <1>0, <2>1
<1>3. /\ at \in {"health", "probe"} =>
            \A a \in always' : OfBackup(a) => a \in BackupAlerts(seen.view)
      /\ \A a \in always' : OfBackup(a) => a \in BackupAlerts(fleet)
    BY <1>0 DEF ReadSoFar
<1>4. ASSUME at = "probe", ~ blind, NEW a \in always', ~OfBackup(a), ~OfProbe(a)
      PROVE  \E b \in HealthAlerts(seen.health, day') : AsBad(a, b)
  <2>1. a \in always /\ a \in Standing
      BY <1>0 DEF ReadSoFar
  <2>2. PICK b \in HealthAlerts(seen.health, day) : AsBad(a, b)
      BY <1>4, <2>1 DEF ReadSoFar
  <2>3. CASE day' = day
      BY <2>2, <2>3
  <2>4. CASE day' = day + 1
    <3>1. seen.health \in Reports \cup {None}
        BY <1>4 DEF Shaped, Reading
    <3>2. PICK c \in HealthAlerts(seen.health, day + 1) : AsBad(b, c)
        BY <1>0, <3>1, HealthWorsens
    <3>3. Graded(a) /\ Graded(b) /\ Graded(c)
        BY <2>1, StandingKinds, HealthKinds
    <3>. QED
        BY <2>2, <2>4, <3>2, <3>3, AsBadTrans
  <2>. QED
      BY <2>3, <2>4
<1>5. /\ BackupAlerts(seen.view)' = BackupAlerts(seen.view)
      /\ BackupAlerts(fleet)' = BackupAlerts(fleet)
      /\ HealthAlerts(seen.health, day)' = HealthAlerts(seen.health, day')
    BY <1>0
<1>6. at' = "probe" /\ ~ blind' =>
        \A a \in always' : ~OfBackup(a) /\ ~OfProbe(a) =>
            \E b \in HealthAlerts(seen.health, day') : AsBad(a, b)
    BY <1>0, <1>4
<1>. QED
    BY <1>0, <1>1, <1>2, <1>3, <1>5, <1>6 DEF ReadSoFar

-----------------------------------------------------------------------------
(* The inductive invariant.                                                *)

\* What Evaluate makes of a report is a view.
LEMMA ViewIn ==
    ASSUME NEW r, NEW d
    PROVE  View(r, d) \in Views
BY DEF View, Views

\* The rows, the views and the readings are never None.
LEMMA NotNone ==
    /\ \A c \in Check : c # None
    /\ \A v \in Views : v # None
    /\ \A x \in Reading : x # None
BY SupervisionAssumption

\* The base is empty and nobody reads.
LEMMA InitIInv == Init => IInv
<1>. SUFFICES ASSUME Init PROVE IInv
    OBVIOUS
<1>1. TypeOK
  <2>1. /\ moved \in BOOLEAN /\ earned \in BOOLEAN /\ blind \in BOOLEAN
        /\ stopping \in BOOLEAN /\ usable \in BOOLEAN
      BY Zenon DEF Init
  <2>2. /\ day \in 1..MaxDay
        /\ row = None /\ health = None /\ probe = None /\ pc = "idle"
        /\ chk = None /\ at = "idle" /\ fleet = None /\ seen = None
      BY SupervisionAssumption DEF Init
  <2>. QED
      BY <2>1, <2>2 DEF TypeOK
<1>2. Shaped /\ ReadSoFar /\ DownIsEarned
    BY DEF Init, Shaped, ReadSoFar, DownIsEarned
<1>. QED
    BY <1>1, <1>2 DEF IInv

\* Nothing the reader looks at has changed.
LEMMA StillRead ==
    ASSUME ReadSoFar, UNCHANGED <<day, dbVars, readVars, always, moved>>
    PROVE  ReadSoFar'
BY DEF ReadSoFar, Standing, dbVars, readVars

\* The day changes every date at once: the alerts read so far can only have
\* grown worse in the meantime.
LEMMA DayPassesIInv == IInv /\ DayPasses => IInv'
<1>. SUFFICES ASSUME IInv, DayPasses PROVE IInv'
    OBVIOUS
<1>0. /\ TypeOK /\ Shaped /\ ReadSoFar /\ DownIsEarned
      /\ day' = day + 1 /\ day' \in 1..MaxDay /\ 1..day \subseteq 1..day'
    BY SupervisionAssumption DEF IInv, DayPasses, TypeOK
<1>1. moved' \in BOOLEAN
    BY DEF DayPasses, Witness
<1>2. TypeOK'
    BY <1>0, <1>1 DEF DayPasses, TypeOK, dbVars, workVars, procVars, readVars
<1>3. Shaped'
    BY <1>0 DEF DayPasses, Shaped, dbVars, workVars, readVars
<1>4. ReadSoFar'
    BY <1>0, <1>2, WitnessKeeps DEF DayPasses
<1>5. DownIsEarned'
    BY <1>0 DEF DayPasses, DownIsEarned, workVars
<1>. QED
    BY <1>2, <1>3, <1>4, <1>5 DEF IInv

\* The steps of collectOne that write nothing the reader reads.
LEMMA WorkIInv ==
    IInv /\ (\/ Start \/ StatusOK \/ StatusFails \/ HealthFails
             \/ ProbeUnsaved \/ RecordFails) => IInv'
<1>. SUFFICES ASSUME IInv, \/ Start \/ StatusOK \/ StatusFails \/ HealthFails
                           \/ ProbeUnsaved \/ RecordFails
     PROVE  IInv'
    OBVIOUS
<1>0. /\ TypeOK /\ Shaped /\ ReadSoFar /\ DownIsEarned
      /\ UNCHANGED <<day, dbVars, earned, procVars, readVars, always, moved>>
    BY DEF IInv, Start, StatusOK, StatusFails, HealthFails, ProbeUnsaved,
       RecordFails
<1>1. /\ pc' \in {"idle", "status", "health", "probe", "record"}
      /\ (chk' # None) = (pc' \notin {"idle", "status"})
      /\ chk' # None => chk'.reachable \in BOOLEAN
                        /\ chk'.snapshotAt \in 1..day \cup {None}
  <2>1. CASE Start
      BY <1>0, <2>1 DEF Start, TypeOK, Shaped
  <2>2. CASE StatusOK
    <3>1. PICK d \in 1..day : chk' = [reachable |-> TRUE, snapshotAt |-> d]
        BY <2>2 DEF StatusOK
    <3>2. chk' \in Check
        BY <1>0, <3>1 DEF Check, TypeOK
    <3>. QED
        BY <2>2, <3>1, <3>2, NotNone DEF StatusOK
  <2>3. CASE StatusFails
    <3>1. chk' \in Check
        BY <2>3 DEF StatusFails, Check
    <3>. QED
        BY <2>3, <3>1, NotNone DEF StatusFails
  <2>4. CASE HealthFails
      BY <1>0, <2>4 DEF HealthFails, TypeOK, Shaped
  <2>5. CASE ProbeUnsaved
      BY <1>0, <2>5 DEF ProbeUnsaved, TypeOK, Shaped
  <2>6. CASE RecordFails
      BY <1>0, <2>6 DEF RecordFails
  <2>. QED
      BY <2>1, <2>2, <2>3, <2>4, <2>5, <2>6
<1>2. TypeOK'
    BY <1>0, <1>1 DEF TypeOK, dbVars, procVars, readVars
<1>3. Shaped'
    BY <1>0, <1>1 DEF Shaped, dbVars, readVars
<1>4. ReadSoFar' /\ DownIsEarned'
    BY <1>0, StillRead DEF DownIsEarned
<1>. QED
    BY <1>2, <1>3, <1>4 DEF IInv

\* The steps that write the report, the probe or the row.
LEMMA WriteIInv == IInv /\ (HealthOK \/ ProbeSite \/ RecordCheck) => IInv'
<1>. SUFFICES ASSUME IInv, HealthOK \/ ProbeSite \/ RecordCheck PROVE IInv'
    OBVIOUS
<1>0. /\ TypeOK /\ Shaped /\ ReadSoFar /\ DownIsEarned
      /\ UNCHANGED <<day, readVars, stopping, usable>> /\ Witness
    BY DEF IInv, HealthOK, ProbeSite, RecordCheck, procVars
<1>1. moved' \in BOOLEAN
    BY <1>0 DEF Witness
<1>2. TypeOK' /\ Shaped' /\ DownIsEarned'
  <2>1. CASE HealthOK
    <3>1. UNCHANGED <<day, row, probe, chk, earned, at, fleet, seen, blind>>
          /\ pc = "health" /\ pc' = "probe" /\ health' \in Reports
        BY <2>1 DEF HealthOK, readVars
    <3>. QED
        BY <1>0, <1>1, <3>1 DEF TypeOK, Shaped, DownIsEarned
  <2>2. CASE ProbeSite
    <3>1. PICK f \in Findings :
                /\ probe' = [up |-> f.up, certExpiry |-> f.certExpiry]
                /\ earned' = (earned /\ f.earned)
        BY <2>2, Zenon DEF ProbeSite
    <3>2. f.up \in BOOLEAN /\ f.certExpiry \in Certs \cup {None}
        BY FindingsEarned DEF Expiries
    <3>3. earned' = TRUE
      <4>1. f.earned = TRUE /\ earned = TRUE
          BY <1>0, FindingsEarned DEF DownIsEarned, TypeOK
      <4>. QED
          BY <3>1, <4>1, Zenon
    <3>4. /\ probe'.up \in BOOLEAN
          /\ probe'.certExpiry \in Certs \cup {None}
        BY <3>1, <3>2
    <3>5. UNCHANGED <<day, row, health, chk, at, fleet, seen, blind>>
          /\ pc = "probe" /\ pc' = "record"
        BY <2>2 DEF ProbeSite, readVars
    <3>. QED
        BY <1>0, <1>1, <3>3, <3>4, <3>5 DEF TypeOK, Shaped, DownIsEarned
  <2>3. CASE RecordCheck
    <3>1. /\ UNCHANGED <<day, health, probe, earned, at, fleet, seen, blind>>
          /\ pc = "record" /\ pc' = "idle" /\ row' = chk /\ chk' = None
        BY <2>3 DEF RecordCheck, readVars
    <3>. QED
        BY <1>0, <1>1, <3>1 DEF TypeOK, Shaped, DownIsEarned
  <2>. QED
      BY <2>1, <2>2, <2>3
<1>3. ReadSoFar'
    BY <1>0, <1>2, WitnessKeeps
<1>. QED
    BY <1>2, <1>3 DEF IInv

\* The context is cancelled, and the process starts again.
LEMMA ProcessIInv == IInv /\ (Stop \/ Restart) => IInv'
<1>. SUFFICES ASSUME IInv, Stop \/ Restart PROVE IInv'
    OBVIOUS
<1>0. /\ TypeOK /\ Shaped /\ ReadSoFar /\ DownIsEarned
      /\ UNCHANGED <<day, row, health, probe, earned>>
    BY DEF IInv, Stop, Restart, dbVars, workVars
<1>1. CASE Stop
  <2>1. /\ UNCHANGED <<pc, chk, usable, at, fleet, seen, blind, moved>>
        /\ UNCHANGED <<day, dbVars, readVars, always, moved>>
      BY <1>1 DEF Stop, workVars, readVars
  <2>2. stopping' \in BOOLEAN
      BY <1>1, Zenon DEF Stop
  <2>3. TypeOK'
      BY <1>0, <2>1, <2>2 DEF TypeOK
  <2>4. Shaped' /\ ReadSoFar' /\ DownIsEarned'
      BY <1>0, <2>1, StillRead DEF Shaped, DownIsEarned
  <2>. QED
      BY <2>3, <2>4 DEF IInv
<1>2. CASE Restart
  <2>1. /\ pc' = "idle" /\ chk' = None /\ at' = "idle" /\ fleet' = None
        /\ seen' = None
      BY <1>2 DEF Restart
  <2>2. /\ stopping' \in BOOLEAN /\ usable' \in BOOLEAN /\ blind' \in BOOLEAN
        /\ moved' \in BOOLEAN
      BY <1>2, Zenon DEF Restart
  <2>3. TypeOK'
      BY <1>0, <2>1, <2>2 DEF TypeOK
  <2>4. Shaped' /\ ReadSoFar' /\ DownIsEarned'
      BY <1>0, <2>1 DEF Shaped, ReadSoFar, DownIsEarned
  <2>. QED
      BY <2>3, <2>4 DEF IInv
<1>. QED
    BY <1>1, <1>2

\* The steps of the reader.
LEMMA ReadIInv ==
    IInv /\ (ReadFleet \/ ReadRow \/ ReadRowFails \/ ReadHealth \/ Page) => IInv'
<1>. SUFFICES ASSUME IInv, \/ ReadFleet \/ ReadRow \/ ReadRowFails
                           \/ ReadHealth \/ Page
     PROVE  IInv'
    OBVIOUS
<1>0. /\ TypeOK /\ Shaped /\ ReadSoFar /\ DownIsEarned
      /\ UNCHANGED <<day, row, health, probe, pc, chk, earned, stopping, usable>>
    BY DEF IInv, ReadFleet, ReadRow, ReadRowFails, ReadHealth, Page, dbVars,
       workVars, procVars
<1>1. DownIsEarned' /\ Standing' = Standing
    BY <1>0 DEF DownIsEarned, Standing
<1>2. CASE ReadFleet
  <2>1. /\ at' = "row" /\ fleet' = View(row, day) /\ UNCHANGED <<seen, blind>>
        /\ at = "idle" /\ always' = Standing /\ moved' = FALSE
      BY <1>2 DEF ReadFleet
  <2>2. fleet' \in Views /\ fleet' # None
      BY <2>1, ViewIn, NotNone
  <2>3. TypeOK'
    <3>1. moved' \in BOOLEAN
        BY <2>1, Zenon
    <3>2. at = "idle" /\ at' = "row" /\ UNCHANGED <<seen, blind>>
        BY <2>1
    <3>. QED
        BY <1>0, <2>2, <3>1, <3>2 DEF TypeOK
  <2>4. Shaped'
      BY <1>0, <2>1, <2>2 DEF Shaped
  <2>5. /\ BackupAlerts(View(row, day)) \subseteq Standing
        /\ \A a \in Standing : OfBackup(a) => a \in BackupAlerts(View(row, day))
      BY StandingKinds DEF Standing, Evaluate
  <2>6. ReadSoFar'
      BY <1>1, <2>1, <2>5 DEF ReadSoFar
  <2>. QED
      BY <1>1, <2>3, <2>4, <2>6 DEF IInv
<1>3. CASE ReadRow
  <2>1. /\ at = "row" /\ at' = "health"
        /\ UNCHANGED <<fleet, blind, always, moved>>
        /\ seen' = [view |-> View(row, day), health |-> None]
      BY <1>3 DEF ReadRow
  <2>2. seen' \in Reading /\ seen' # None /\ seen'.view = View(row, day)
    <3>1. seen' \in Reading /\ seen'.view = View(row, day)
        BY <2>1, ViewIn DEF Reading
    <3>. QED
        BY <3>1, NotNone
  <2>3. TypeOK'
      BY <1>0, <2>1, <2>2 DEF TypeOK
  <2>4. Shaped'
      BY <1>0, <2>1, <2>2 DEF Shaped
  <2>5. \A a \in always : OfBackup(a) => a \in BackupAlerts(View(row, day))
      BY <1>0, <2>1, StandingKinds DEF ReadSoFar
  <2>6. ReadSoFar'
      BY <1>0, <1>1, <2>1, <2>2, <2>5 DEF ReadSoFar
  <2>. QED
      BY <1>1, <2>3, <2>4, <2>6 DEF IInv
<1>4. CASE ReadRowFails
  <2>1. /\ at = "row" /\ at' = "alone"
        /\ UNCHANGED <<fleet, seen, blind, always, moved>>
      BY <1>4 DEF ReadRowFails
  <2>2. TypeOK' /\ Shaped'
      BY <1>0, <2>1 DEF TypeOK, Shaped
  <2>3. ReadSoFar'
      BY <1>0, <1>1, <2>1 DEF ReadSoFar
  <2>. QED
      BY <1>1, <2>2, <2>3 DEF IInv
<1>5. CASE ReadHealth
  <2>1. /\ at = "health" /\ at' = "probe" /\ UNCHANGED <<fleet, always, moved>>
      BY <1>5 DEF ReadHealth
  <2>2. CASE seen' = [seen EXCEPT !.health = health] /\ UNCHANGED blind
    <3>1. seen' \in Reading /\ seen'.view = seen.view /\ seen'.health = health
        BY <1>0, <2>1, <2>2 DEF Reading, Shaped, TypeOK
    <3>2. seen' # None
        BY <3>1, NotNone
    <3>3. TypeOK'
        BY <1>0, <2>1, <2>2, <3>2 DEF TypeOK
    <3>4. Shaped'
        BY <1>0, <2>1, <3>1 DEF Shaped
    <3>5. ASSUME NEW a \in always, ~OfBackup(a), ~OfProbe(a)
          PROVE  \E b \in HealthAlerts(health, day) : AsBad(a, b)
      <4>1. a \in HealthAlerts(health, day) /\ Graded(a)
          BY <1>0, <2>1, <3>5, StandingKinds DEF ReadSoFar
      <4>2. AsBad(a, a)
          BY <4>1, Ranks DEF AsBad, Graded, Grades
      <4>. QED
          BY <4>1, <4>2
    <3>6. ReadSoFar'
        BY <1>0, <1>1, <2>1, <3>1, <3>5 DEF ReadSoFar
    <3>. QED
        BY <1>1, <3>3, <3>4, <3>6 DEF IInv
  <2>3. CASE blind' = TRUE /\ UNCHANGED seen
    <3>1. blind' \in BOOLEAN /\ blind'
        BY <2>3, Zenon
    <3>2. seen' = seen
        BY <2>3
    <3>3. TypeOK'
        BY <1>0, <2>1, <3>1, <3>2 DEF TypeOK
    <3>4. Shaped'
        BY <1>0, <2>1, <3>2 DEF Shaped
    <3>5. ReadSoFar'
        BY <1>0, <1>1, <2>1, <3>1, <3>2 DEF ReadSoFar
    <3>. QED
        BY <1>1, <3>3, <3>4, <3>5 DEF IInv
  <2>. QED
      BY <1>5, <2>2, <2>3 DEF ReadHealth
<1>6. CASE Page
  <2>1. at' = "idle" /\ fleet' = None /\ seen' = None
      BY <1>6 DEF Page
  <2>2. moved' \in BOOLEAN /\ blind' \in BOOLEAN
      BY <1>6, Zenon DEF Page
  <2>3. TypeOK'
      BY <1>0, <2>1, <2>2 DEF TypeOK
  <2>4. Shaped' /\ ReadSoFar'
      BY <1>0, <2>1 DEF Shaped, ReadSoFar
  <2>. QED
      BY <1>1, <2>3, <2>4 DEF IInv
<1>. QED
    BY <1>2, <1>3, <1>4, <1>5, <1>6

\* Every step preserves the inductive invariant.
LEMMA NextIInv == IInv /\ [Next]_vars => IInv'
<1>. SUFFICES ASSUME IInv, [Next]_vars PROVE IInv'
    OBVIOUS
<1>1. CASE DayPasses
    BY <1>1, DayPassesIInv
<1>2. CASE \/ Start \/ StatusOK \/ StatusFails \/ HealthFails
          \/ ProbeUnsaved \/ RecordFails
    BY <1>2, WorkIInv
<1>3. CASE HealthOK \/ ProbeSite \/ RecordCheck
    BY <1>3, WriteIInv
<1>4. CASE ReadFleet \/ ReadRow \/ ReadRowFails \/ ReadHealth \/ Page
    BY <1>4, ReadIInv
<1>5. CASE UNCHANGED vars
  <2>1. /\ UNCHANGED <<day, dbVars, readVars, always, moved>>
        /\ UNCHANGED <<row, health, probe, pc, chk, earned, at, fleet, seen>>
        /\ UNCHANGED <<stopping, usable, blind>>
      BY <1>5 DEF vars, dbVars, workVars, procVars, readVars
  <2>2. ReadSoFar'
      BY <2>1, StillRead DEF IInv
  <2>3. TypeOK' /\ Shaped' /\ DownIsEarned'
      BY <2>1 DEF IInv, TypeOK, Shaped, DownIsEarned
  <2>. QED
      BY <2>2, <2>3 DEF IInv
<1>6. CASE Stop \/ Restart
    BY <1>6, ProcessIInv
<1>. QED
    BY <1>1, <1>2, <1>3, <1>4, <1>5, <1>6 DEF Next

\* Every reachable state satisfies IInv: what the reader holds so far accounts
\* for every alert that stood since it began.
THEOREM AlwaysIInv == Spec => []IInv
BY InitIInv, NextIInv, PTL DEF Spec

-----------------------------------------------------------------------------
(* The properties.                                                         *)

\* The variables of Supervision always have their type.
THEOREM TypeCorrect == Spec => []TypeOK
<1>1. IInv => TypeOK
    BY DEF IInv
<1>. QED
    BY <1>1, AlwaysIInv, PTL

\* probeHTTP (probe.go) gives a site down only after all its attempts, spaced
\* out, or when the collection left it too little time, the context of Run is
\* cancelled or http_check cannot be parsed, however many attempts there are
\* and however long they and the pauses last.
THEOREM DownEarned == Spec => []DownIsEarned
<1>1. IInv => DownIsEarned
    BY DEF IInv
<1>. QED
    BY <1>1, AlwaysIInv, PTL

\* Where the alerts of a page come from.
LEMMA SourceOf ==
    ASSUME NEW a
    PROVE  /\ Source(a) = "row" <=> OfBackup(a)
           /\ Source(a) = "probe" <=> ~OfBackup(a) /\ OfProbe(a)
           /\ Source(a) = "health" <=> ~OfBackup(a) /\ ~OfProbe(a)
           /\ Source(a) \in {"row", "probe", "health"}
BY DEF Source

\* A page made of all the reads is honest, whatever the last one gives.
LEMMA HonestHere ==
    ASSUME IInv, at = "probe", NEW p \in ProbeRead
    PROVE  /\ Rank[Combined(fleet, Alertes(p), TRUE)] >= Rank[State(Alertes(p))]
           /\ Rank[State(Alertes(p))] >= Rank[State(Heard(p))]
           /\ ~ moved => Combined(fleet, Alertes(p), TRUE) = State(Alertes(p))
<1>0. TypeOK /\ Shaped /\ ReadSoFar
    BY DEF IInv
<1>1. IsFiniteSet(Alertes(p)) /\ \A a \in Alertes(p) : Graded(a)
    BY StandingKinds, Zenon DEF Alertes
<1>2. always \subseteq Standing /\ Heard(p) \subseteq always
    BY <1>0 DEF ReadSoFar, Heard
<1>3. IsFiniteSet(Heard(p))
  <2>1. IsFiniteSet(Standing)
      BY StandingKinds, Zenon DEF Standing, Evaluate
  <2>2. Heard(p) \subseteq Standing
      BY <1>2
  <2>. QED
      BY <2>1, <2>2, FS_Subset
<1>4. State(Alertes(p)) \in {"crit", "warn", "ok"}
    BY DEF State
<1>5. ASSUME NEW a \in Heard(p) PROVE \E b \in Alertes(p) : AsBad(a, b)
  <2>0. a \in Standing /\ a \in always
      BY <1>2
  <2>1. Graded(a)
      BY <2>0, StandingKinds
  <2>2. AsBad(a, a)
      BY <2>1, Ranks DEF AsBad, Graded, Grades
  <2>3. CASE OfBackup(a)
    <3>1. a \in BackupAlerts(seen.view)
        BY <1>0, <2>0, <2>3 DEF ReadSoFar
    <3>. QED
        BY <2>2, <3>1 DEF Alertes
  <2>4. CASE ~OfBackup(a) /\ OfProbe(a)
    <3>1. p = probe
      <4>1. Source(a) = "probe"
          BY <2>4, SourceOf
      <4>. QED
          BY <4>1 DEF Heard
    <3>2. a \in ProbeAlerts(probe, day)
        BY <2>0, <2>4, StandingKinds
    <3>. QED
        BY <2>2, <3>1, <3>2 DEF Alertes
  <2>5. CASE ~OfBackup(a) /\ ~OfProbe(a)
    <3>1. ~ blind
      <4>1. Source(a) = "health"
          BY <2>5, SourceOf
      <4>. QED
          BY <4>1 DEF Heard
    <3>2. PICK b \in HealthAlerts(seen.health, day) : AsBad(a, b)
        BY <1>0, <2>0, <2>5, <3>1 DEF ReadSoFar
    <3>. QED
        BY <3>2 DEF Alertes
  <2>. QED
      BY <2>3, <2>4, <2>5
<1>6. Rank[Combined(fleet, Alertes(p), TRUE)] >= Rank[State(Alertes(p))]
    BY <1>4, Ranks DEF Combined
<1>7. Rank[State(Alertes(p))] >= Rank[State(Heard(p))]
  <2>1. \A a \in Heard(p) : Graded(a)
      BY <1>2, StandingKinds
  <2>. QED
      BY <1>1, <1>3, <1>5, <2>1, MatchedIsNoWorse
<1>8. ASSUME ~ moved
      PROVE  Combined(fleet, Alertes(p), TRUE) = State(Alertes(p))
  <2>1. CASE fleet \in {"overdue", "nobackup", "unknown"}
    <3>1. BackupAlerts(fleet) # {}
        BY <2>1 DEF BackupAlerts, When
    <3>2. PICK a : a \in BackupAlerts(fleet)
        BY <3>1
    <3>3. a \in always /\ a[1] = "crit" /\ OfBackup(a)
        BY <1>0, <1>8, <3>2, OthersKinds DEF ReadSoFar
    <3>4. a \in Alertes(p)
        BY <1>0, <3>3 DEF ReadSoFar, Alertes
    <3>5. State(Alertes(p)) = "crit"
        BY <1>1, <3>3, <3>4, StateIsWorst
    <3>. QED
        BY <2>1, <3>5 DEF Combined
  <2>2. CASE fleet \notin {"overdue", "nobackup", "unknown"}
      BY <2>2 DEF Combined
  <2>. QED
      BY <2>1, <2>2
<1>. QED
    BY <1>6, <1>7, <1>8

\* A fleet page made without SanteFleet still tells of the backups.
LEMMA AloneIsHonest ==
    ASSUME IInv, at = "alone"
    PROVE  Rank[Combined(fleet, {}, FALSE)]
                >= Rank[State({a \in always : Source(a) = "row"})]
<1>. DEFINE A == {a \in always : Source(a) = "row"}
            parc == Combined(fleet, {}, FALSE)
<1>. SUFFICES Rank[parc] >= Rank[State(A)]
    OBVIOUS
<1>1. A \subseteq BackupAlerts(fleet)
    BY SourceOf DEF IInv, ReadSoFar
<1>2. parc = IF fleet \in {"overdue", "nobackup", "unknown"} THEN "crit" ELSE "ok"
    BY DEF Combined
<1>. HIDE DEF A, parc
<1>3. CASE fleet \in {"overdue", "nobackup", "unknown"}
  <2>1. parc = "crit"
      BY <1>2, <1>3
  <2>2. State(A) \in {"crit", "warn", "ok"}
      BY DEF State
  <2>. QED
      BY <2>1, <2>2, Ranks
<1>4. CASE fleet \notin {"overdue", "nobackup", "unknown"}
  <2>1. parc = "ok"
      BY <1>2, <1>4
  <2>2. BackupAlerts(fleet) = {}
      BY <1>4 DEF BackupAlerts, When
  <2>3. A = {} /\ IsFiniteSet(A)
      BY <1>1, <2>2, FS_EmptySet
  <2>4. State(A) = "ok"
      BY <2>3, StateIsWorst
  <2>. QED
      BY <2>1, <2>4, Ranks
<1>. QED
    BY <1>3, <1>4

\* Whatever collectOne writes, whatever day begins and whatever cannot be read
\* while getFleet reads the row, the row again, the report and the probe, its
\* page is never milder than the health page, nor both than the alerts that
\* stood all the while and could be read; they agree when nothing changed.
THEOREM PageHonest == Spec => []PageIsHonest
<1>1. IInv => PageIsHonest
  <2>. SUFFICES ASSUME IInv PROVE PageIsHonest
      OBVIOUS
  <2>1. ASSUME at = "probe", NEW p \in ProbeRead
        PROVE  LET parc == Rank[Combined(fleet, Alertes(p), TRUE)]
                   sante == Rank[State(Alertes(p))]
               IN  /\ parc >= sante
                   /\ sante >= Rank[State(Heard(p))]
                   /\ ~ moved => parc = sante
      BY <2>1, HonestHere
  <2>2. at = "alone" => Rank[Combined(fleet, {}, FALSE)]
                            >= Rank[State({a \in always : Source(a) = "row"})]
      BY AloneIsHonest
  <2>. QED
      BY <2>1, <2>2, Zenon DEF PageIsHonest
<1>. QED
    BY <1>1, AlwaysIInv, PTL

\* A step that writes nothing leaves the state that stands, or makes it worse.
LEMMA NoHealing ==
    ASSUME IInv, [Next]_vars, UNCHANGED dbVars
    PROVE  Rank[State(Standing')] >= Rank[State(Standing)]
<1>0. TypeOK /\ day \in Int
    BY DEF IInv, TypeOK
<1>1. UNCHANGED <<row, health, probe>>
    BY DEF dbVars
<1>2. day' = day \/ day' = day + 1
    BY DEF Next, vars, DayPasses, Start, StatusOK, StatusFails, HealthOK,
           HealthFails, ProbeSite, ProbeUnsaved, RecordCheck, RecordFails,
           Stop, Restart, ReadFleet, ReadRow, ReadRowFails, ReadHealth, Page
<1>3. Standing' = BackupAlerts(View(row, day')) \cup HealthAlerts(health, day')
                  \cup ProbeAlerts(probe, day')
    BY <1>1 DEF Standing, Evaluate
<1>4. IsFiniteSet(Standing) /\ IsFiniteSet(Standing')
  <2>1. IsFiniteSet(Standing)
      BY StandingKinds, Zenon DEF Standing, Evaluate
  <2>2. IsFiniteSet(Standing')
      BY <1>3, StandingKinds, Zenon
  <2>. QED
      BY <2>1, <2>2
<1>5. (\A a \in Standing : Graded(a)) /\ \A b \in Standing' : Graded(b)
  <2>1. \A b \in Standing' : Graded(b)
      BY <1>3, StandingKinds, Zenon
  <2>. QED
      BY <2>1, StandingKinds
<1>6. ASSUME NEW a \in Standing PROVE \E b \in Standing' : AsBad(a, b)
  <2>0. AsBad(a, a)
      BY <1>5, Ranks DEF AsBad, Graded, Grades
  <2>1. CASE day' = day
      BY <1>3, <2>0, <2>1 DEF Standing, Evaluate
  <2>2. CASE day' = day + 1
    <3>1. CASE a \in BackupAlerts(View(row, day)) \cup ProbeAlerts(probe, day)
        BY <1>0, <1>3, <2>0, <2>2, <3>1, OthersWorsen
    <3>2. CASE a \in HealthAlerts(health, day)
      <4>1. health \in Reports \cup {None}
          BY <1>0 DEF TypeOK
      <4>2. PICK b \in HealthAlerts(health, day + 1) : AsBad(a, b)
          BY <1>0, <3>2, <4>1, HealthWorsens
      <4>. QED
          BY <1>3, <2>2, <4>2
    <3>. QED
        BY <3>1, <3>2 DEF Standing, Evaluate
  <2>. QED
      BY <1>2, <2>1, <2>2
<1>. QED
    BY <1>4, <1>5, <1>6, MatchedIsNoWorse

\* The state of a host (State over Evaluate, sante.go) never improves while
\* nothing new is collected, however many days pass.
THEOREM TimeHealsNothing == Spec => TimeNeverHeals
<1>1. IInv /\ [Next]_vars =>
        [UNCHANGED dbVars => Rank[State(Standing')] >= Rank[State(Standing)]]_vars
    BY NoHealing
<1>. QED
    BY <1>1, AlwaysIInv, PTL DEF Spec, TimeNeverHeals
=============================================================================
