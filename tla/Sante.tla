------------------------------- MODULE Sante --------------------------------
(***************************************************************************)
(* The evaluation of a host (internal/collector/sante.go): which alerts    *)
(* its last row of checks, its last health report and its last probe call  *)
(* for, and the state the pages and the history give it.                   *)
(*                                                                         *)
(* Dates are days.  A message is the set of the words checkKind looks for. *)
(* An alert is its level, its subject and, for a list, the item: their     *)
(* texts are left out.                                                     *)
(***************************************************************************)
EXTENDS Integers, FiniteSets

CONSTANTS
    None,
    Timers, Mounts,             \* names in a health report
    Expect,                     \* age a snapshot may have
    UpgradeStale,               \* 30 days without an upgrade
    EolCrit, EolWarn,           \* 90 and 180 days before the end of support
    CertCrit                    \* 15 days before the end of the certificate

ASSUME SanteAssumption ==
    /\ Expect \in Nat /\ UpgradeStale \in Nat
    /\ EolCrit \in Nat /\ EolWarn \in Nat /\ EolCrit <= EolWarn
    /\ CertCrit \in Nat
    /\ IsFiniteSet(Timers) /\ IsFiniteSet(Mounts)

\* The order of the states in the history, too.
Rank == [unknown |-> 0, ok |-> 1, warn |-> 2, crit |-> 3]

-----------------------------------------------------------------------------
(* The row of checks: None, or [reachable, snapshotAt], None when empty.   *)

Views == {"unknown", "nobackup", "overdue", "ok"}

\* Fleet: the state of the backup.
View(row, day) ==
    IF row = None \/ ~ row.reachable THEN "unknown"
    ELSE IF row.snapshotAt = None THEN "nobackup"
    ELSE IF day - row.snapshotAt > Expect THEN "overdue" ELSE "ok"

-----------------------------------------------------------------------------
(* Evaluate.  Each group of signals gives a set of alerts.                 *)

When(condition, alert) == IF condition THEN {alert} ELSE {}

BackupAlerts(view) ==
    When(view = "overdue", <<"crit", "backup late">>)
    \cup When(view = "nobackup", <<"crit", "no backup">>)
    \cup When(view = "unknown", <<"crit", "host unreachable">>)

\* The cause of a failed check, guessed from its message when the host gave
\* none.
CheckKind(kind, msg) ==
    IF kind # "" THEN kind
    ELSE IF "lock" \in msg THEN "verrou"
    ELSE IF "does not exist" \in msg THEN "absent"
    ELSE IF "wrong password" \in msg THEN "motdepasse"
    ELSE "indetermine"

\* A check is [at, ok, kind, msg]; at = 0 says it was never done.
CheckAlerts(what, c) ==
    IF c.at = 0 \/ c.ok THEN {}
    ELSE LET kind == CheckKind(c.kind, c.msg)
         IN  CASE kind = "verrou" -> {<<"warn", what, "locked">>}
               [] kind = "absent" -> {<<"crit", what, "not found">>}
               [] kind = "motdepasse" /\ what = "deep" ->
                    {<<"crit", what, "password">>}
               [] kind = "indetermine" -> {<<"warn", what, "unknown cause">>}
               [] OTHER -> {<<"crit", what, "corruption">>}

CapacityAlerts(h) ==
    {<<"crit", "disk", f>> : f \in {f \in Mounts : h.pct[f] >= 92}}
    \cup {<<"warn", "disk", f>> : f \in {f \in Mounts : h.pct[f] \in 85..91}}
    \cup When(h.memTotal > 0 /\ h.memAvailable * 10 < h.memTotal,
              <<"warn", "memory">>)

\* The gap between the fixes that wait and the last upgrade (0: none known).
UpgradeAlerts(h, day) ==
    LET stale == h.upgradedAt = 0 \/ day - h.upgradedAt > UpgradeStale
    IN  IF h.security > 0
        THEN {<<IF stale THEN "crit" ELSE "warn", "security fixes">>}
        ELSE When(stale /\ h.upgradedAt > 0, <<"warn", "no upgrade">>)

\* The system is no longer supported, or soon.
EolAlertsMutSoon(h, day) ==
    IF h.eol = None THEN {}
    ELSE LET left == h.eol - day
         IN  When(left >= 0 /\ left < EolCrit, <<"crit", "end of support">>)
             \cup When(left >= EolCrit /\ left < EolWarn,
                       <<"warn", "end of support">>)

EolAlerts(h, day) ==
    IF h.eol = None THEN {}
    ELSE LET left == h.eol - day
         IN  When(left < EolCrit, <<"crit", "end of support">>)
             \cup When(left >= EolCrit /\ left < EolWarn,
                       <<"warn", "end of support">>)

SystemAlerts(h, day) ==
    When(h.failedUnits > 0, <<"crit", "failed units">>)
    \cup When(h.oom > 0, <<"warn", "out of memory">>)
    \cup When(h.ioErrors > 0, <<"crit", "i/o errors">>)
    \cup When(h.reboot, <<"warn", "reboot required">>)
    \cup UpgradeAlerts(h, day)
    \cup EolAlerts(h, day)

HealthAlerts(h, day) ==
    IF h = None THEN {<<"warn", "no health report">>}
    ELSE CheckAlerts("check", h.check) \cup CheckAlerts("deep", h.deep)
         \cup When(h.check.at = 0, <<"warn", "never checked">>)
         \cup {<<"crit", "timer", t>> : t \in {t \in Timers : ~ h.active[t]}}
         \cup CapacityAlerts(h)
         \cup SystemAlerts(h, day)
         \cup When(h.localUp = FALSE, <<"crit", "application down">>)

\* A probe is [up, certExpiry, ...]; None without a probe from the console.
ProbeAlerts(p, day) ==
    IF p = None THEN {}
    ELSE When(~ p.up, <<"crit", "site down">>)
         \cup When(p.certExpiry # None /\ p.certExpiry - day < CertCrit,
                   <<"crit", "certificate">>)

Evaluate(row, h, p, day) ==
    BackupAlerts(View(row, day)) \cup HealthAlerts(h, day)
    \cup ProbeAlerts(p, day)

-----------------------------------------------------------------------------
(* What is made of the alerts.                                             *)

Count(alerts, level) == Cardinality({a \in alerts : a[1] = level})

\* SanteFleet counts, State decides.
State(alerts) ==
    IF Count(alerts, "crit") > 0 THEN "crit"
    ELSE IF Count(alerts, "warn") > 0 THEN "warn" ELSE "ok"

CombinedMutView(view, alerts, known) ==
    IF view # "ok" THEN "crit" ELSE "ok"

\* The state on the fleet page, from its own reading of the rows and from
\* the alerts of the health page, when they could be read.
Combined(view, alerts, known) ==
    IF view \in {"overdue", "nobackup", "unknown"} THEN "crit"
    ELSE IF ~ known THEN "ok" ELSE State(alerts)
=============================================================================
