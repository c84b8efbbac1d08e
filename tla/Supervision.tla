---------------------------- MODULE Supervision -----------------------------
(***************************************************************************)
(* What the pages and the history say of a host while it is collected:     *)
(* collectOne (internal/collector/collector.go) writes the health report,  *)
(* the probe and the row of checks one after the other, each possibly      *)
(* missing, under one context; getFleet (internal/web/server.go) and       *)
(* RecordHealthSnapshot read the row, the report and the probe one after   *)
(* the other, while days pass, the process is stopped and started again,   *)
(* and reads fail.  Sante.tla has the evaluation, Probe.tla the probe.     *)
(*                                                                         *)
(* One host, probed from the console; its collections follow each other.   *)
(* Collector.tla has those that overlap, and the other metadata.           *)
(***************************************************************************)
EXTENDS Sante

CONSTANTS
    Reports,        \* health reports the host may publish
    Certs,          \* expiries of certificates, None over plain HTTP
    Budget,         \* the context of collectOne: 60 s, in units of 4 s
    Attempts, Spacing, Timeout,     \* 3, 8 s and 12 s
    MaxDay          \* bound: days that pass

\* Rows of checks, and what SanteFleet reads before the probe.
Check == [reachable : BOOLEAN, snapshotAt : Int \cup {None}]
Reading == [view : Views, health : Reports \cup {None}]

ASSUME SupervisionAssumption ==
    /\ Budget \in Nat /\ Attempts \in Nat \ {0}
    /\ Spacing \in Nat \ {0} /\ Timeout \in Nat \ {0}
    /\ MaxDay \in Nat \ {0}
    /\ Certs \subseteq Int \cup {None}
    /\ \A h \in Reports : h.upgradedAt \in Nat /\ h.eol \in Int \cup {None}
    /\ None \notin Check \cup Reading \cup Views

INSTANCE Probe WITH NoCert <- None

VARIABLES
    day,
    row, health, probe,     \* the last check and the metadata of the host
    pc,         \* where collectOne is
    chk,        \* the row it will insert
    earned,     \* has every probe so far earned its result: see DownIsEarned
    stopping,   \* is the context of Run cancelled
    usable,     \* can the http_check of the configuration be parsed
    at,         \* where the reader is
    fleet,      \* getFleet's own view of the host
    seen,       \* what SanteFleet has read so far: view and report
    blind,      \* could it not read the report
    always,     \* the alerts that stood throughout the reading
    moved       \* has something changed during the reading

dbVars == <<row, health, probe>>
workVars == <<pc, chk, earned>>
procVars == <<stopping, usable>>
readVars == <<at, fleet, seen, blind>>
vars == <<day, dbVars, workVars, procVars, readVars, always, moved>>

\* The alerts the database calls for now.
Standing == Evaluate(row, health, probe, day)

Init ==
    /\ day = 1
    /\ row = None /\ health = None /\ probe = None
    /\ pc = "idle" /\ chk = None /\ earned = TRUE
    /\ stopping = FALSE /\ usable \in BOOLEAN
    /\ at = "idle" /\ fleet = None /\ seen = None /\ blind = FALSE
    /\ always = {} /\ moved = FALSE

\* Every change of the database and every day is one the reader may be
\* astride.
Witness ==
    /\ always' = IF at = "idle" THEN {} ELSE always \cap Standing'
    /\ moved' = (at # "idle" /\ (moved \/ Standing' # Standing))

-----------------------------------------------------------------------------
DayPasses ==
    /\ day < MaxDay
    /\ day' = day + 1
    /\ UNCHANGED <<dbVars, workVars, procVars, readVars>>
    /\ Witness

\* SIGTERM: the context of Run is cancelled; goroutines go on until main
\* returns.
Stop ==
    /\ ~ stopping
    /\ stopping' = TRUE
    /\ UNCHANGED <<day, dbVars, workVars, usable, readVars, always, moved>>

\* The process ends, stopped or not, and is started again, perhaps with
\* another http_check.  The collection and the page under way are lost.
Restart ==
    /\ stopping' = FALSE /\ usable' \in BOOLEAN
    /\ pc' = "idle" /\ chk' = None
    /\ at' = "idle" /\ fleet' = None /\ seen' = None /\ blind' = FALSE
    /\ always' = {} /\ moved' = FALSE
    /\ UNCHANGED <<day, dbVars, earned>>

-----------------------------------------------------------------------------
(* collectOne.                                                             *)

Start ==
    /\ pc = "idle"
    /\ pc' = "status"
    /\ UNCHANGED <<day, dbVars, chk, earned, procVars, readVars, always,
                   moved>>

\* Status answers with the last snapshot.
StatusOK ==
    /\ pc = "status"
    /\ \E d \in 1..day : chk' = [reachable |-> TRUE, snapshotAt |-> d]
    /\ pc' = "health"
    /\ UNCHANGED <<day, dbVars, earned, procVars, readVars, always, moved>>

StatusFails ==
    /\ pc = "status"
    /\ chk' = [reachable |-> FALSE, snapshotAt |-> None]
    /\ pc' = "probe"
    /\ UNCHANGED <<day, dbVars, earned, procVars, readVars, always, moved>>

HealthOK ==
    /\ pc = "health"
    /\ health' \in Reports
    /\ pc' = "probe"
    /\ UNCHANGED <<day, row, probe, chk, earned, procVars, readVars>>
    /\ Witness

\* No report, or one that could not be written: the old one stays.
HealthFails ==
    /\ pc = "health"
    /\ pc' = "probe"
    /\ UNCHANGED <<day, dbVars, chk, earned, procVars, readVars, always,
                   moved>>

\* A result of the probe, when the SSH calls left it that much of the
\* context, with what DownIsEarned asks of it.
Finding(p, left, stop, parsed) ==
    [up |-> p.up, certExpiry |-> p.certExpiry, stop |-> stop,
     parsed |-> parsed,
     earned |-> \/ p.up
                \/ p.attempts = Attempts /\ left - p.left >= Spaced
                \/ p.left = 0 /\ left < Room
                \/ stop \/ ~ parsed]

\* All of them, for all that may be left.
Findings ==
    {Finding(c[1], c[2], c[3], c[4]) : c \in
        UNION {ProbeHTTP(left, stop, parsed) \X {left} \X {stop} \X {parsed}
                : left \in 0..Budget, stop \in BOOLEAN, parsed \in BOOLEAN}}

\* The site is probed, whether SSH answered or not.
ProbeSite ==
    /\ pc = "probe"
    /\ \E f \in Findings :
        /\ f.stop = stopping /\ f.parsed = usable
        /\ probe' = [up |-> f.up, certExpiry |-> f.certExpiry]
        /\ earned' = (earned /\ f.earned)
    /\ pc' = "record"
    /\ UNCHANGED <<day, row, health, chk, procVars, readVars>>
    /\ Witness

\* The result could not be written: the old one stays.
ProbeUnsaved ==
    /\ pc = "probe"
    /\ pc' = "record"
    /\ UNCHANGED <<day, dbVars, chk, earned, procVars, readVars, always,
                   moved>>

RecordCheckMutKeep ==
    /\ pc = "record"
    /\ row' = chk
    /\ pc' = "idle"
    /\ UNCHANGED <<day, health, probe, chk, earned, procVars, readVars>>
    /\ Witness

RecordCheck ==
    /\ pc = "record"
    /\ row' = chk
    /\ chk' = None
    /\ pc' = "idle"
    /\ UNCHANGED <<day, health, probe, earned, procVars, readVars>>
    /\ Witness

\* The insert fails: no row.
RecordFails ==
    /\ pc = "record"
    /\ chk' = None
    /\ pc' = "idle"
    /\ UNCHANGED <<day, dbVars, earned, procVars, readVars, always, moved>>

-----------------------------------------------------------------------------
(* getFleet: Fleet, then SanteFleet, which reads the row again, the health *)
(* report and the probe, and evaluates them.  A report or a probe that     *)
(* cannot be read, or decoded, counts as missing.                          *)

ReadFleet ==
    /\ at = "idle"
    /\ fleet' = View(row, day)
    /\ at' = "row"
    /\ always' = Standing /\ moved' = FALSE
    /\ UNCHANGED <<day, dbVars, workVars, procVars, seen, blind>>

ReadRow ==
    /\ at = "row"
    /\ seen' = [view |-> View(row, day), health |-> None]
    /\ at' = "health"
    /\ UNCHANGED <<day, dbVars, workVars, procVars, fleet, blind, always,
                   moved>>

\* SanteFleet fails, and the fleet page is made without it.
ReadRowFails ==
    /\ at = "row"
    /\ at' = "alone"
    /\ UNCHANGED <<day, dbVars, workVars, procVars, fleet, seen, blind,
                   always, moved>>

ReadHealth ==
    /\ at = "health"
    /\ \/ seen' = [seen EXCEPT !.health = health] /\ UNCHANGED blind
       \/ blind' = TRUE /\ UNCHANGED seen
    /\ at' = "probe"
    /\ UNCHANGED <<day, dbVars, workVars, procVars, fleet, always, moved>>

\* What the last read may give.
ProbeRead == {probe, None}

\* The alerts SanteFleet gives when that is p.  The points of the history are
\* made by the same reads.
Alertes(p) ==
    BackupAlerts(seen.view) \cup HealthAlerts(seen.health, day)
    \cup ProbeAlerts(p, day)

\* The probe is read, with success or not, and the page goes out; or it goes
\* out without SanteFleet.
Page ==
    /\ at \in {"probe", "alone"}
    /\ at' = "idle" /\ fleet' = None /\ seen' = None /\ blind' = FALSE
    /\ always' = {} /\ moved' = FALSE
    /\ UNCHANGED <<day, dbVars, workVars, procVars>>

Next ==
    \/ DayPasses \/ Stop \/ Restart
    \/ Start \/ StatusOK \/ StatusFails \/ HealthOK \/ HealthFails
    \/ ProbeSite \/ ProbeUnsaved \/ RecordCheck \/ RecordFails
    \/ ReadFleet \/ ReadRow \/ ReadRowFails \/ ReadHealth \/ Page

Spec == Init /\ [][Next]_vars

-----------------------------------------------------------------------------
(* Properties.                                                             *)

TypeOK ==
    /\ day \in 1..MaxDay
    /\ row # None => row.reachable \in BOOLEAN
                     /\ row.snapshotAt \in 1..day \cup {None}
    /\ health \in Reports \cup {None}
    /\ probe # None => probe.up \in BOOLEAN
                       /\ probe.certExpiry \in Certs \cup {None}
    /\ pc \in {"idle", "status", "health", "probe", "record"}
    /\ (chk # None) = (pc \notin {"idle", "status"})
    /\ earned \in BOOLEAN /\ stopping \in BOOLEAN /\ usable \in BOOLEAN
    /\ at \in {"idle", "row", "health", "probe", "alone"}
    /\ (fleet # None) = (at # "idle")
    /\ (seen # None) = (at \in {"health", "probe"})
    /\ blind \in BOOLEAN
    /\ moved \in BOOLEAN

\* Where an alert comes from.
OfBackup(a) == a[2] \in {"backup late", "no backup", "host unreachable"}
OfProbe(a) == a[2] \in {"site down", "certificate"}

Source(a) ==
    IF OfBackup(a) THEN "row" ELSE IF OfProbe(a) THEN "probe" ELSE "health"

\* The alerts that stood all the while and come from what could be read, when
\* the last read gave p.
Heard(p) ==
    {a \in always : CASE Source(a) = "row" -> TRUE
                      [] Source(a) = "health" -> ~ blind
                      [] OTHER -> p = probe}

\* Whatever is written while a page is made, whatever cannot be read and
\* whatever day begins, the fleet page is never more reassuring than the
\* health page, neither is milder than the alerts that stood all the while
\* and come from something that could be read, and they agree when nothing
\* changed (server.go, getFleet: two pages that contradict each other).  A
\* fleet page made without SanteFleet only speaks for the backups.
PageIsHonest ==
    /\ at = "probe" => \A p \in ProbeRead :
        LET parc == Rank[Combined(fleet, Alertes(p), TRUE)]
            sante == Rank[State(Alertes(p))]
        IN  /\ parc >= sante
            /\ sante >= Rank[State(Heard(p))]
            /\ ~ moved => parc = sante
    /\ at = "alone" =>
        Rank[Combined(fleet, {}, FALSE)]
            >= Rank[State({a \in always : Source(a) = "row"})]

\* A site is declared down after all the attempts, spaced out, but for three
\* cases: the time of the collection ran out, which it does not when the SSH
\* calls left the probe its fifty-two seconds; the process is being stopped;
\* or http_check cannot be parsed.  (probe.go, l. 31-33, promises several
\* spaced failures without them: see the README.)
DownIsEarned == earned

\* Only a collection improves the state of a host: time alone, with a host
\* that does not answer any more, never does.  The dates of the report (last
\* upgrade, end of support), of the certificate and of the snapshot count.
TimeNeverHeals ==
    [][UNCHANGED dbVars => Rank[State(Standing')] >= Rank[State(Standing)]]_vars

-----------------------------------------------------------------------------
(* The inductive invariant behind them (SupervisionProofs).                *)

Shaped ==
    /\ chk # None => chk.reachable \in BOOLEAN
                     /\ chk.snapshotAt \in 1..day \cup {None}
    /\ at # "idle" => fleet \in Views
    /\ at \in {"health", "probe"} => seen \in Reading

AsBad(a, b) == Rank[b[1]] >= Rank[a[1]]

\* An alert that stood throughout the reading was read, as bad as it is now
\* at least, with what it comes from, if that could be read; and while
\* nothing moves the fleet page has read no other backup than the health page.
ReadSoFar ==
    at # "idle" =>
        /\ always \subseteq Standing
        /\ ~moved => BackupAlerts(fleet) \subseteq always
        /\ \A a \in always : OfBackup(a) => a \in BackupAlerts(fleet)
        /\ at \in {"health", "probe"} =>
            \A a \in always : OfBackup(a) => a \in BackupAlerts(seen.view)
        /\ at = "probe" /\ ~ blind =>
            \A a \in always : ~OfBackup(a) /\ ~OfProbe(a) =>
                \E b \in HealthAlerts(seen.health, day) : AsBad(a, b)

IInv == TypeOK /\ Shaped /\ ReadSoFar /\ DownIsEarned
=============================================================================
