----------------------------- MODULE Collector ------------------------------
(***************************************************************************)
(* The collector (internal/collector/collector.go) and the tables it       *)
(* writes (checks, host_meta and audit of internal/store/store.go).        *)
(*                                                                         *)
(* Three kinds of goroutine meet here.  Run starts one collection per host *)
(* that is due, waits for all of them, and waits for the ticker.  A        *)
(* collection (collectOne) asks the host for its status, then for its      *)
(* metadata, and inserts one row in checks.  A request of an operator      *)
(* (Action) reserves the host, runs a verb there, writes the outcome in    *)
(* the audit journal, and collects the host itself.                        *)
(*                                                                         *)
(* There is no clock: a snapshot is the number of the backup that made it, *)
(* and time is what lets a backup expire (its age passes Expect) and a     *)
(* backoff elapse.  Backoff.tla has the arithmetic of the latter.          *)
(***************************************************************************)
EXTENDS Integers, Sequences, FiniteSets

CONSTANTS
    Hosts,
    Disabled,       \* hosts whose configuration says disabled
    Reqs,           \* requests of operators; each is made once
    Verbs,          \* of "check", "unlock", "backup" and "refresh"
    Kinds,          \* metadata asked after the status, in order
    None,
    Limit,          \* capacity of c.limit
    MaxBackups,     \* bound: backups of a host
    MaxFaults,      \* bound: calls to hosts and writes to the database that
                    \* fail, and calls that never end
    MaxHangs,       \* bound: the calls that never end, among those
    MaxCrashes      \* bound: ends of the process, each followed by a restart

ASSUME CollectorAssumption ==
    /\ IsFiniteSet(Hosts) /\ Disabled \subseteq Hosts
    /\ Hosts \cap Reqs = {}
    /\ Verbs \subseteq {"check", "unlock", "backup", "refresh"}
    /\ None \notin Hosts /\ None \notin Reqs
    /\ Kinds \in Seq(STRING)
    /\ Limit \in Nat \ {0}
    /\ MaxBackups \in Nat /\ MaxFaults \in Nat
    /\ MaxHangs \in Nat /\ MaxCrashes \in Nat

\* A collection is run by Run for a host, or by the goroutine of a request.
Workers == Hosts \cup Reqs

\* What a row of checks says of the last snapshot, besides its number.
Never == -2         \* no row
Unreachable == -1   \* reachable = 0
Absent == -1        \* no row in host_meta

VARIABLES
    repo,       \* host -> number of its last backup, 0 when it has none
    expired,    \* host -> number of the last backup older than Expect
    faults, hangs, crashes,     \* what went wrong so far (bounded)
    loop,       \* where Run is: "collect", "wait" or "select"
    bo,         \* host -> "none", "wait" (before nextTry) or "due" (after)
    stage,      \* worker -> where it is in collectOne
    chk,        \* worker -> what the row it will insert says
    next,       \* worker -> index of the next kind of metadata
    seen,       \* worker -> backup that the metadata it will write tell of
    running,    \* host -> the request that holds c.running[host], or None
    phase,      \* request -> where it is in Action
    target,     \* request -> its host
    verb,       \* request -> its verb
    ok,         \* request -> has its verb succeeded (err = nil)
    row,        \* host -> what the last row of checks says (by id)
    meta,       \* host -> kind -> backup seen by the data in host_meta
    probe,      \* hosts with a probe in host_meta
    probed,     \* hosts whose configuration has an http_check
    audit,      \* request -> what the journal has of it
    lost        \* requests with an entry that could not be written

hostVars == <<repo, expired>>
envVars == <<faults, hangs, crashes>>
workVars == <<stage, chk, next, seen>>
reqVars == <<phase, target, verb, ok>>
dbVars == <<row, meta, probe, audit, lost>>
vars == <<hostVars, envVars, loop, bo, workVars, running, reqVars, dbVars,
          probed>>

Init ==
    /\ repo = [h \in Hosts |-> 0]
    /\ expired = [h \in Hosts |-> 0]
    /\ faults = 0 /\ hangs = 0 /\ crashes = 0
    /\ loop = "collect"
    /\ bo = [h \in Hosts |-> "none"]
    /\ stage = [w \in Workers |-> "off"]
    /\ chk = [w \in Workers |-> Never]
    /\ next = [w \in Workers |-> 1]
    /\ seen = [w \in Workers |-> Absent]
    /\ running = [h \in Hosts |-> None]
    /\ phase = [r \in Reqs |-> "new"]
    /\ target = [r \in Reqs |-> None]
    /\ verb = [r \in Reqs |-> None]
    /\ ok = [r \in Reqs |-> FALSE]
    /\ row = [h \in Hosts |-> Never]
    /\ meta = [h \in Hosts |-> [i \in DOMAIN Kinds |-> Absent]]
    /\ probe = {}
    /\ probed = Hosts
    /\ audit = [r \in Reqs |-> {}]
    /\ lost = {}

Fault == faults < MaxFaults /\ faults' = faults + 1

\* run waits for a peer that says nothing: the SSH handshake, on a plain
\* net.Conn, and NewSession have no deadline and look at no context.
Hang == hangs < MaxHangs /\ hangs' = hangs + 1 /\ Fault

Enter(w, where) == stage' = [stage EXCEPT ![w] = where]

\* The collection is over; the next one starts afresh.
Leave(w) ==
    /\ Enter(w, "off")
    /\ chk' = [chk EXCEPT ![w] = Never]
    /\ next' = [next EXCEPT ![w] = 1]
    /\ UNCHANGED seen

-----------------------------------------------------------------------------
(* The hosts, and time.                                                    *)

TimerBackup(h) ==
    /\ repo[h] < MaxBackups
    /\ repo' = [repo EXCEPT ![h] = @ + 1]
    /\ UNCHANGED <<expired, envVars, loop, bo, workVars, running, reqVars,
                   dbVars, probed>>

\* The age of the oldest backup not yet too old passes Expect.
Expire(h) ==
    /\ expired[h] < repo[h]
    /\ expired' = [expired EXCEPT ![h] = @ + 1]
    /\ UNCHANGED <<repo, envVars, loop, bo, workVars, running, reqVars,
                   dbVars, probed>>

\* nextTry is in the past from now on.
BackoffElapses(h) ==
    /\ bo[h] = "wait"
    /\ bo' = [bo EXCEPT ![h] = "due"]
    /\ UNCHANGED <<hostVars, envVars, loop, workVars, running, reqVars,
                   dbVars, probed>>

-----------------------------------------------------------------------------
(* Run and CollectAll.                                                     *)

DueMutOnce(h) == bo[h] = "none"

Due(h) == bo[h] # "wait"

\* One goroutine per host that is enabled and due.
CollectAll ==
    /\ loop = "collect"
    /\ stage' = [w \in Workers |-> IF w \in Hosts \ Disabled /\ Due(w)
                                   THEN "queued" ELSE stage[w]]
    /\ loop' = "wait"
    /\ UNCHANGED <<hostVars, envVars, bo, chk, next, seen, running, reqVars, dbVars,
                   probed>>

\* wg.Wait returns, then the loop waits in its select.
CycleEndsMutNoWait ==
    /\ loop = "wait"
    /\ loop' = "select"
    /\ UNCHANGED <<hostVars, envVars, bo, workVars, running, reqVars, dbVars,
                   probed>>

CycleEnds ==
    /\ loop = "wait"
    /\ \A h \in Hosts : stage[h] = "off"
    /\ loop' = "select"
    /\ UNCHANGED <<hostVars, envVars, bo, workVars, running, reqVars, dbVars,
                   probed>>

Tick ==
    /\ loop = "select"
    /\ loop' = "collect"
    /\ UNCHANGED <<hostVars, envVars, bo, workVars, running, reqVars, dbVars,
                   probed>>

\* Those who hold a place in c.limit; requests take none.
Limited == {h \in Hosts : stage[h] \notin {"off", "queued"}}

StartCollect(h) ==
    /\ stage[h] = "queued"
    /\ Cardinality(Limited) < Limit
    /\ Enter(h, "status")
    /\ UNCHANGED <<hostVars, envVars, loop, bo, chk, next, seen, running, reqVars,
                   dbVars, probed>>

-----------------------------------------------------------------------------
(* collectOne, by worker w for host HostOf(w).                             *)

HostOf(w) == IF w \in Hosts THEN w ELSE target[w]

\* fleet.Status: the last snapshot.  An empty repository is an error.
StatusOK(w) ==
    /\ stage[w] = "status" /\ repo[HostOf(w)] > 0
    /\ chk' = [chk EXCEPT ![w] = repo[HostOf(w)]]
    /\ Enter(w, "note")
    /\ UNCHANGED <<hostVars, envVars, loop, bo, next, seen, running, reqVars,
                   dbVars, probed>>

StatusFails(w) ==
    /\ stage[w] = "status"
    /\ IF repo[HostOf(w)] = 0 THEN UNCHANGED faults ELSE Fault
    /\ chk' = [chk EXCEPT ![w] = Unreachable]
    /\ Enter(w, "note")
    /\ UNCHANGED <<hostVars, hangs, crashes, loop, bo, next, seen, running, reqVars,
                   dbVars, probed>>

\* A host that accepts the connection and says nothing keeps the goroutine
\* for ever, at its status or at any of the calls that follow.
CallHangs(w) ==
    /\ stage[w] \in {"status", "meta"}
    /\ Hang
    /\ Enter(w, "hung")
    /\ UNCHANGED <<hostVars, crashes, loop, bo, chk, next, seen, running,
                   reqVars, dbVars, probed>>

\* noteFailure or noteSuccess.
Note(w) ==
    /\ stage[w] = "note"
    /\ LET failed == chk[w] = Unreachable
       IN  /\ bo' = [bo EXCEPT ![HostOf(w)] =
                            IF failed THEN "wait" ELSE "none"]
           /\ Enter(w, IF failed \/ Kinds = << >> THEN "probe" ELSE "meta")
    /\ UNCHANGED <<hostVars, envVars, loop, chk, next, seen, running, reqVars,
                   dbVars, probed>>

NextKindMutOff(w) ==
    /\ next' = [next EXCEPT ![w] = @ + 1]
    /\ Enter(w, IF next[w] > Len(Kinds) THEN "probe" ELSE "meta")

NextKind(w) ==
    /\ next' = [next EXCEPT ![w] = @ + 1]
    /\ Enter(w, IF next[w] = Len(Kinds) THEN "probe" ELSE "meta")

\* The host answers; what it says is written by saveMeta, a step of its own:
\* another collection of the host may write between the two.
MetaOK(w) ==
    /\ stage[w] = "meta"
    /\ seen' = [seen EXCEPT ![w] = repo[HostOf(w)]]
    /\ Enter(w, "save")
    /\ UNCHANGED <<hostVars, envVars, loop, bo, chk, next, running, reqVars,
                   dbVars, probed>>

MetaFails(w) ==
    /\ stage[w] = "meta"
    /\ Fault
    /\ NextKind(w)
    /\ UNCHANGED <<hostVars, hangs, crashes, loop, bo, chk, seen, running,
                   reqVars, dbVars, probed>>

SaveMeta(w) ==
    /\ stage[w] = "save"
    /\ meta' = [meta EXCEPT ![HostOf(w)][next[w]] = seen[w]]
    /\ seen' = [seen EXCEPT ![w] = Absent]
    /\ NextKind(w)
    /\ UNCHANGED <<hostVars, envVars, loop, bo, chk, running, reqVars, row,
                   probe, audit, lost, probed>>

\* PutMeta fails: logged, and the row of host_meta stays as it is.
SaveFails(w) ==
    /\ stage[w] = "save"
    /\ Fault
    /\ seen' = [seen EXCEPT ![w] = Absent]
    /\ NextKind(w)
    /\ UNCHANGED <<hostVars, hangs, crashes, loop, bo, chk, running, reqVars,
                   dbVars, probed>>

\* probeHTTP: its result replaces the old one, or the old one is deleted.
ProbeMutKeep(w) ==
    /\ stage[w] = "probe"
    /\ probe' = IF HostOf(w) \in probed THEN probe \cup {HostOf(w)} ELSE probe
    /\ Enter(w, "record")
    /\ UNCHANGED <<hostVars, envVars, loop, bo, chk, next, seen, running, reqVars,
                   row, meta, audit, lost, probed>>

Probe(w) ==
    /\ stage[w] = "probe"
    /\ probe' = IF HostOf(w) \in probed
                THEN probe \cup {HostOf(w)} ELSE probe \ {HostOf(w)}
    /\ Enter(w, "record")
    /\ UNCHANGED <<hostVars, envVars, loop, bo, chk, next, seen, running, reqVars,
                   row, meta, audit, lost, probed>>

\* saveMeta or DeleteMeta fails: the old result stays.
ProbeUnsaved(w) ==
    /\ stage[w] = "probe"
    /\ Fault
    /\ Enter(w, "record")
    /\ UNCHANGED <<hostVars, hangs, crashes, loop, bo, chk, next, seen, running,
                   reqVars, dbVars, probed>>

RecordMutNoDone(w) ==
    /\ stage[w] = "record"
    /\ row' = [row EXCEPT ![HostOf(w)] = chk[w]]
    /\ IF chk[w] = Unreachable THEN Enter(w, "hung") /\ UNCHANGED <<chk, next, seen>>
       ELSE Leave(w)
    /\ UNCHANGED <<hostVars, envVars, loop, bo, running, reqVars, meta, probe,
                   audit, lost, probed>>

\* store.RecordCheck; the collection is over, its place in c.limit free.
Record(w) ==
    /\ stage[w] = "record"
    /\ row' = [row EXCEPT ![HostOf(w)] = chk[w]]
    /\ Leave(w)
    /\ UNCHANGED <<hostVars, envVars, loop, bo, running, reqVars, meta, probe,
                   audit, lost, probed>>

\* RecordCheck fails: logged, no row; the collection is over all the same.
RecordFails(w) ==
    /\ stage[w] = "record"
    /\ Fault
    /\ Leave(w)
    /\ UNCHANGED <<hostVars, hangs, crashes, loop, bo, running, reqVars, dbVars,
                   probed>>

-----------------------------------------------------------------------------
(* Action, called by postAction for request r.                             *)

Goto(r, where) == phase' = [phase EXCEPT ![r] = where]

\* store.Audit ignores the error of its insert.
Journal(r, word) ==
    \/ /\ audit' = [audit EXCEPT ![r] = @ \cup {word}]
       /\ UNCHANGED <<faults, lost>>
    \/ /\ Fault
       /\ lost' = lost \cup {r}
       /\ UNCHANGED audit

\* The test and the reservation are one critical section of runMu.
Claim(r) ==
    /\ phase[r] = "new"
    /\ \E h \in Hosts, v \in Verbs :
        /\ running[h] = None
        /\ running' = [running EXCEPT ![h] = r]
        /\ target' = [target EXCEPT ![r] = h]
        /\ verb' = [verb EXCEPT ![r] = v]
    /\ Goto(r, "claimed")
    /\ UNCHANGED <<hostVars, envVars, loop, bo, workVars, ok, dbVars, probed>>

\* ErrBusy, which postAction writes in the journal.
RefuseMutFree(r) ==
    /\ phase[r] = "new"
    /\ Goto(r, "end")
    /\ Journal(r, "refused")
    /\ UNCHANGED <<hostVars, hangs, crashes, loop, bo, workVars, running, target,
                   verb, ok, row, meta, probe, probed>>

Refuse(r) ==
    /\ phase[r] = "new"
    /\ \E h \in Hosts : running[h] # None
    /\ Goto(r, "end")
    /\ Journal(r, "refused")
    /\ UNCHANGED <<hostVars, hangs, crashes, loop, bo, workVars, running, target,
                   verb, ok, row, meta, probe, probed>>

\* The journal says the verb was asked, and the goroutine starts.  The verb
\* "refresh" is a first collection.
Begin(r) ==
    /\ phase[r] = "claimed"
    /\ Journal(r, "asked")
    /\ IF verb[r] = "refresh"
       THEN /\ Goto(r, "refresh") /\ Enter(r, "status")
            /\ ok' = [ok EXCEPT ![r] = TRUE]
       ELSE Goto(r, "exec") /\ UNCHANGED <<stage, ok>>
    /\ UNCHANGED <<hostVars, hangs, crashes, loop, bo, chk, next, seen, running,
                   target, verb, row, meta, probe, probed>>

\* A backup asked here adds a snapshot, even when its answer is lost.
BackupHappens(r) ==
    /\ verb[r] = "backup" /\ repo[target[r]] < MaxBackups
    /\ repo' = [repo EXCEPT ![target[r]] = @ + 1]

ExecOK(r) ==
    /\ phase[r] = "exec"
    /\ IF verb[r] = "backup" THEN BackupHappens(r) ELSE UNCHANGED repo
    /\ ok' = [ok EXCEPT ![r] = TRUE]
    /\ Goto(r, "outcome")
    /\ UNCHANGED <<expired, envVars, loop, bo, workVars, running, target,
                   verb, dbVars, probed>>

\* Refused by the host's policy, failed there, or cut.
ExecFails(r) ==
    /\ phase[r] = "exec"
    /\ BackupHappens(r) \/ UNCHANGED repo
    /\ ok' = [ok EXCEPT ![r] = FALSE]
    /\ Goto(r, "outcome")
    /\ UNCHANGED <<expired, envVars, loop, bo, workVars, running, target,
                   verb, dbVars, probed>>

RefreshEnds(r) ==
    /\ phase[r] = "refresh" /\ stage[r] = "off"
    /\ Goto(r, "outcome")
    /\ UNCHANGED <<hostVars, envVars, loop, bo, workVars, running, target,
                   verb, ok, dbVars, probed>>

\* The verb hangs, and keeps the host reserved: see Hang.
VerbHangs(r) ==
    /\ phase[r] = "exec"
    /\ Hang
    /\ Goto(r, "stuck")
    /\ UNCHANGED <<hostVars, crashes, loop, bo, workVars, running, target, verb,
                   ok, dbVars, probed>>

\* What the goroutine makes of err.
Verdict(r) == IF ok[r] THEN "success" ELSE "failure"

OutcomeMutSilent(r) ==
    /\ phase[r] = "outcome"
    /\ IF ok[r]
       THEN Journal(r, "success") /\ Goto(r, "collect") /\ Enter(r, "status")
       ELSE Goto(r, "release") /\ UNCHANGED <<stage, audit, lost, faults>>
    /\ UNCHANGED <<hostVars, hangs, crashes, loop, bo, chk, next, seen, running,
                   target, verb, ok, row, meta, probe, probed>>

\* The outcome goes to the journal; after a success the host is collected.
Outcome(r) ==
    /\ phase[r] = "outcome"
    /\ Journal(r, Verdict(r))
    /\ IF ok[r]
       THEN Goto(r, "collect") /\ Enter(r, "status")
       ELSE Goto(r, "release") /\ UNCHANGED stage
    /\ UNCHANGED <<hostVars, hangs, crashes, loop, bo, chk, next, seen, running,
                   target, verb, ok, row, meta, probe, probed>>

\* The deferred function gives the host back, after a failure too.
ReleaseMutOnSuccess(r) ==
    /\ phase[r] \in {"release", "collect"} /\ stage[r] = "off"
    /\ running' = IF ok[r] THEN [running EXCEPT ![target[r]] = None]
                  ELSE running
    /\ Goto(r, "end")
    /\ UNCHANGED <<hostVars, envVars, loop, bo, workVars, target, verb, ok,
                   dbVars, probed>>

Release(r) ==
    /\ phase[r] \in {"release", "collect"} /\ stage[r] = "off"
    /\ running' = [running EXCEPT ![target[r]] = None]
    /\ Goto(r, "end")
    /\ UNCHANGED <<hostVars, envVars, loop, bo, workVars, target, verb, ok,
                   dbVars, probed>>

-----------------------------------------------------------------------------
Live(r) == phase[r] \notin {"new", "end", "cut"}

\* The process ends (SIGTERM included: main waits for no goroutine) and is
\* started again, perhaps with a configuration that probes other hosts.
Restart ==
    /\ crashes < MaxCrashes
    /\ crashes' = crashes + 1
    /\ loop' = "collect"
    /\ bo' = [h \in Hosts |-> "none"]
    /\ stage' = [w \in Workers |-> "off"]
    /\ chk' = [w \in Workers |-> Never]
    /\ next' = [w \in Workers |-> 1]
    /\ seen' = [w \in Workers |-> Absent]
    /\ running' = [h \in Hosts |-> None]
    /\ phase' = [r \in Reqs |-> IF Live(r) THEN "cut" ELSE phase[r]]
    /\ probed' \in SUBSET Hosts
    /\ UNCHANGED <<hostVars, faults, hangs, target, verb, ok, dbVars>>

Collect(w) ==
    \/ StatusOK(w) \/ StatusFails(w) \/ Note(w)
    \/ MetaOK(w) \/ MetaFails(w) \/ SaveMeta(w) \/ SaveFails(w)
    \/ Probe(w) \/ ProbeUnsaved(w) \/ Record(w) \/ RecordFails(w)

Act(r) ==
    \/ Begin(r) \/ ExecOK(r) \/ ExecFails(r) \/ RefreshEnds(r) \/ Outcome(r)
    \/ Release(r)

Run == CollectAll \/ CycleEnds \/ Tick

Next ==
    \/ Run
    \/ \E h \in Hosts :
        TimerBackup(h) \/ Expire(h) \/ BackoffElapses(h) \/ StartCollect(h)
    \/ \E w \in Workers : Collect(w) \/ CallHangs(w)
    \/ \E r \in Reqs : Claim(r) \/ Refuse(r) \/ Act(r) \/ VerbHangs(r)
    \/ Restart

Spec == Init /\ [][Next]_vars

\* The ticker ticks, time passes, goroutines run, and the goroutines that
\* wait for c.limit are served in order.
FairSpec ==
    /\ Spec
    /\ WF_vars(Run)
    /\ \A h \in Hosts : WF_vars(BackoffElapses(h)) /\ SF_vars(StartCollect(h))
    /\ \A w \in Workers : WF_vars(Collect(w))
    /\ \A r \in Reqs : WF_vars(Act(r))

-----------------------------------------------------------------------------
(* What the operator sees.                                                 *)

FleetStateMutEdge(h) ==
    CASE row[h] \in {Never, Unreachable} -> "unknown"
      [] row[h] = 0 -> "nobackup"
      [] OTHER -> IF row[h] < expired[h] THEN "overdue" ELSE "ok"

\* Fleet: the state of a host from its last row.
FleetState(h) ==
    CASE row[h] \in {Never, Unreachable} -> "unknown"
      [] row[h] = 0 -> "nobackup"
      [] OTHER -> IF row[h] <= expired[h] THEN "overdue" ELSE "ok"

-----------------------------------------------------------------------------
(* Properties.                                                             *)

Stages == {"off", "queued", "status", "hung", "note", "meta", "save",
           "probe", "record"}
Phases == {"new", "claimed", "refresh", "exec", "stuck", "outcome",
           "collect", "release", "end", "cut"}

TypeOK ==
    /\ repo \in [Hosts -> 0..MaxBackups]
    /\ expired \in [Hosts -> 0..MaxBackups]
    /\ faults \in 0..MaxFaults /\ hangs \in 0..MaxHangs
    /\ crashes \in 0..MaxCrashes
    /\ loop \in {"collect", "wait", "select"}
    /\ bo \in [Hosts -> {"none", "wait", "due"}]
    /\ stage \in [Workers -> Stages]
    /\ chk \in [Workers -> Never..MaxBackups]
    /\ next \in [Workers -> 1..(Len(Kinds) + 1)]
    /\ seen \in [Workers -> Absent..MaxBackups]
    /\ running \in [Hosts -> Reqs \cup {None}]
    /\ phase \in [Reqs -> Phases]
    /\ target \in [Reqs -> Hosts \cup {None}]
    /\ verb \in [Reqs -> Verbs \cup {None}]
    /\ ok \in [Reqs -> BOOLEAN]
    /\ row \in [Hosts -> Never..MaxBackups]
    /\ meta \in [Hosts -> [DOMAIN Kinds -> Absent..MaxBackups]]
    /\ probe \subseteq Hosts
    /\ probed \subseteq Hosts
    /\ audit \in [Reqs -> SUBSET {"refused", "asked", "success", "failure"}]
    /\ lost \subseteq Reqs

\* running is the exact account of the operations under way: a host is
\* reserved by the one goroutine that works on it, from the reservation to
\* the deferred release, so two operations never meet on a host and no host
\* stays reserved by an operation that ended, failures and restarts included.
RunningIsExact ==
    /\ \A h \in Hosts : running[h] # None =>
            Live(running[h]) /\ target[running[h]] = h
    /\ \A r \in Reqs : Live(r) =>
            target[r] \in Hosts /\ running[target[r]] = r

\* The fleet view never says "ok" of a host whose last backup is too old,
\* whatever collections overlap, fail or are cut by a restart.
NoFalseOK == \A h \in Hosts : FleetState(h) = "ok" => repo[h] > expired[h]

\* Run never starts a cycle over a running one, and a collection belongs to a
\* cycle or to a request under way.
NoStrayCollection ==
    /\ \A h \in Hosts : stage[h] # "off" => loop = "wait"
    /\ \A r \in Reqs : stage[r] # "off" => phase[r] \in {"refresh", "collect"}

\* All that the journal may have of a request: that it was refused, or that
\* it was asked and how it ended.
Whole(r) == IF target[r] = None THEN {"refused"} ELSE {"asked", Verdict(r)}

\* A request that comes to its end has its whole story in the journal: one
\* outcome, and the one its verb had.  An insert that fails, or a process that
\* ends before it, leaves an entry out and never puts a wrong one, and later
\* requests are not affected.  ("refresh" has no outcome but that its
\* collection was made: see the README.)
JournalIsComplete ==
    \A r \in Reqs :
        /\ phase[r] = "end" /\ r \notin lost => audit[r] = Whole(r)
        /\ phase[r] \in {"end", "cut"} => audit[r] \subseteq Whole(r)

\* Once backups, faults and restarts are over, the fleet view tells the truth
\* about every host that has a backup, its page shows that backup in all its
\* metadata, and they go on doing so.
ViewConverges ==
    \A h \in Hosts \ Disabled : <>[](repo[h] > 0 =>
        /\ FleetState(h) = IF repo[h] > expired[h] THEN "ok" ELSE "overdue"
        /\ \A i \in DOMAIN Kinds : meta[h][i] = repo[h])

\* A host that is no longer probed from the console loses its old probe
\* result, even one that has to wait for the end of a backoff.
StaleProbeGoes == \A h \in Hosts \ Disabled : <>[](h \in probe => h \in probed)

\* Run keeps cycling.
CyclesGoOn == []<>(loop = "select")

-----------------------------------------------------------------------------
(* The strengthening that makes the safety invariants inductive.           *)

Typed ==
    /\ repo \in [Hosts -> Nat] /\ expired \in [Hosts -> Nat]
    /\ row \in [Hosts -> Int]
    /\ stage \in [Workers -> Stages] /\ chk \in [Workers -> Int]
    /\ running \in [Hosts -> Reqs \cup {None}]
    /\ phase \in [Reqs -> Phases] /\ target \in [Reqs -> Hosts \cup {None}]

\* What a collection carries is a backup that exists, and so is what a row
\* says.
SeenIsPast ==
    /\ \A h \in Hosts : row[h] <= repo[h]
    /\ \A w \in Workers : stage[w] \in {"note", "meta", "save", "probe", "record"} =>
            chk[w] <= repo[HostOf(w)]

IInv ==
    /\ Typed
    /\ RunningIsExact
    /\ NoStrayCollection
    /\ SeenIsPast

\* What the journal should have of a request at each point of Action, but for
\* the inserts that failed, and what its verb has come to.
Owed(r) ==
    CASE phase[r] \in {"new", "claimed"} -> {}
      [] phase[r] \in {"refresh", "exec", "stuck", "outcome"} -> {"asked"}
      [] phase[r] = "collect" -> {"asked", "success"}
      [] phase[r] = "release" -> {"asked", "failure"}
      [] OTHER -> Whole(r)

JournalFollows(r) ==
    /\ audit[r] \subseteq Owed(r)
    /\ r \notin lost /\ phase[r] # "cut" => audit[r] = Owed(r)
    /\ phase[r] \in {"refresh", "collect"} => ok[r]
    /\ phase[r] = "release" => ~ ok[r]
    /\ phase[r] = "new" => target[r] = None
    /\ phase[r] = "cut" => target[r] # None

JInv ==
    /\ crashes \in Nat /\ ok \in [Reqs -> BOOLEAN]
    /\ DOMAIN audit = Reqs /\ audit = [r \in Reqs |-> audit[r]]
    /\ \A r \in Reqs : JournalFollows(r)

\* The metadata are asked one after the other, from the first, and each
\* collection starts there again.
KindsInOrder ==
    \A w \in Workers :
        /\ stage[w] \in {"off", "queued", "status", "note"} => next[w] = 1
        /\ stage[w] \in {"meta", "save"} => next[w] \in DOMAIN Kinds

-----------------------------------------------------------------------------
(* What was promised: Operations.tla.                                      *)

OpState(r) ==
    CASE phase[r] = "new" -> "new"
      [] Live(r) -> "working"
      [] phase[r] = "end" /\ target[r] = None -> "refused"
      [] OTHER -> IF "success" \in audit[r] THEN "success"
                  ELSE IF "failure" \in audit[r] THEN "failure"
                  ELSE IF phase[r] = "cut" THEN "cut" ELSE "lost"

Ops == INSTANCE Operations WITH
    holder <- running, state <- [r \in Reqs |-> OpState(r)], ends <- crashes

\* Action and postAction implement Operations: one request at a time on a
\* host, refusals only when there is a reason, one outcome for each request,
\* the one in the journal unless its insert failed, no host kept by an
\* operation that is over, and none cut short but by the end of the process.
OperationsAreSerial == Ops!Spec
=============================================================================
