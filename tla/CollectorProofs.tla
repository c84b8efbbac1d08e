-------------------------- MODULE CollectorProofs ---------------------------
(***************************************************************************)
(* Proofs about Collector, for any set of hosts and requests, any kinds of *)
(* metadata and any number of backups, faults, hangs and restarts; and     *)
(* that Collector implements Operations.                                   *)
(***************************************************************************)
EXTENDS Collector, TLAPS

\* At first no host is reserved and no collection runs.
LEMMA InitIInv == Init => IInv
<1>. SUFFICES ASSUME Init PROVE IInv
    OBVIOUS
<1>. USE CollectorAssumption
<1>1. Typed
    BY DEF Init, Typed, Stages, Phases, Never
<1>2. RunningIsExact /\ NoStrayCollection
    BY DEF Init, RunningIsExact, NoStrayCollection, Live, Workers
<1>3. SeenIsPast
    BY DEF Init, SeenIsPast, Never
<1>. QED
    BY <1>1, <1>2, <1>3 DEF IInv

\* A worker that is collecting has a host.
LEMMA WorkerHasHost ==
    ASSUME IInv, NEW w \in Workers, stage[w] # "off"
    PROVE  HostOf(w) \in Hosts
BY DEF IInv, NoStrayCollection, RunningIsExact, Live, HostOf, Workers

\* A verb adds at most one snapshot to the host it runs on.
LEMMA RepoGrows ==
    ASSUME IInv, NEW r \in Reqs, phase[r] = "exec",
           BackupHappens(r) \/ UNCHANGED repo
    PROVE  repo' \in [Hosts -> Nat] /\ \A h \in Hosts : repo[h] <= repo'[h]
<1>1. PICK t \in Hosts : target[r] = t
    BY DEF IInv, RunningIsExact, Live
<1>2. CASE BackupHappens(r)
    BY <1>1, <1>2 DEF BackupHappens, IInv, Typed
<1>3. CASE UNCHANGED repo
    BY <1>3 DEF IInv, Typed
<1>. QED
    BY <1>2, <1>3

\* Every step preserves the invariant: one case per action.
LEMMA NextIInv == IInv /\ [Next]_vars => IInv'
<1>. SUFFICES ASSUME IInv, [Next]_vars PROVE IInv'
    OBVIOUS
<1>. USE CollectorAssumption DEF IInv, Workers
<1>1. ASSUME NEW h \in Hosts, TimerBackup(h) PROVE IInv'
    BY <1>1 DEF Typed, TimerBackup, workVars, reqVars, dbVars, Stages,
       Phases, Never, Unreachable, RunningIsExact, Live, NoStrayCollection,
       SeenIsPast, HostOf
<1>2. ASSUME NEW h \in Hosts, Expire(h) PROVE IInv'
    BY <1>2 DEF Typed, Expire, workVars, reqVars, dbVars, Stages, Phases,
       Never, Unreachable, RunningIsExact, Live, NoStrayCollection,
       SeenIsPast, HostOf
<1>3. ASSUME NEW h \in Hosts, BackoffElapses(h) PROVE IInv'
    BY <1>3 DEF Typed, BackoffElapses, hostVars, dbVars, workVars, reqVars,
       Stages, Phases, Never, Unreachable, RunningIsExact, Live,
       NoStrayCollection, SeenIsPast, HostOf
<1>4. ASSUME CollectAll PROVE IInv'
    BY <1>4 DEF Typed, CollectAll, hostVars, dbVars, reqVars, Stages,
       Phases, Never, Unreachable, RunningIsExact, Live, NoStrayCollection,
       SeenIsPast, HostOf
<1>5. ASSUME CycleEnds PROVE IInv'
    BY <1>5 DEF Typed, CycleEnds, hostVars, dbVars, workVars, reqVars,
       Stages, Phases, Never, Unreachable, RunningIsExact, Live,
       NoStrayCollection, SeenIsPast, HostOf
<1>6. ASSUME Tick PROVE IInv'
    BY <1>6 DEF Typed, Tick, hostVars, dbVars, workVars, reqVars, Stages,
       Phases, Never, Unreachable, RunningIsExact, Live, NoStrayCollection,
       SeenIsPast, HostOf
<1>7. ASSUME NEW h \in Hosts, StartCollect(h) PROVE IInv'
    BY <1>7 DEF Typed, StartCollect, hostVars, dbVars, reqVars, Enter,
       Stages, Phases, Never, Unreachable, RunningIsExact, Live,
       NoStrayCollection, SeenIsPast, HostOf
<1>8. ASSUME NEW w \in Workers, StatusOK(w) PROVE IInv'
    BY <1>8, WorkerHasHost DEF Typed, StatusOK, hostVars, dbVars, reqVars,
       Enter, Stages, Phases, Never, Unreachable, RunningIsExact, Live,
       NoStrayCollection, SeenIsPast, HostOf
<1>9. ASSUME NEW w \in Workers, StatusFails(w) PROVE IInv'
    BY <1>9, WorkerHasHost DEF Typed, StatusFails, hostVars, dbVars,
       reqVars, Fault, Enter, Stages, Phases, Never, Unreachable,
       RunningIsExact, Live, NoStrayCollection, SeenIsPast, HostOf
<1>10. ASSUME NEW w \in Workers, CallHangs(w) PROVE IInv'
    BY <1>10, WorkerHasHost DEF Typed, CallHangs, hostVars, dbVars,
       reqVars, Enter, Stages, Phases, Never, Unreachable, RunningIsExact,
       Live, NoStrayCollection, SeenIsPast, HostOf
<1>11. ASSUME NEW w \in Workers, Note(w) PROVE IInv'
    BY <1>11, WorkerHasHost DEF Typed, Note, hostVars, dbVars, reqVars,
       Enter, Stages, Phases, Never, Unreachable, RunningIsExact, Live,
       NoStrayCollection, SeenIsPast, HostOf
<1>12. ASSUME NEW w \in Workers, MetaOK(w) PROVE IInv'
    BY <1>12, WorkerHasHost DEF Typed, MetaOK, hostVars, dbVars, reqVars,
       Enter, Stages, Phases, Never, Unreachable, RunningIsExact, Live,
       NoStrayCollection, SeenIsPast, HostOf
<1>13. ASSUME NEW w \in Workers, MetaFails(w) PROVE IInv'
    BY <1>13, WorkerHasHost DEF Typed, MetaFails, hostVars, dbVars, reqVars,
       Fault, NextKind, Enter, Stages, Phases, Never, Unreachable,
       RunningIsExact, Live, NoStrayCollection, SeenIsPast, HostOf
<1>14. ASSUME NEW w \in Workers, Probe(w) PROVE IInv'
    BY <1>14, WorkerHasHost DEF Typed, Probe, hostVars, Enter, reqVars,
       Stages, Phases, Never, Unreachable, RunningIsExact, Live,
       NoStrayCollection, SeenIsPast, HostOf
<1>15. ASSUME NEW w \in Workers, Record(w) PROVE IInv'
    BY <1>15, WorkerHasHost DEF Typed, Record, hostVars, Leave, Enter,
       reqVars, Stages, Phases, Never, Unreachable, RunningIsExact, Live,
       NoStrayCollection, SeenIsPast, HostOf
<1>26. ASSUME NEW w \in Workers, SaveMeta(w) \/ SaveFails(w) PROVE IInv'
  <2>1. /\ stage[w] = "save"
        /\ \/ stage' = [stage EXCEPT ![w] = "probe"]
           \/ stage' = [stage EXCEPT ![w] = "meta"]
        /\ UNCHANGED <<repo, expired, row, chk, loop, running, phase, target>>
      BY <1>26 DEF SaveMeta, SaveFails, NextKind, Enter, hostVars, dbVars,
         reqVars
  <2>2. Typed' /\ RunningIsExact'
      BY <2>1 DEF Typed, Stages, RunningIsExact, Live
  <2>3. NoStrayCollection'
      BY <2>1 DEF Typed, NoStrayCollection
  <2>4. SeenIsPast'
    <3>1. \A v \in Workers : HostOf(v)' = HostOf(v)
        BY <2>1 DEF HostOf
    <3>. QED
        BY <2>1, <3>1 DEF Typed, SeenIsPast
  <2>. QED
      BY <2>2, <2>3, <2>4
<1>27. ASSUME NEW w \in Workers, ProbeUnsaved(w) PROVE IInv'
    BY <1>27, WorkerHasHost DEF Typed, ProbeUnsaved, hostVars, Enter, reqVars,
       dbVars, Stages, Phases, Never, Unreachable, RunningIsExact, Live,
       NoStrayCollection, SeenIsPast, HostOf
<1>28. ASSUME NEW w \in Workers, RecordFails(w) PROVE IInv'
    BY <1>28, WorkerHasHost DEF Typed, RecordFails, hostVars, Leave, Enter,
       reqVars, dbVars, Stages, Phases, Never, Unreachable, RunningIsExact,
       Live, NoStrayCollection, SeenIsPast, HostOf
<1>29. ASSUME NEW r \in Reqs, VerbHangs(r) PROVE IInv'
    BY <1>29 DEF Typed, VerbHangs, hostVars, dbVars, workVars, Goto,
       Stages, Phases, Never, Unreachable, RunningIsExact, Live,
       NoStrayCollection, SeenIsPast, HostOf
<1>16. ASSUME NEW r \in Reqs, Claim(r) PROVE IInv'
  <2>1. Typed'
      BY <1>16 DEF Typed, Claim, hostVars, dbVars, workVars, Goto, Stages,
         Phases, Never, Unreachable
  <2>2. RunningIsExact'
      BY <1>16 DEF Typed, Claim, hostVars, dbVars, workVars, Goto,
         RunningIsExact, Live
  <2>3. NoStrayCollection'
      BY <1>16 DEF Typed, Claim, hostVars, dbVars, workVars, Goto,
         NoStrayCollection
  <2>4. SeenIsPast'
    <3>1. PICK h \in Hosts : target' = [target EXCEPT ![r] = h]
        BY <1>16 DEF Claim
    <3>2. stage[r] = "off" /\ r \notin Hosts
        BY <1>16 DEF Claim, NoStrayCollection
    <3>3. \A w \in Workers : stage[w] # "off" => HostOf(w)' = HostOf(w)
        BY <3>1, <3>2 DEF HostOf, Typed
    <3>. QED
        BY <1>16, <3>3 DEF Claim, Goto, hostVars, workVars, dbVars, SeenIsPast
  <2>. QED
      BY <2>1, <2>2, <2>3, <2>4
<1>17. ASSUME NEW r \in Reqs, Refuse(r) PROVE IInv'
    BY <1>17 DEF Typed, Refuse, hostVars, Goto, workVars, Stages, Phases,
       Never, Unreachable, RunningIsExact, Live, NoStrayCollection,
       SeenIsPast, HostOf
<1>18. ASSUME NEW r \in Reqs, Begin(r) PROVE IInv'
  <2>1. Typed'
      BY <1>18 DEF Typed, Begin, hostVars, Goto, Enter, Stages, Phases, Never,
         Unreachable
  <2>2. RunningIsExact'
    <3>1. /\ running' = running /\ target' = target /\ phase[r] = "claimed"
          /\ \/ phase' = [phase EXCEPT ![r] = "refresh"]
             \/ phase' = [phase EXCEPT ![r] = "exec"]
        BY <1>18 DEF Begin, Goto
    <3>2. \A q \in Reqs : Live(q)' <=> Live(q)
        BY <3>1 DEF Typed, Live
    <3>. QED
        BY <3>1, <3>2 DEF RunningIsExact, Typed
  <2>3. NoStrayCollection'
      BY <1>18 DEF Typed, Begin, hostVars, Goto, Enter, NoStrayCollection
  <2>4. SeenIsPast'
      BY <1>18 DEF Typed, Begin, hostVars, Goto, Enter, SeenIsPast, HostOf,
         Unreachable
  <2>. QED
      BY <2>1, <2>2, <2>3, <2>4
<1>19. ASSUME NEW r \in Reqs, ExecOK(r) PROVE IInv'
  <2>1. Live(r) /\ target[r] \in Hosts
      BY <1>19 DEF ExecOK, Live, RunningIsExact
  <2>2. repo' \in [Hosts -> Nat] /\ \A h \in Hosts : repo[h] <= repo'[h]
      BY <1>19, RepoGrows DEF ExecOK
  <2>3. Typed'
      BY <1>19, <2>2 DEF Typed, ExecOK, dbVars, Goto, workVars, Phases
  <2>4. RunningIsExact' /\ NoStrayCollection'
      BY <1>19 DEF Typed, ExecOK, dbVars, Goto, workVars, RunningIsExact,
         NoStrayCollection, Live
  <2>5. SeenIsPast'
    <3>1. UNCHANGED <<row, stage, chk, target>>
        BY <1>19 DEF ExecOK, dbVars, workVars
    <3>2. \A w \in Workers : stage[w] # "off" => HostOf(w) \in Hosts
        BY WorkerHasHost
    <3>. QED
        BY <2>2, <3>1, <3>2 DEF Typed, SeenIsPast, HostOf
  <2>. QED
      BY <2>3, <2>4, <2>5
<1>20. ASSUME NEW r \in Reqs, ExecFails(r) PROVE IInv'
  <2>1. Live(r) /\ target[r] \in Hosts
      BY <1>20 DEF ExecFails, Live, RunningIsExact
  <2>2. repo' \in [Hosts -> Nat] /\ \A h \in Hosts : repo[h] <= repo'[h]
      BY <1>20, RepoGrows DEF ExecFails
  <2>3. Typed'
      BY <1>20, <2>2 DEF Typed, ExecFails, dbVars, Goto, workVars, Phases
  <2>4. RunningIsExact' /\ NoStrayCollection'
      BY <1>20 DEF Typed, ExecFails, dbVars, Goto, workVars, RunningIsExact,
         NoStrayCollection, Live
  <2>5. SeenIsPast'
    <3>1. UNCHANGED <<row, stage, chk, target>>
        BY <1>20 DEF ExecFails, dbVars, workVars
    <3>2. \A w \in Workers : stage[w] # "off" => HostOf(w) \in Hosts
        BY WorkerHasHost
    <3>. QED
        BY <2>2, <3>1, <3>2 DEF Typed, SeenIsPast, HostOf
  <2>. QED
      BY <2>3, <2>4, <2>5
<1>21. ASSUME NEW r \in Reqs, RefreshEnds(r) PROVE IInv'
    BY <1>21 DEF Typed, RefreshEnds, hostVars, dbVars, workVars, Goto,
       Stages, Phases, Never, Unreachable, RunningIsExact, Live,
       NoStrayCollection, SeenIsPast, HostOf
<1>22. ASSUME NEW r \in Reqs, Outcome(r) PROVE IInv'
  <2>1. Typed'
      BY <1>22 DEF Typed, Outcome, hostVars, Goto, Enter, Stages, Phases,
         Never, Unreachable
  <2>2. RunningIsExact'
    <3>1. /\ running' = running /\ target' = target /\ phase[r] = "outcome"
          /\ \/ phase' = [phase EXCEPT ![r] = "collect"]
             \/ phase' = [phase EXCEPT ![r] = "release"]
        BY <1>22 DEF Outcome, Goto
    <3>2. \A q \in Reqs : Live(q)' <=> Live(q)
        BY <3>1 DEF Typed, Live
    <3>. QED
        BY <3>1, <3>2 DEF RunningIsExact, Typed
  <2>3. NoStrayCollection'
      BY <1>22 DEF Typed, Outcome, hostVars, Goto, Enter, NoStrayCollection
  <2>4. SeenIsPast'
      BY <1>22 DEF Typed, Outcome, hostVars, Goto, Enter, SeenIsPast, HostOf,
         Unreachable
  <2>. QED
      BY <2>1, <2>2, <2>3, <2>4
<1>23. ASSUME NEW r \in Reqs, Release(r) PROVE IInv'
  <2>1. Typed'
      BY <1>23 DEF Typed, Release, hostVars, dbVars, workVars, Goto, Stages,
         Phases, Never, Unreachable
  <2>2. RunningIsExact'
    <3>1. Live(r)
        BY <1>23 DEF Release, Live
    <3>2. PICK h \in Hosts : target[r] = h /\ running[h] = r
        BY <3>1 DEF RunningIsExact
    <3>3. /\ running' = [running EXCEPT ![h] = None] /\ target' = target
          /\ phase' = [phase EXCEPT ![r] = "end"]
        BY <1>23, <3>2 DEF Release, Goto
    <3>4. \A q \in Reqs : Live(q)' <=> Live(q) /\ q # r
        BY <3>3 DEF Typed, Live
    <3>. QED
        BY <3>2, <3>3, <3>4 DEF RunningIsExact, Typed
  <2>3. NoStrayCollection'
      BY <1>23 DEF Typed, Release, hostVars, dbVars, workVars, Goto,
         NoStrayCollection
  <2>4. SeenIsPast'
      BY <1>23 DEF Typed, Release, hostVars, dbVars, workVars, Goto,
         SeenIsPast, HostOf, Unreachable
  <2>. QED
      BY <2>1, <2>2, <2>3, <2>4
<1>24. ASSUME Restart PROVE IInv'
    BY <1>24 DEF Typed, Restart, hostVars, dbVars, Stages, Phases, Never,
       Unreachable, RunningIsExact, Live, NoStrayCollection, SeenIsPast,
       HostOf
<1>25. CASE UNCHANGED vars
    BY <1>25 DEF vars, hostVars, workVars, reqVars, dbVars, Typed,
       RunningIsExact, Live,
       NoStrayCollection, SeenIsPast, HostOf
<1>. QED
    BY <1>1, <1>2, <1>3, <1>4, <1>5, <1>6, <1>7, <1>8, <1>9, <1>10, <1>11,
       <1>12, <1>13, <1>14, <1>15, <1>16, <1>17, <1>18, <1>19, <1>20, <1>21,
       <1>22, <1>23, <1>24, <1>25, <1>26, <1>27, <1>28, <1>29
       DEF Next, Run, Collect, Act

-----------------------------------------------------------------------------
\* The strengthened invariant holds in every state of every behaviour.
THEOREM Invariance == Spec => []IInv
<1>. QED
    BY InitIInv, NextIInv, PTL DEF Spec

\* runMu and the deferred release: at any time running names exactly the
\* operations under way, each on the host it reserved.
THEOREM OneOperationPerHost == Spec => []RunningIsExact
<1>1. IInv => RunningIsExact
    BY DEF IInv
<1>. QED
    BY <1>1, Invariance, PTL

\* CollectAll's WaitGroup: no collection survives the cycle or the request
\* that started it.
THEOREM CyclesDoNotOverlap == Spec => []NoStrayCollection
<1>1. IInv => NoStrayCollection
    BY DEF IInv
<1>. QED
    BY <1>1, Invariance, PTL

\* Fleet: "ok" is said only of a host whose last backup is recent enough.
THEOREM OkIsTrue == Spec => []NoFalseOK
<1>1. IInv => NoFalseOK
  <2>. SUFFICES ASSUME IInv, NEW h \in Hosts, FleetState(h) = "ok"
                PROVE  repo[h] > expired[h]
      BY DEF NoFalseOK
  <2>1. ~(row[h] <= expired[h])
      BY DEF FleetState
  <2>. QED
      BY <2>1 DEF IInv, Typed, SeenIsPast
<1>. QED
    BY <1>1, Invariance, PTL

-----------------------------------------------------------------------------
(* The journal.                                                            *)

\* At first nothing was asked.
LEMMA InitJInv == Init => JInv
BY DEF Init, JInv, JournalFollows, Owed

\* Collections, cycles and time leave requests and journal alone.
LEMMA JInvFrame ==
    ASSUME JInv, UNCHANGED <<phase, audit, lost, ok, target, crashes>>
    PROVE  JInv'
BY DEF JInv, JournalFollows, Owed, Whole, Verdict

\* Which actions these are.
LEMMA OthersKeepJournal ==
    ASSUME Run \/ \/ \E h \in Hosts : \/ TimerBackup(h) \/ Expire(h)
                                       \/ BackoffElapses(h) \/ StartCollect(h)
                  \/ \E w \in Workers : Collect(w) \/ CallHangs(w)
    PROVE  UNCHANGED <<phase, audit, lost, ok, target, crashes, running>>
<1>1. ASSUME Run \/ \E h \in Hosts : \/ TimerBackup(h) \/ Expire(h)
                                      \/ BackoffElapses(h) \/ StartCollect(h)
      PROVE  UNCHANGED <<phase, audit, lost, ok, target, crashes, running>>
    BY <1>1 DEF Run, CollectAll, CycleEnds, Tick, TimerBackup, Expire,
       BackoffElapses, StartCollect, envVars, reqVars, dbVars
<1>2. ASSUME NEW w \in Workers, Collect(w) \/ CallHangs(w)
      PROVE  UNCHANGED <<phase, audit, lost, ok, target, crashes, running>>
    BY <1>2 DEF Collect, StatusOK, StatusFails, Note, MetaOK, MetaFails,
       SaveMeta, SaveFails, Probe, ProbeUnsaved, Record, RecordFails,
       CallHangs, envVars, reqVars, dbVars
<1>. QED
    BY <1>1, <1>2

\* An insert in the journal adds its entry, or loses it and is known to.
Wrote(r, word) ==
    /\ DOMAIN audit' = Reqs /\ audit' = [q \in Reqs |-> audit'[q]]
    /\ \A q \in Reqs \ {r} :
            audit'[q] = audit[q] /\ (q \in lost' <=> q \in lost)
    /\ \/ /\ audit'[r] = audit[r] \cup {word}
          /\ r \in lost' <=> r \in lost
       \/ audit'[r] = audit[r] /\ r \in lost'

\* This is what Journal does.
LEMMA JournalWrites ==
    ASSUME JInv, NEW r \in Reqs, NEW word, Journal(r, word)
    PROVE  Wrote(r, word)
<1>. USE DEF Wrote
<1>1. CASE /\ audit' = [audit EXCEPT ![r] = @ \cup {word}]
           /\ UNCHANGED lost
    BY <1>1 DEF JInv
<1>2. CASE lost' = lost \cup {r} /\ UNCHANGED audit
    BY <1>2 DEF JInv
<1>. QED
    BY <1>1, <1>2 DEF Journal

\* A step that leaves request q, and what the journal has of it, alone.
SameFor(q) ==
    /\ phase'[q] = phase[q] /\ ok'[q] = ok[q]
    /\ target'[q] = target[q] /\ audit'[q] = audit[q]
    /\ q \in lost' <=> q \in lost

\* A step of one request is a matter of what the journal has of that one.
LEMMA JInvStep ==
    ASSUME JInv, NEW r \in Reqs, JournalFollows(r)', crashes' = crashes,
           ok' \in [Reqs -> BOOLEAN],
           DOMAIN audit' = Reqs, audit' = [q \in Reqs |-> audit'[q]],
           \A q \in Reqs \ {r} : SameFor(q)
    PROVE  JInv'
<1>. USE DEF SameFor
<1>1. ASSUME NEW q \in Reqs \ {r} PROVE JournalFollows(q)'
    BY <1>1 DEF JInv, JournalFollows, Owed, Whole, Verdict
<1>. QED
    BY <1>1 DEF JInv

\* Every step keeps the journal in time with Action.
LEMMA NextJInv == IInv /\ JInv /\ [Next]_vars => JInv'
<1>. SUFFICES ASSUME IInv, JInv, [Next]_vars PROVE JInv'
    OBVIOUS
<1>. USE DEF IInv, Typed, Goto
<1>0. /\ ok \in [Reqs -> BOOLEAN] /\ DOMAIN audit = Reqs
      /\ audit = [q \in Reqs |-> audit[q]] /\ \A q \in Reqs : JournalFollows(q)
    BY DEF JInv
<1>1. ASSUME NEW r \in Reqs, Claim(r) PROVE JInv'
  <2>1. JournalFollows(r)'
      BY <1>0, <1>1 DEF Claim, dbVars, JournalFollows, Owed
  <2>2. \A q \in Reqs \ {r} : SameFor(q)
      BY <1>1 DEF Claim, dbVars, SameFor
  <2>. QED
      BY <1>0, <1>1, <2>1, <2>2, JInvStep DEF Claim, envVars, dbVars
<1>2. ASSUME NEW r \in Reqs, Refuse(r) PROVE JInv'
  <2>1. /\ Journal(r, "refused") /\ phase[r] = "new"
        /\ phase' = [phase EXCEPT ![r] = "end"]
        /\ UNCHANGED <<target, ok, crashes>>
      BY <1>2 DEF Refuse
  <2>2. audit[r] = {} /\ target[r] = None
      BY <1>0, <2>1 DEF JournalFollows, Owed
  <2>3. JournalFollows(r)'
    <3>1. Wrote(r, "refused")
        BY <2>1, JournalWrites
    <3>. QED
        BY <2>1, <2>2, <3>1 DEF Wrote, JournalFollows, Owed, Whole
  <2>. QED
    <3>1. Wrote(r, "refused")
        BY <2>1, JournalWrites
    <3>2. DOMAIN audit' = Reqs /\ audit' = [q \in Reqs |-> audit'[q]]
        BY <3>1 DEF Wrote
    <3>3. \A q \in Reqs \ {r} : SameFor(q)
        BY <2>1, <3>1 DEF Wrote, SameFor
    <3>4. ok' \in [Reqs -> BOOLEAN] /\ crashes' = crashes
        BY <1>0, <2>1
    <3>. QED
        BY <2>3, <3>2, <3>3, <3>4, JInvStep
<1>3. ASSUME NEW r \in Reqs, Begin(r) PROVE JInv'
  <2>1. /\ Journal(r, "asked") /\ phase[r] = "claimed"
        /\ UNCHANGED <<target, crashes>>
        /\ \/ /\ phase' = [phase EXCEPT ![r] = "refresh"]
              /\ ok' = [ok EXCEPT ![r] = TRUE]
           \/ phase' = [phase EXCEPT ![r] = "exec"] /\ ok' = ok
      BY <1>3 DEF Begin
  <2>2. audit[r] = {}
      BY <1>0, <2>1 DEF JournalFollows, Owed
  <2>3. JournalFollows(r)'
    <3>1. Wrote(r, "asked")
        BY <2>1, JournalWrites
    <3>2. phase'[r] \in {"refresh", "exec"} /\ (phase'[r] = "refresh" => ok'[r])
        BY <1>0, <2>1
    <3>. QED
        BY <2>2, <3>1, <3>2 DEF Wrote, JournalFollows, Owed
  <2>4. ok' \in [Reqs -> BOOLEAN] /\ \A q \in Reqs \ {r} : ok'[q] = ok[q]
      BY <1>0, <2>1
  <2>. QED
    <3>1. Wrote(r, "asked")
        BY <2>1, JournalWrites
    <3>2. \A q \in Reqs \ {r} : phase'[q] = phase[q] /\ target'[q] = target[q]
        BY <2>1
    <3>3. DOMAIN audit' = Reqs /\ audit' = [q \in Reqs |-> audit'[q]]
        BY <3>1 DEF Wrote
    <3>4. \A q \in Reqs \ {r} : SameFor(q)
        BY <2>4, <3>1, <3>2 DEF Wrote, SameFor
    <3>5. crashes' = crashes
        BY <2>1
    <3>. QED
        BY <2>3, <2>4, <3>3, <3>4, <3>5, JInvStep
<1>4. ASSUME NEW r \in Reqs, ExecOK(r) \/ ExecFails(r) PROVE JInv'
  <2>1. /\ phase[r] = "exec" /\ phase' = [phase EXCEPT ![r] = "outcome"]
        /\ UNCHANGED <<target, crashes, audit, lost>>
        /\ ok' = [ok EXCEPT ![r] = TRUE] \/ ok' = [ok EXCEPT ![r] = FALSE]
      BY <1>4 DEF ExecOK, ExecFails, envVars, dbVars
  <2>2. JournalFollows(r)'
      BY <1>0, <2>1 DEF JournalFollows, Owed
  <2>3. ok' \in [Reqs -> BOOLEAN] /\ \A q \in Reqs \ {r} : ok'[q] = ok[q]
      BY <1>0, <2>1
  <2>4. \A q \in Reqs \ {r} : SameFor(q)
      BY <2>1, <2>3 DEF SameFor
  <2>. QED
      BY <1>0, <2>1, <2>2, <2>3, <2>4, JInvStep
<1>5. ASSUME NEW r \in Reqs, RefreshEnds(r) \/ VerbHangs(r) PROVE JInv'
  <2>1. /\ UNCHANGED <<target, crashes, audit, lost, ok>>
        /\ \/ phase[r] = "refresh" /\ phase' = [phase EXCEPT ![r] = "outcome"]
           \/ phase[r] = "exec" /\ phase' = [phase EXCEPT ![r] = "stuck"]
      BY <1>5 DEF RefreshEnds, VerbHangs, envVars, dbVars
  <2>2. JournalFollows(r)'
      BY <1>0, <2>1 DEF JournalFollows, Owed
  <2>3. \A q \in Reqs \ {r} : SameFor(q)
      BY <2>1 DEF SameFor
  <2>. QED
      BY <1>0, <2>1, <2>2, <2>3, JInvStep
<1>6. ASSUME NEW r \in Reqs, Outcome(r) PROVE JInv'
  <2>1. /\ Journal(r, Verdict(r)) /\ phase[r] = "outcome"
        /\ UNCHANGED <<target, crashes, ok>>
        /\ \/ ok[r] /\ phase' = [phase EXCEPT ![r] = "collect"]
           \/ ~ ok[r] /\ phase' = [phase EXCEPT ![r] = "release"]
      BY <1>6, Zenon DEF Outcome
  <2>2. /\ audit[r] \subseteq {"asked"}
        /\ r \notin lost => audit[r] = {"asked"}
      BY <1>0, <2>1 DEF JournalFollows, Owed
  <2>3. JournalFollows(r)'
    <3>1. CASE ok[r]
      <4>1. Journal(r, "success") /\ phase'[r] = "collect" /\ ok'[r]
          BY <2>1, <3>1 DEF Verdict
      <4>2. Wrote(r, "success")
          BY <4>1, JournalWrites
      <4>. QED
          BY <2>2, <4>1, <4>2 DEF Wrote, JournalFollows, Owed
    <3>2. CASE ~ ok[r]
      <4>1. Journal(r, "failure") /\ phase'[r] = "release" /\ ~ ok'[r]
          BY <2>1, <3>2 DEF Verdict
      <4>2. Wrote(r, "failure")
          BY <4>1, JournalWrites
      <4>. QED
          BY <2>2, <4>1, <4>2 DEF Wrote, JournalFollows, Owed
    <3>. QED
        BY <3>1, <3>2
  <2>. QED
    <3>1. Wrote(r, Verdict(r))
        BY <2>1, JournalWrites
    <3>2. \A q \in Reqs \ {r} : phase'[q] = phase[q]
        BY <2>1
    <3>3. DOMAIN audit' = Reqs /\ audit' = [q \in Reqs |-> audit'[q]]
        BY <3>1 DEF Wrote
    <3>4. \A q \in Reqs \ {r} : SameFor(q)
        BY <2>1, <3>1, <3>2 DEF Wrote, SameFor
    <3>5. ok' \in [Reqs -> BOOLEAN] /\ crashes' = crashes
        BY <1>0, <2>1
    <3>. QED
        BY <2>3, <3>3, <3>4, <3>5, JInvStep
<1>7. ASSUME NEW r \in Reqs, Release(r) PROVE JInv'
  <2>1. /\ phase[r] \in {"release", "collect"}
        /\ phase' = [phase EXCEPT ![r] = "end"]
        /\ UNCHANGED <<target, crashes, audit, lost, ok>>
      BY <1>7 DEF Release, envVars, dbVars
  <2>2. target[r] # None
    <3>1. Live(r)
        BY <2>1 DEF Live
    <3>2. target[r] \in Hosts
        BY <3>1 DEF RunningIsExact
    <3>. QED
        BY <3>2, CollectorAssumption
  <2>3. JournalFollows(r)'
      BY <1>0, <2>1, <2>2 DEF JournalFollows, Owed, Whole, Verdict
  <2>4. \A q \in Reqs \ {r} : SameFor(q)
      BY <2>1 DEF SameFor
  <2>. QED
      BY <1>0, <2>1, <2>3, <2>4, JInvStep
<1>8. ASSUME Restart PROVE JInv'
  <2>1. /\ UNCHANGED <<target, audit, lost, ok>> /\ crashes' = crashes + 1
        /\ phase' = [q \in Reqs |-> IF Live(q) THEN "cut" ELSE phase[q]]
      BY <1>8 DEF Restart, dbVars
  <2>2. ASSUME NEW q \in Reqs, Live(q) PROVE JournalFollows(q)'
    <3>1. phase'[q] = "cut" /\ target[q] # None
        BY <2>1, <2>2, CollectorAssumption DEF RunningIsExact
    <3>2. audit[q] \subseteq {"asked", Verdict(q)}
        BY <1>0, <2>2 DEF JournalFollows, Owed, Live, Phases, Verdict
    <3>. QED
        BY <2>1, <3>1, <3>2 DEF JournalFollows, Owed, Whole, Verdict
  <2>3. ASSUME NEW q \in Reqs, ~ Live(q) PROVE JournalFollows(q)'
    <3>1. phase'[q] = phase[q]
        BY <2>1, <2>3
    <3>. QED
        BY <1>0, <2>1, <3>1 DEF JournalFollows, Owed, Whole, Verdict
  <2>. QED
      BY <2>1, <2>2, <2>3 DEF JInv
<1>9. ASSUME UNCHANGED <<phase, audit, lost, ok, target, crashes>> PROVE JInv'
    BY <1>9, JInvFrame
<1>10. UNCHANGED vars => UNCHANGED <<phase, audit, lost, ok, target, crashes>>
    BY DEF vars, envVars, reqVars, dbVars
<1>. QED
    BY <1>1, <1>2, <1>3, <1>4, <1>5, <1>6, <1>7, <1>8, <1>9, <1>10,
       OthersKeepJournal DEF Next, Act

\* Action and postAction: a request that is over has in the journal its
\* refusal, or that it was asked and the one outcome it had; a restart or an
\* insert that fails leaves an entry out and never puts a wrong one.
THEOREM JournalHasTheOutcome == Spec => []JournalIsComplete
<1>1. JInv => JournalIsComplete
    BY DEF JInv, JournalFollows, Owed, JournalIsComplete
<1>. QED
    BY <1>1, InitJInv, NextJInv, Invariance, PTL DEF Spec

-----------------------------------------------------------------------------
(* Types.                                                                  *)

Words == {"refused", "asked", "success", "failure"}

TypedHosts ==
    /\ repo \in [Hosts -> 0..MaxBackups]
    /\ expired \in [Hosts -> 0..MaxBackups]
    /\ row \in [Hosts -> Never..MaxBackups]
    /\ chk \in [Workers -> Never..MaxBackups]
    /\ next \in [Workers -> 1..(Len(Kinds) + 1)]
    /\ seen \in [Workers -> Absent..MaxBackups]
    /\ meta \in [Hosts -> [DOMAIN Kinds -> Absent..MaxBackups]]
TypedRest ==
    /\ faults \in 0..MaxFaults /\ hangs \in 0..MaxHangs
    /\ crashes \in 0..MaxCrashes
    /\ loop \in {"collect", "wait", "select"}
    /\ bo \in [Hosts -> {"none", "wait", "due"}]
    /\ verb \in [Reqs -> Verbs \cup {None}]
    /\ probe \subseteq Hosts
    /\ probed \subseteq Hosts
TypedAudit == audit \in [Reqs -> SUBSET Words] /\ lost \subseteq Reqs

\* TypeOK by its parts.
LEMMA TypeOKParts ==
    ASSUME IInv, JInv
    PROVE  TypeOK <=> TypedHosts /\ TypedRest /\ TypedAudit
BY DEF TypeOK, TypedHosts, TypedRest, TypedAudit, Words, IInv, Typed, JInv

\* The steps keep the backups, the rows and the metadata within bounds, and
\* the kinds in order.
LEMMA NextTypedHosts ==
    IInv /\ TypedHosts /\ KindsInOrder /\ [Next]_vars => TypedHosts' /\ KindsInOrder'
<1>. SUFFICES ASSUME IInv, TypedHosts, KindsInOrder, [Next]_vars
     PROVE  TypedHosts' /\ KindsInOrder'
    OBVIOUS
<1>. USE CollectorAssumption DEF TypedHosts, KindsInOrder, Workers, Never,
         Unreachable, Absent
<1>0. /\ Len(Kinds) \in Nat /\ DOMAIN Kinds = 1..Len(Kinds)
      /\ stage \in [Workers -> Stages] /\ NoStrayCollection
      /\ (Kinds = << >>) <=> Len(Kinds) = 0
    BY DEF IInv, Typed
<1>1. ASSUME NEW h \in Hosts, TimerBackup(h) PROVE TypedHosts' /\ KindsInOrder'
  <2>1. /\ UNCHANGED <<expired, row, meta, workVars>>
        /\ repo[h] < MaxBackups /\ repo' = [repo EXCEPT ![h] = @ + 1]
      BY <1>1 DEF TimerBackup, dbVars
  <2>2. repo' \in [Hosts -> 0..MaxBackups]
    <3>. HIDE DEF TypedHosts
    <3>1. repo \in [Hosts -> 0..MaxBackups]
        BY DEF TypedHosts
    <3>. QED
        BY <2>1, <3>1
  <2>. QED
      BY <2>1, <2>2 DEF workVars
<1>2. ASSUME NEW h \in Hosts, Expire(h) PROVE TypedHosts' /\ KindsInOrder'
    BY <1>0, <1>2 DEF Expire, workVars, dbVars
<1>3. ASSUME UNCHANGED <<hostVars, workVars, row, meta>>
      PROVE  TypedHosts' /\ KindsInOrder'
    BY <1>3 DEF hostVars, workVars
<1>4. ASSUME CollectAll PROVE TypedHosts' /\ KindsInOrder'
    BY <1>0, <1>4 DEF CollectAll, hostVars, dbVars, NoStrayCollection
<1>5. ASSUME NEW h \in Hosts, StartCollect(h) PROVE TypedHosts' /\ KindsInOrder'
    BY <1>0, <1>5 DEF StartCollect, Enter, hostVars, dbVars
<1>6. ASSUME NEW w \in Workers, StatusOK(w) PROVE TypedHosts' /\ KindsInOrder'
  <2>1. PICK t \in Hosts : HostOf(w) = t
      BY <1>6, WorkerHasHost DEF StatusOK
  <2>2. /\ UNCHANGED <<repo, expired, row, meta, next, seen>>
        /\ stage[w] = "status" /\ stage' = [stage EXCEPT ![w] = "note"]
        /\ chk' = [chk EXCEPT ![w] = repo[t]]
      BY <1>6, <2>1 DEF StatusOK, Enter, hostVars, dbVars
  <2>3. chk' \in [Workers -> Never..MaxBackups]
    <3>1. repo[t] \in Never..MaxBackups
        OBVIOUS
    <3>. HIDE DEF TypedHosts, Never
    <3>2. chk \in [Workers -> Never..MaxBackups]
        BY DEF TypedHosts
    <3>. QED
        BY <2>2, <3>1, <3>2
  <2>4. KindsInOrder'
    <3>. HIDE DEF TypedHosts
    <3>. QED
        BY <1>0, <2>2
  <2>. QED
      BY <2>2, <2>3, <2>4
<1>7. ASSUME NEW w \in Workers, StatusFails(w) PROVE TypedHosts' /\ KindsInOrder'
  <2>1. /\ UNCHANGED <<repo, expired, row, meta, next, seen>>
        /\ stage[w] = "status" /\ stage' = [stage EXCEPT ![w] = "note"]
        /\ chk' = [chk EXCEPT ![w] = -1]
      BY <1>7 DEF StatusFails, Enter, hostVars, dbVars
  <2>2. chk' \in [Workers -> Never..MaxBackups]
    <3>1. -1 \in Never..MaxBackups
        OBVIOUS
    <3>. HIDE DEF TypedHosts, Never
    <3>2. chk \in [Workers -> Never..MaxBackups]
        BY DEF TypedHosts
    <3>. QED
        BY <2>1, <3>1, <3>2
  <2>3. KindsInOrder'
    <3>. HIDE DEF TypedHosts
    <3>. QED
        BY <1>0, <2>1
  <2>. QED
      BY <2>1, <2>2, <2>3
<1>8. ASSUME NEW w \in Workers, CallHangs(w) PROVE TypedHosts' /\ KindsInOrder'
    BY <1>0, <1>8 DEF CallHangs, Enter, hostVars, dbVars
<1>9. ASSUME NEW w \in Workers, Note(w) PROVE TypedHosts' /\ KindsInOrder'
  <2>1. /\ UNCHANGED <<repo, expired, row, chk, next, seen, meta>>
        /\ stage[w] = "note"
        /\ stage' = [stage EXCEPT ![w] = "probe"]
           \/ (Kinds # << >> /\ stage' = [stage EXCEPT ![w] = "meta"])
      BY <1>9 DEF Note, Enter, hostVars, dbVars
  <2>. QED
      BY <1>0, <2>1
<1>10. ASSUME NEW w \in Workers, SaveMeta(w) PROVE TypedHosts' /\ KindsInOrder'
  <2>1. /\ UNCHANGED <<repo, expired, row, chk>> /\ stage[w] = "save"
        /\ seen' = [seen EXCEPT ![w] = -1]
        /\ next' = [next EXCEPT ![w] = @ + 1]
        /\ \/ next[w] = Len(Kinds) /\ stage' = [stage EXCEPT ![w] = "probe"]
           \/ next[w] # Len(Kinds) /\ stage' = [stage EXCEPT ![w] = "meta"]
      BY <1>10 DEF SaveMeta, NextKind, Enter, hostVars
  <2>2. HostOf(w) \in Hosts /\ next[w] \in DOMAIN Kinds
      BY <1>0, <2>1, WorkerHasHost
  <2>3. meta' = [meta EXCEPT ![HostOf(w)] =
                    [meta[HostOf(w)] EXCEPT ![next[w]] = seen[w]]]
      BY <1>10 DEF SaveMeta
  <2>4. meta' \in [Hosts -> [DOMAIN Kinds -> Absent..MaxBackups]]
    <3>1. seen[w] \in Absent..MaxBackups
        BY <2>2
    <3>2. meta[HostOf(w)] \in [DOMAIN Kinds -> Absent..MaxBackups]
        BY <2>2
    <3>3. [meta[HostOf(w)] EXCEPT ![next[w]] = seen[w]]
                \in [DOMAIN Kinds -> Absent..MaxBackups]
        BY <2>2, <3>1, <3>2
    <3>. QED
        BY <2>2, <2>3, <3>3
  <2>5. next' \in [Workers -> 1..(Len(Kinds) + 1)] /\ KindsInOrder'
    <3>. HIDE DEF TypedHosts
    <3>1. next \in [Workers -> 1..(Len(Kinds) + 1)]
        BY DEF TypedHosts
    <3>. QED
        BY <1>0, <2>1, <2>2, <3>1
  <2>6. seen' \in [Workers -> Absent..MaxBackups]
      BY <2>1
  <2>. QED
      BY <2>1, <2>4, <2>5, <2>6
<1>11. ASSUME NEW w \in Workers, MetaFails(w) \/ SaveFails(w)
       PROVE  TypedHosts' /\ KindsInOrder'
  <2>1. /\ UNCHANGED <<repo, expired, row, chk, meta>>
        /\ stage[w] \in {"meta", "save"}
        /\ seen' = seen \/ seen' = [seen EXCEPT ![w] = -1]
        /\ next' = [next EXCEPT ![w] = @ + 1]
        /\ \/ next[w] = Len(Kinds) /\ stage' = [stage EXCEPT ![w] = "probe"]
           \/ next[w] # Len(Kinds) /\ stage' = [stage EXCEPT ![w] = "meta"]
      BY <1>11 DEF MetaFails, SaveFails, NextKind, Enter, hostVars, dbVars
  <2>2. seen' \in [Workers -> Absent..MaxBackups]
    <3>1. -1 \in Absent..MaxBackups
        OBVIOUS
    <3>. HIDE DEF TypedHosts, Absent
    <3>2. seen \in [Workers -> Absent..MaxBackups]
        BY DEF TypedHosts
    <3>3. CASE seen' = seen
        BY <3>2, <3>3
    <3>4. CASE seen' = [seen EXCEPT ![w] = -1]
        BY <3>1, <3>2, <3>4
    <3>. QED
        BY <2>1, <3>3, <3>4
  <2>3. next' \in [Workers -> 1..(Len(Kinds) + 1)] /\ KindsInOrder'
    <3>. HIDE DEF TypedHosts
    <3>1. next \in [Workers -> 1..(Len(Kinds) + 1)]
        BY DEF TypedHosts
    <3>. QED
        BY <1>0, <2>1, <3>1
  <2>. QED
      BY <2>1, <2>2, <2>3
<1>18. ASSUME NEW w \in Workers, MetaOK(w) PROVE TypedHosts' /\ KindsInOrder'
  <2>1. PICK t \in Hosts : HostOf(w) = t
      BY <1>18, WorkerHasHost DEF MetaOK
  <2>2. /\ UNCHANGED <<repo, expired, row, chk, next, meta>>
        /\ stage[w] = "meta" /\ stage' = [stage EXCEPT ![w] = "save"]
        /\ seen' = [seen EXCEPT ![w] = repo[t]]
      BY <1>18, <2>1 DEF MetaOK, Enter, hostVars, dbVars
  <2>3. seen' \in [Workers -> Absent..MaxBackups]
    <3>1. repo[t] \in Absent..MaxBackups
        OBVIOUS
    <3>. HIDE DEF TypedHosts, Absent
    <3>2. seen \in [Workers -> Absent..MaxBackups]
        BY DEF TypedHosts
    <3>. QED
        BY <2>2, <3>1, <3>2
  <2>4. KindsInOrder'
    <3>. HIDE DEF TypedHosts
    <3>. QED
        BY <1>0, <2>2
  <2>. QED
      BY <2>2, <2>3, <2>4
<1>19. ASSUME NEW w \in Workers, ProbeUnsaved(w)
       PROVE  TypedHosts' /\ KindsInOrder'
    BY <1>0, <1>19 DEF ProbeUnsaved, Enter, hostVars, dbVars
<1>12. ASSUME NEW w \in Workers, Probe(w) PROVE TypedHosts' /\ KindsInOrder'
    BY <1>0, <1>12 DEF Probe, Enter, hostVars
<1>13. ASSUME NEW w \in Workers, Record(w) \/ RecordFails(w)
       PROVE  TypedHosts' /\ KindsInOrder'
  <2>1. PICK t \in Hosts : HostOf(w) = t
      BY <1>13, WorkerHasHost DEF Record, RecordFails
  <2>2. /\ UNCHANGED <<repo, expired, meta, seen>>
        /\ stage[w] = "record" /\ stage' = [stage EXCEPT ![w] = "off"]
        /\ row' = row \/ row' = [row EXCEPT ![t] = chk[w]]
        /\ chk' = [chk EXCEPT ![w] = Never]
        /\ next' = [next EXCEPT ![w] = 1]
      BY <1>13, <2>1 DEF Record, RecordFails, Leave, Enter, hostVars, dbVars
  <2>3. Never \in Never..MaxBackups /\ 1 \in 1..(Len(Kinds) + 1)
      BY <1>0
  <2>4. /\ chk \in [Workers -> Never..MaxBackups]
        /\ row \in [Hosts -> Never..MaxBackups]
        /\ next \in [Workers -> 1..(Len(Kinds) + 1)]
      OBVIOUS
  <2>5. row' \in [Hosts -> Never..MaxBackups]
    <3>. HIDE DEF TypedHosts, Never, KindsInOrder
    <3>1. CASE row' = row
        BY <2>4, <3>1
    <3>2. CASE row' = [row EXCEPT ![t] = chk[w]]
        BY <2>4, <3>2
    <3>. QED
        BY <2>2, <3>1, <3>2
  <2>6. chk' \in [Workers -> Never..MaxBackups]
    <3>. HIDE DEF TypedHosts, Never, KindsInOrder
    <3>. QED
        BY <2>2, <2>3, <2>4
  <2>7. next' \in [Workers -> 1..(Len(Kinds) + 1)] /\ KindsInOrder'
    <3>. HIDE DEF TypedHosts
    <3>. QED
        BY <1>0, <2>2, <2>3, <2>4
  <2>. QED
      BY <2>2, <2>5, <2>6, <2>7
<1>14. ASSUME NEW r \in Reqs, ExecOK(r) \/ ExecFails(r)
       PROVE  TypedHosts' /\ KindsInOrder'
  <2>1. PICK t \in Hosts : target[r] = t
      BY <1>14 DEF ExecOK, ExecFails, IInv, RunningIsExact, Live
  <2>2. repo' \in [Hosts -> 0..MaxBackups]
    <3>1. BackupHappens(r) \/ repo' = repo
        BY <1>14 DEF ExecOK, ExecFails
    <3>2. BackupHappens(r) => repo[t] < MaxBackups /\ repo' = [repo EXCEPT ![t] = @ + 1]
        BY <2>1 DEF BackupHappens
    <3>3. repo[t] + 1 \in 0..MaxBackups \/ ~ repo[t] < MaxBackups
        OBVIOUS
    <3>. HIDE DEF TypedHosts
    <3>4. repo \in [Hosts -> 0..MaxBackups]
        BY DEF TypedHosts
    <3>. QED
        BY <3>1, <3>2, <3>3, <3>4
  <2>. QED
      BY <1>14, <2>2 DEF ExecOK, ExecFails, workVars, dbVars
<1>15. ASSUME NEW r \in Reqs, Begin(r) \/ Outcome(r)
       PROVE  TypedHosts' /\ KindsInOrder'
  <2>1. /\ UNCHANGED <<repo, expired, row, chk, next, seen, meta>>
        /\ stage[r] = "off"
        /\ stage' = stage \/ stage' = [stage EXCEPT ![r] = "status"]
      BY <1>0, <1>15 DEF Begin, Outcome, Enter, hostVars, NoStrayCollection
  <2>. QED
      BY <1>0, <2>1
<1>16. ASSUME Restart PROVE TypedHosts' /\ KindsInOrder'
    BY <1>0, <1>16 DEF Restart, hostVars, dbVars
<1>17. ASSUME UNCHANGED vars \/ CycleEnds \/ Tick
              \/ (\E h \in Hosts : BackoffElapses(h))
              \/ \E r \in Reqs : \/ Claim(r) \/ Refuse(r) \/ VerbHangs(r)
                                \/ RefreshEnds(r) \/ Release(r)
       PROVE  UNCHANGED <<hostVars, workVars, row, meta>>
    BY <1>17 DEF vars, CycleEnds, Tick, BackoffElapses, Claim, Refuse,
       VerbHangs, RefreshEnds, Release, dbVars, hostVars, workVars
<1>. QED
    BY <1>1, <1>2, <1>3, <1>4, <1>5, <1>6, <1>7, <1>8, <1>9, <1>10, <1>11,
       <1>12, <1>13, <1>14, <1>15, <1>16, <1>17, <1>18, <1>19
       DEF Next, Run, Collect, Act

\* and the rest within theirs.
LEMMA NextTypedRest == IInv /\ TypedRest /\ [Next]_vars => TypedRest'
<1>. SUFFICES ASSUME IInv, TypedRest, [Next]_vars PROVE TypedRest'
    OBVIOUS
<1>. USE CollectorAssumption DEF TypedRest
<1>1. ASSUME UNCHANGED <<envVars, loop, bo, verb, probe, probed>> PROVE TypedRest'
    BY <1>1 DEF envVars
<1>2. ASSUME Run PROVE TypedRest'
    BY <1>2 DEF Run, CollectAll, CycleEnds, Tick, envVars, reqVars, dbVars
<1>3. ASSUME NEW h \in Hosts, BackoffElapses(h) PROVE TypedRest'
    BY <1>3 DEF BackoffElapses, envVars, reqVars, dbVars
<1>4. ASSUME \/ \E w \in Workers : \/ StatusFails(w) \/ MetaFails(w)
                                    \/ SaveFails(w) \/ ProbeUnsaved(w)
                                    \/ RecordFails(w) \/ CallHangs(w)
             \/ \E r \in Reqs : \/ VerbHangs(r) \/ Refuse(r)
                                 \/ Begin(r) \/ Outcome(r)
      PROVE  TypedRest'
  <2>1. /\ UNCHANGED <<crashes, loop, bo, verb, probe, probed>>
        /\ \/ faults' = faults
           \/ faults < MaxFaults /\ faults' = faults + 1
        /\ \/ hangs' = hangs
           \/ hangs < MaxHangs /\ hangs' = hangs + 1
    <3>1. CASE \E w \in Workers : \/ StatusFails(w) \/ MetaFails(w)
                                  \/ SaveFails(w) \/ ProbeUnsaved(w)
                                  \/ RecordFails(w) \/ CallHangs(w)
        BY <3>1 DEF StatusFails, MetaFails, SaveFails, ProbeUnsaved,
           RecordFails, CallHangs, Hang, Fault, reqVars, dbVars
    <3>2. CASE \E r \in Reqs : \/ VerbHangs(r) \/ Refuse(r)
                               \/ Begin(r) \/ Outcome(r)
        BY <3>2 DEF VerbHangs, Refuse, Begin, Outcome, Journal, Hang, Fault,
           reqVars, dbVars
    <3>. QED
        BY <1>4, <3>1, <3>2
  <2>. QED
      BY <2>1
<1>5. ASSUME NEW w \in Workers, Note(w) PROVE TypedRest'
  <2>1. PICK t \in Hosts : HostOf(w) = t
      BY <1>5, WorkerHasHost DEF Note
  <2>2. \/ bo' = [bo EXCEPT ![t] = "wait"]
        \/ bo' = [bo EXCEPT ![t] = "none"]
      BY <1>5, <2>1 DEF Note
  <2>. QED
      BY <1>5, <2>2 DEF Note, envVars, reqVars, dbVars
<1>6. ASSUME NEW w \in Workers, Probe(w) PROVE TypedRest'
  <2>1. HostOf(w) \in Hosts
      BY <1>6, WorkerHasHost DEF Probe
  <2>2. probe' \subseteq Hosts
      BY <1>6, <2>1 DEF Probe
  <2>. QED
      BY <1>6, <2>2 DEF Probe, envVars, reqVars
<1>7. ASSUME NEW r \in Reqs, Claim(r) PROVE TypedRest'
    BY <1>7 DEF Claim, envVars, dbVars
<1>8. ASSUME Restart PROVE TypedRest'
    BY <1>8 DEF Restart, dbVars
<1>9. ASSUME \/ UNCHANGED vars
             \/ \E h \in Hosts : TimerBackup(h) \/ Expire(h) \/ StartCollect(h)
             \/ \E w \in Workers : \/ StatusOK(w) \/ MetaOK(w)
                                    \/ SaveMeta(w) \/ Record(w)
             \/ \E r \in Reqs : \/ ExecOK(r) \/ ExecFails(r)
                                 \/ RefreshEnds(r) \/ Release(r)
      PROVE  UNCHANGED <<envVars, loop, bo, verb, probe, probed>>
  <2>1. CASE UNCHANGED vars
      BY <2>1 DEF vars, reqVars, dbVars
  <2>2. ASSUME NEW h \in Hosts, TimerBackup(h) \/ Expire(h) \/ StartCollect(h)
        PROVE  UNCHANGED <<envVars, loop, bo, verb, probe, probed>>
      BY <2>2 DEF TimerBackup, Expire, StartCollect, reqVars, dbVars
  <2>3. ASSUME NEW w \in Workers,
               StatusOK(w) \/ MetaOK(w) \/ SaveMeta(w) \/ Record(w)
        PROVE  UNCHANGED <<envVars, loop, bo, verb, probe, probed>>
      BY <2>3 DEF StatusOK, MetaOK, SaveMeta, Record, reqVars, dbVars
  <2>4. ASSUME NEW r \in Reqs,
               ExecOK(r) \/ ExecFails(r) \/ RefreshEnds(r) \/ Release(r)
        PROVE  UNCHANGED <<envVars, loop, bo, verb, probe, probed>>
      BY <2>4 DEF ExecOK, ExecFails, RefreshEnds, Release, dbVars
  <2>. QED
      BY <1>9, <2>1, <2>2, <2>3, <2>4
<1>. QED
    BY <1>1, <1>2, <1>3, <1>4, <1>5, <1>6, <1>7, <1>8, <1>9
       DEF Next, Collect, Act

\* The journal has no other words.
LEMMA NextTypedAudit == JInv /\ TypedAudit /\ [Next]_vars => TypedAudit'
<1>. SUFFICES ASSUME JInv, TypedAudit, [Next]_vars PROVE TypedAudit'
    OBVIOUS
<1>1. ASSUME UNCHANGED <<audit, lost>> PROVE TypedAudit'
    BY <1>1 DEF TypedAudit
<1>2. ASSUME NEW r \in Reqs, NEW word \in Words, Journal(r, word)
      PROVE  TypedAudit'
  <2>1. audit[r] \cup {word} \in SUBSET Words
      BY DEF TypedAudit
  <2>2. CASE audit' = [audit EXCEPT ![r] = audit[r] \cup {word}] /\ lost' = lost
      BY <2>1, <2>2 DEF TypedAudit
  <2>3. CASE lost' = lost \cup {r} /\ audit' = audit
      BY <2>3 DEF TypedAudit
  <2>. QED
      BY <1>2, <2>2, <2>3 DEF Journal
<1>3. ASSUME NEW r \in Reqs, Refuse(r) \/ Begin(r) \/ Outcome(r)
      PROVE  TypedAudit'
  <2>1. \E word \in Words : Journal(r, word)
      BY <1>3, Zenon DEF Refuse, Begin, Outcome, Verdict, Words
  <2>. QED
      BY <1>2, <2>1
<1>4. ASSUME NEW r \in Reqs,
             \/ Claim(r) \/ ExecOK(r) \/ ExecFails(r) \/ RefreshEnds(r)
             \/ Release(r) \/ VerbHangs(r)
      PROVE  UNCHANGED <<audit, lost>>
    BY <1>4 DEF Claim, ExecOK, ExecFails, RefreshEnds, Release, VerbHangs, dbVars
<1>5. UNCHANGED vars \/ Restart => UNCHANGED <<audit, lost>>
    BY DEF vars, Restart, dbVars
<1>. QED
    BY <1>1, <1>3, <1>4, <1>5, OthersKeepJournal DEF Next, Act

\* The variables of Collector always have their type: no counter passes its
\* bound, no metadata is asked beyond the last kind.
THEOREM TypeCorrect == Spec => []TypeOK
<1>. DEFINE T == TypedHosts /\ TypedRest /\ TypedAudit /\ KindsInOrder
<1>1. Init => T
    BY CollectorAssumption
       DEF Init, TypedHosts, TypedRest, TypedAudit, KindsInOrder, Words, Never,
           Absent
<1>2. IInv /\ JInv /\ T /\ [Next]_vars => T'
    BY NextTypedHosts, NextTypedRest, NextTypedAudit
<1>3. IInv /\ JInv /\ T => TypeOK
    BY TypeOKParts
<1>. QED
    BY <1>1, <1>2, <1>3, InitJInv, NextJInv, Invariance, PTL DEF Spec

-----------------------------------------------------------------------------
(* The refinement.                                                         *)

\* The initial states are those of Operations.
LEMMA InitRefines == Init => Ops!Init
BY DEF Init, Ops!Init, OpState, Live

\* What is inside an operation, or beside it, is a stutter.
LEMMA Stutters ==
    ASSUME UNCHANGED <<running, crashes>>,
           \A q \in Reqs : OpState(q)' = OpState(q)
    PROVE  UNCHANGED Ops!vars
BY DEF Ops!vars

\* A request is worked on from the claim to the release.
LEMMA WorkingIsLive ==
    ASSUME NEW q \in Reqs, Live(q)
    PROVE  OpState(q) = "working"
BY DEF Live, OpState

\* Every step is a step of Operations, or a stutter.
LEMMA NextRefines == IInv /\ JInv /\ [Next]_vars => [Ops!Next]_(Ops!vars)
<1>. SUFFICES ASSUME IInv, JInv, [Next]_vars PROVE Ops!Next \/ UNCHANGED Ops!vars
    OBVIOUS
<1>. USE DEF IInv, Typed, Goto
<1>1. ASSUME UNCHANGED <<running, phase, audit, target, crashes>>
      PROVE  UNCHANGED Ops!vars
    BY <1>1, Stutters DEF OpState, Live
<1>2. ASSUME NEW r \in Reqs, Claim(r) PROVE Ops!Next
  <2>1. PICK h \in Hosts : /\ running[h] = None
                           /\ running' = [running EXCEPT ![h] = r]
      BY <1>2 DEF Claim
  <2>2. OpState(r) = "new" /\ OpState(r)' = "working"
      BY <1>2 DEF Claim, OpState, Live
  <2>3. \A q \in Reqs \ {r} : OpState(q)' = OpState(q)
      BY <1>2 DEF Claim, OpState, Live, dbVars
  <2>4. Ops!Start(r, h)
      BY <1>2, <2>1, <2>2, <2>3 DEF Ops!Start, Claim, envVars
  <2>. QED
      BY <2>4 DEF Ops!Next
<1>3. ASSUME NEW r \in Reqs, Refuse(r) PROVE Ops!Next
  <2>1. OpState(r) = "new" /\ OpState(r)' = "refused"
      BY <1>3 DEF Refuse, OpState, Live, JInv, JournalFollows
  <2>2. \A q \in Reqs \ {r} : OpState(q)' = OpState(q)
    <3>1. /\ Journal(r, "refused") /\ UNCHANGED target
          /\ \A q \in Reqs \ {r} : phase'[q] = phase[q]
        BY <1>3 DEF Refuse
    <3>2. Wrote(r, "refused")
        BY <3>1, JournalWrites
    <3>. QED
        BY <3>1, <3>2 DEF Wrote, OpState, Live
  <2>3. Ops!Refuse(r)
      BY <1>3, <2>1, <2>2 DEF Refuse, Ops!Refuse
  <2>. QED
      BY <2>3 DEF Ops!Next
<1>4. ASSUME NEW r \in Reqs,
             \/ Begin(r) \/ ExecOK(r) \/ ExecFails(r) \/ RefreshEnds(r)
             \/ Outcome(r) \/ VerbHangs(r)
      PROVE  UNCHANGED Ops!vars
  <2>1. UNCHANGED <<running, crashes, target>>
      BY <1>4 DEF Begin, ExecOK, ExecFails, RefreshEnds, Outcome, VerbHangs,
         envVars
  <2>2. Live(r) /\ Live(r)'
      BY <1>4 DEF Begin, ExecOK, ExecFails, RefreshEnds, Outcome, VerbHangs, Live
  <2>3. OpState(r)' = OpState(r)
      BY <2>2 DEF Live, OpState
  <2>4. \A q \in Reqs \ {r} : phase'[q] = phase[q] /\ audit'[q] = audit[q]
    <3>1. \A q \in Reqs \ {r} : phase'[q] = phase[q]
        BY <1>4 DEF Begin, ExecOK, ExecFails, RefreshEnds, Outcome, VerbHangs
    <3>2. UNCHANGED audit \/ Journal(r, "asked") \/ Journal(r, Verdict(r))
        BY <1>4 DEF Begin, ExecOK, ExecFails, RefreshEnds, Outcome, VerbHangs,
           dbVars
    <3>3. ASSUME NEW word, Journal(r, word)
          PROVE  \A q \in Reqs \ {r} : audit'[q] = audit[q]
        BY <3>3, JournalWrites DEF Wrote
    <3>. QED
        BY <3>1, <3>2, <3>3
  <2>5. \A q \in Reqs \ {r} : OpState(q)' = OpState(q)
      BY <2>1, <2>4 DEF OpState, Live
  <2>. QED
      BY <2>1, <2>3, <2>5, Stutters
<1>5. ASSUME NEW r \in Reqs, Release(r) PROVE Ops!Next
  <2>1. Live(r)
      BY <1>5 DEF Release, Live
  <2>2. PICK h \in Hosts : target[r] = h /\ running[h] = r
      BY <2>1 DEF RunningIsExact
  <2>3. running' = [running EXCEPT ![h] = None]
      BY <1>5, <2>2 DEF Release
  <2>4. OpState(r) = "working"
      BY <2>1, WorkingIsLive
  <2>5. OpState(r)' \in {"success", "failure", "lost"}
      BY <1>5, <2>2, CollectorAssumption DEF Release, OpState, Live
  <2>6. \A q \in Reqs \ {r} : OpState(q)' = OpState(q)
      BY <1>5 DEF Release, OpState, Live, dbVars
  <2>7. crashes' = crashes
      BY <1>5 DEF Release, envVars
  <2>8. Ops!Finish(r, h)
      BY <2>2, <2>3, <2>4, <2>5, <2>6, <2>7 DEF Ops!Finish, Ops!Outcomes
  <2>. QED
      BY <2>8 DEF Ops!Next
<1>6. ASSUME Restart PROVE Ops!Next
  <2>1. \A q \in Reqs : OpState(q) # "working" => OpState(q)' = OpState(q)
      BY <1>6 DEF Restart, OpState, Live, dbVars
  <2>2. \A q \in Reqs : OpState(q) = "working" =>
                OpState(q)' \in {"success", "failure", "cut"}
      BY <1>6 DEF Restart, OpState, Live, dbVars
  <2>. DEFINE o == [q \in Reqs |-> IF OpState(q) = "working"
                                   THEN OpState(q)' ELSE "cut"]
  <2>3. o \in [Reqs -> {"success", "failure", "cut"}]
      BY <2>2
  <2>4. [q \in Reqs |-> OpState(q)'] =
            [q \in Reqs |-> IF OpState(q) = "working" THEN o[q] ELSE OpState(q)]
      BY <2>1
  <2>5. Ops!Cut
      BY <1>6, <2>3, <2>4 DEF Restart, Ops!Cut
  <2>. QED
      BY <2>5 DEF Ops!Next
<1>7. UNCHANGED vars => UNCHANGED <<running, phase, audit, target, crashes>>
    BY DEF vars, envVars, reqVars, dbVars
<1>. QED
    BY <1>1, <1>2, <1>3, <1>4, <1>5, <1>6, <1>7, OthersKeepJournal
       DEF Next, Act

\* The console keeps its promise: whatever the collections do, an operation
\* holds its host alone, is refused only when one is busy, ends once with the
\* outcome of the journal, and frees its host.
THEOREM ActionsAreOperations == Spec => OperationsAreSerial
<1>. QED
    BY InitRefines, NextRefines, InitJInv, NextJInv, Invariance, PTL
       DEF Spec, OperationsAreSerial, Ops!Spec
=============================================================================
