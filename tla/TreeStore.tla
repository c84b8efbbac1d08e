----------------------------- MODULE TreeStore ------------------------------
(***************************************************************************)
(* The in-memory store of snapshot trees (internal/collector/trees.go) and *)
(* the request that reads it (Collector.Browse in collector.go).           *)
(*                                                                         *)
(* A caller is an HTTP request inside Browse.  Under the store's mutex it  *)
(* finds the tree, or the WaitGroup of a load under way, or becomes the    *)
(* leader of a new load.  A leader fetches without the mutex, stores the   *)
(* tree (evicting the least recently used ones), and its deferred function *)
(* withdraws the load under the mutex, then wakes the waiters.  A caller   *)
(* left without a tree falls back on the listing of one directory.         *)
(***************************************************************************)
EXTENDS Integers, FiniteSets, FiniteSetsExt

CONSTANTS
    Callers,        \* requests that may be inside Browse
    Hosts,
    Keys,           \* the pairs of a host and a snap parameter asked for
    Latest,         \* the snap that FetchTree sends as "latest" (empty)
    Size(_, _),     \* entries of the tree of a key at a version
    MaxNodes,       \* maxNodes
    MaxTimer,       \* bound: backups made by the hosts' own timers
    MaxConsole,     \* bound: verbs that succeed from the console
    None            \* no caller, no key, no tree

Versions == 0..(MaxTimer + MaxConsole)

ASSUME TreeStoreAssumption ==
    /\ IsFiniteSet(Callers) /\ IsFiniteSet(Keys)
    /\ \A k \in Keys : k = <<k[1], k[2]>> /\ k[1] \in Hosts
    /\ None \notin Callers /\ None \notin Keys
    /\ MaxNodes \in Nat /\ MaxTimer \in Nat /\ MaxConsole \in Nat
    /\ \A k \in Keys, v \in Versions : Size(k, v) \in Nat

Tree == [version : Versions, count : Nat]

VARIABLES
    trees,      \* treeStore.trees: key -> tree, on the keys present
    used,       \* treeStore.used: key -> the keys whose date is earlier
    loading,    \* treeStore.loading: key -> the leader that owns the WaitGroup
    nodes,      \* treeStore.nodes
    pc,         \* caller -> where it is
    key,        \* caller -> the key it asks for
    waitOn,     \* caller -> the leader whose WaitGroup it waits on
    got,        \* caller -> the tree FetchTree returned to it
    repo,       \* host -> backups its repository has received
    ops,        \* backups by the timers, verbs from the console (bounded)
    outdated    \* hosts where a verb succeeded, InvalidateTrees to come

vars == <<trees, used, loading, nodes, pc, key, waitOn, got,
          repo, ops, outdated>>
storeVars == <<trees, used, loading, nodes>>
hostVars == <<repo, ops, outdated>>

PCs == {"idle", "tree", "wait", "woken", "fetch", "store", "unload", "done",
        "list"}

Init ==
    /\ trees = << >> /\ used = << >> /\ loading = << >> /\ nodes = 0
    /\ pc = [p \in Callers |-> "idle"]
    /\ key = [p \in Callers |-> None]
    /\ waitOn = [p \in Callers |-> None]
    /\ got = [p \in Callers |-> None]
    /\ repo = [h \in Hosts |-> 0]
    /\ ops = [timer |-> 0, console |-> 0]
    /\ outdated = {}

-----------------------------------------------------------------------------
(* The maps of the store.                                                  *)

Without(f, S) == Restrict(f, DOMAIN f \ S)
With(f, k, v) == [x \in DOMAIN f \cup {k} |-> IF x = k THEN v ELSE f[x]]

\* The dates only matter by their order.  Delete keys; date one to now.
Forget(u, S) == [k \in DOMAIN u \ S |-> u[k] \ S]
Touch(u, k) == With(Forget(u, {k}), k, DOMAIN u \ {k})

\* Entries of the trees t that have these keys.
Total(t, S) == MapThenSumSet(LAMBDA k : t[k].count, S)
Weight(S) == Total(trees, S \cap DOMAIN trees)

\* evictLocked removes the oldest keys one by one while the incoming tree does
\* not fit: a key goes when the removal of all older ones was not enough.
EvictedMutOff(incoming) ==
    {k \in DOMAIN used : nodes - Weight(used[k]) + incoming >= MaxNodes}

Evicted(incoming) ==
    {k \in DOMAIN used : nodes - Weight(used[k]) + incoming > MaxNodes}

\* The loop itself: one turn, on the maps and the counter of s; and where it is
\* after each turn.  It is the reference of Evicted, see EvictedIsTheLoop.
Full(s, incoming) == s.nodes + incoming > MaxNodes /\ DOMAIN s.trees # {}

Turn(s) ==
    LET oldest == CHOOSE k \in DOMAIN s.used : s.used[k] = {}
        freed == IF oldest \in DOMAIN s.trees THEN s.trees[oldest].count ELSE 0
    IN  [used |-> Forget(s.used, {oldest}), trees |-> Without(s.trees, {oldest}),
         nodes |-> s.nodes - freed]

Turns(incoming) ==
    LET turns[i \in 0..Cardinality(DOMAIN used)] ==
            IF i = 0 THEN [used |-> used, trees |-> trees, nodes |-> nodes]
            ELSE IF Full(turns[i - 1], incoming) THEN Turn(turns[i - 1])
            ELSE turns[i - 1]
    IN  turns

-----------------------------------------------------------------------------
(* Collector.Tree, called by Browse.                                       *)

Goto(p, where) == pc' = [pc EXCEPT ![p] = where]

Browse(p) ==
    /\ pc[p] = "idle"
    /\ \E k \in Keys : key' = [key EXCEPT ![p] = k]
    /\ Goto(p, "tree")
    /\ UNCHANGED <<storeVars, waitOn, got, hostVars>>

Hit(p) ==
    /\ pc[p] = "tree" /\ key[p] \in DOMAIN trees
    /\ used' = Touch(used, key[p])
    /\ Goto(p, "idle")
    /\ key' = [key EXCEPT ![p] = None]
    /\ UNCHANGED <<trees, loading, nodes, waitOn, got, hostVars>>

Wait(p) ==
    /\ pc[p] = "tree" /\ key[p] \notin DOMAIN trees
    /\ key[p] \in DOMAIN loading
    /\ waitOn' = [waitOn EXCEPT ![p] = loading[key[p]]]
    /\ Goto(p, "wait")
    /\ UNCHANGED <<storeVars, key, got, hostVars>>

LeadMutNoJoin(p) ==
    /\ pc[p] = "tree" /\ key[p] \notin DOMAIN trees
    /\ loading' = With(loading, key[p], p)
    /\ Goto(p, "fetch")
    /\ UNCHANGED <<trees, used, nodes, key, waitOn, got, hostVars>>

Lead(p) ==
    /\ pc[p] = "tree" /\ key[p] \notin DOMAIN trees
    /\ key[p] \notin DOMAIN loading
    /\ loading' = With(loading, key[p], p)
    /\ Goto(p, "fetch")
    /\ UNCHANGED <<trees, used, nodes, key, waitOn, got, hostVars>>

\* What the host's repository holds for a key: a snapshot never changes, but
\* "latest" names whichever is the last one now.
Content(k) == IF k[2] = Latest THEN repo[k[1]] ELSE 0

FetchOK(p) ==
    /\ pc[p] = "fetch"
    /\ got' = [got EXCEPT ![p] = [version |-> Content(key[p]),
                                  count |-> Size(key[p], Content(key[p]))]]
    /\ Goto(p, "store")
    /\ UNCHANGED <<storeVars, key, waitOn, hostVars>>

\* The host, its policy, the three minutes or the request's own context.
FetchFails(p) ==
    /\ pc[p] = "fetch"
    /\ Goto(p, "unload")
    /\ UNCHANGED <<storeVars, key, waitOn, got, hostVars>>

StoreMutNoCount(p) ==
    /\ pc[p] = "store"
    /\ LET out == Evicted(got[p].count)
       IN  /\ trees' = With(Without(trees, out), key[p], got[p])
           /\ used' = Touch(Forget(used, out), key[p])
           /\ nodes' = nodes - Weight(out)
    /\ Goto(p, "unload")
    /\ UNCHANGED <<loading, key, waitOn, got, hostVars>>

StoreMutNoEvict(p) ==
    /\ pc[p] = "store"
    /\ trees' = With(trees, key[p], got[p])
    /\ used' = Touch(used, key[p])
    /\ nodes' = nodes + got[p].count
    /\ Goto(p, "unload")
    /\ UNCHANGED <<loading, key, waitOn, got, hostVars>>

Store(p) ==
    /\ pc[p] = "store"
    /\ LET out == Evicted(got[p].count)
       IN  /\ trees' = With(Without(trees, out), key[p], got[p])
           /\ used' = Touch(Forget(used, out), key[p])
           /\ nodes' = nodes - Weight(out) + got[p].count
    /\ Goto(p, "unload")
    /\ UNCHANGED <<loading, key, waitOn, got, hostVars>>

Unload(p) ==
    /\ pc[p] = "unload"
    /\ loading' = Without(loading, {key[p]})
    /\ Goto(p, "done")
    /\ UNCHANGED <<trees, used, nodes, key, waitOn, got, hostVars>>

\* What a request forgets when Browse returns.
Finish(p) ==
    /\ key' = [key EXCEPT ![p] = None]
    /\ got' = [got EXCEPT ![p] = None]

DoneMutOnlyOnSuccess(p) ==
    /\ pc[p] = "done"
    /\ pc' = [q \in Callers |->
                CASE q = p -> IF got[p] = None THEN "list" ELSE "idle"
                  [] q # p /\ pc[q] = "wait" /\ waitOn[q] = p /\ got[p] # None
                        -> "woken"
                  [] OTHER -> pc[q]]
    /\ waitOn' = [q \in Callers |->
                    IF waitOn[q] = p /\ got[p] # None THEN None ELSE waitOn[q]]
    /\ IF got[p] = None THEN UNCHANGED <<key, got>> ELSE Finish(p)
    /\ UNCHANGED <<storeVars, hostVars>>

\* wg.Done wakes every waiter; then Tree returns, with the tree or an error.
Done(p) ==
    /\ pc[p] = "done"
    /\ pc' = [q \in Callers |->
                CASE q = p -> IF got[p] = None THEN "list" ELSE "idle"
                  [] q # p /\ pc[q] = "wait" /\ waitOn[q] = p -> "woken"
                  [] OTHER -> pc[q]]
    /\ waitOn' = [q \in Callers |-> IF waitOn[q] = p THEN None ELSE waitOn[q]]
    /\ IF got[p] = None THEN UNCHANGED <<key, got>> ELSE Finish(p)
    /\ UNCHANGED <<storeVars, hostVars>>

\* A waiter looks once more; the date of the tree is not renewed here.  The
\* load may have failed, or its tree be evicted or invalidated already.
Woken(p) ==
    /\ pc[p] = "woken"
    /\ IF key[p] \in DOMAIN trees
       THEN Goto(p, "idle") /\ Finish(p)
       ELSE Goto(p, "list") /\ UNCHANGED <<key, got>>
    /\ UNCHANGED <<storeVars, waitOn, hostVars>>

\* The fallback of Browse returns, with a listing or an error.
List(p) ==
    /\ pc[p] = "list"
    /\ Goto(p, "idle") /\ Finish(p)
    /\ UNCHANGED <<storeVars, waitOn, hostVars>>

-----------------------------------------------------------------------------
(* Backups, and what the console forgets after its own.                    *)

TimerBackup(h) ==
    /\ ops.timer < MaxTimer
    /\ ops' = [ops EXCEPT !.timer = @ + 1]
    /\ repo' = [repo EXCEPT ![h] = @ + 1]
    /\ UNCHANGED <<storeVars, pc, key, waitOn, got, outdated>>

\* Collector.Action: a verb succeeds on a host, one at a time.  "backup" adds
\* a snapshot, "check", "unlock" and "refresh" do not; all of them go on to
\* InvalidateTrees.  (A backup whose answer is lost is a TimerBackup here: the
\* console takes it for a failure and forgets nothing.)
ConsoleVerb(h) ==
    /\ ops.console < MaxConsole /\ h \notin outdated
    /\ ops' = [ops EXCEPT !.console = @ + 1]
    /\ \/ repo' = [repo EXCEPT ![h] = @ + 1]
       \/ UNCHANGED repo
    /\ outdated' = outdated \cup {h}
    /\ UNCHANGED <<storeVars, pc, key, waitOn, got>>

KeysOf(h) == {k \in DOMAIN trees : k[1] = h}

InvalidateMutUsed(h) ==
    /\ h \in outdated
    /\ trees' = Without(trees, KeysOf(h))
    /\ nodes' = nodes - Weight(KeysOf(h))
    /\ outdated' = outdated \ {h}
    /\ UNCHANGED <<used, loading, pc, key, waitOn, got, repo, ops>>

InvalidateMutNodes(h) ==
    /\ h \in outdated
    /\ trees' = Without(trees, KeysOf(h))
    /\ used' = Forget(used, KeysOf(h))
    /\ outdated' = outdated \ {h}
    /\ UNCHANGED <<loading, nodes, pc, key, waitOn, got, repo, ops>>

InvalidateTrees(h) ==
    /\ h \in outdated
    /\ trees' = Without(trees, KeysOf(h))
    /\ used' = Forget(used, KeysOf(h))
    /\ nodes' = nodes - Weight(KeysOf(h))
    /\ outdated' = outdated \ {h}
    /\ UNCHANGED <<loading, pc, key, waitOn, got, repo, ops>>

-----------------------------------------------------------------------------
\* What a request does by itself, and the ends of its calls to the host.
Local(p) ==
    \/ Hit(p) \/ Wait(p) \/ Lead(p)
    \/ Store(p) \/ Unload(p) \/ Done(p) \/ Woken(p)

Remote(p) == FetchOK(p) \/ FetchFails(p) \/ List(p)

Next ==
    \/ \E p \in Callers : Browse(p) \/ Local(p) \/ Remote(p)
    \/ \E h \in Hosts :
        TimerBackup(h) \/ ConsoleVerb(h) \/ InvalidateTrees(h)

Spec == Init /\ [][Next]_vars

\* Goroutines run.  A call to a host is not obliged to return: the contexts of
\* Tree and Browse end after three minutes and sixty seconds, but neither the
\* SSH handshake nor NewSession looks at them.
FairSpec ==
    /\ Spec
    /\ \A p \in Callers : WF_vars(Local(p))
    /\ \A h \in Hosts : WF_vars(InvalidateTrees(h))

-----------------------------------------------------------------------------
(* Properties.                                                             *)

TypeOK ==
    /\ DOMAIN trees \subseteq Keys /\ \A k \in DOMAIN trees : trees[k] \in Tree
    /\ DOMAIN used \subseteq Keys
    /\ \A k \in DOMAIN used : used[k] \subseteq Keys
    /\ DOMAIN loading \subseteq Keys
    /\ \A k \in DOMAIN loading : loading[k] \in Callers
    /\ nodes \in Nat
    /\ pc \in [Callers -> PCs]
    /\ key \in [Callers -> Keys \cup {None}]
    /\ waitOn \in [Callers -> Callers \cup {None}]
    /\ got \in [Callers -> Tree \cup {None}]
    /\ repo \in [Hosts -> Versions]
    /\ ops \in [timer : 0..MaxTimer, console : 0..MaxConsole]
    /\ outdated \subseteq Hosts

\* evictLocked picks its victim in used and stops on trees: the two maps must
\* have the same keys whatever loads, evictions and invalidations interleave,
\* or the loop removes nothing, for ever, with the mutex held.
UsedMatchesTrees ==
    /\ DOMAIN used = DOMAIN trees
    /\ \A k \in DOMAIN used : used[k] \subseteq DOMAIN trees \ {k}
    /\ \A j, k \in DOMAIN used : j # k => (j \in used[k] <=> k \notin used[j])

\* The counter that decides evictions is the sum of the trees kept.  It
\* relies on no leader ever storing over a tree already there.
NodesExact == nodes = Weight(DOMAIN trees)

\* The footprint is bounded, but for a single tree larger than the bound.
MemoryBound == nodes <= MaxNodes \/ Cardinality(DOMAIN trees) = 1

\* The loop of evictLocked is over after one turn per tree at most, whatever
\* the size of the incoming tree, and has removed what Evicted says.
EvictedIsTheLoop ==
    \A incoming \in 0..(MaxNodes + 1) :
        LET out == Evicted(incoming)
            s == Turns(incoming)[Cardinality(DOMAIN used)]
        IN  /\ ~ Full(s, incoming)
            /\ s = [used |-> Forget(used, out), trees |-> Without(trees, out),
                    nodes |-> nodes - Weight(out)]

Leads(p) == pc[p] \in {"fetch", "store", "unload"}

\* trees.go:43: two simultaneous requests for the same snapshot make one call
\* to the host.  The withdrawal of a load never removes that of another.
SingleFlight ==
    /\ \A p, q \in Callers : Leads(p) /\ Leads(q) /\ p # q => key[p] # key[q]
    /\ \A p \in Callers :
        Leads(p) => key[p] \in DOMAIN loading /\ loading[key[p]] = p

\* Nobody waits on a WaitGroup that will not be released: the leader is
\* still loading that very key, or is about to call Done.
WaitersHaveALeader ==
    \A p \in Callers : pc[p] = "wait" =>
        LET l == waitOn[p]
        IN  l \in Callers /\ key[l] = key[p] /\ (Leads(l) \/ pc[l] = "done")

\* A request that waits for a host: by its own call, or on the WaitGroup of a
\* leader (wg.Wait looks at no context) that is in its call.
AtTheHost(p) == pc[p] \in {"fetch", "list"}
Kept(p) == AtTheHost(p) \/ (pc[p] = "wait" /\ AtTheHost(waitOn[p]))

\* Every request for a tree gets an answer, whether the load it leads or joins
\* succeeds or fails, is evicted or invalidated before the request looks for
\* it; unless it waits for ever for a host that never answers, its own call's
\* or its leader's.  The store itself keeps nobody.
BrowseReturns ==
    \A p \in Callers : pc[p] # "idle" ~> (pc[p] = "idle" \/ []Kept(p))

-----------------------------------------------------------------------------
(* The strengthening that makes the three structural invariants inductive. *)

Typed ==
    /\ pc \in [Callers -> PCs]
    /\ key \in [Callers -> Keys \cup {None}]
    /\ waitOn \in [Callers -> Callers \cup {None}]
    /\ \A p \in Callers : pc[p] # "idle" => key[p] \in Keys

\* A registered load belongs to a leader that is loading that key.
LoadsAreLed ==
    \A k \in DOMAIN loading :
        loading[k] \in Callers /\ Leads(loading[k]) /\ key[loading[k]] = k

\* A leader that is about to store a tree stores a new one.
StoresANewTree ==
    \A p \in Callers :
        pc[p] \in {"fetch", "store"} => key[p] \notin DOMAIN trees

IInv ==
    /\ Typed
    /\ LoadsAreLed
    /\ StoresANewTree
    /\ SingleFlight
    /\ WaitersHaveALeader
    /\ UsedMatchesTrees

\* The store holds trees under keys that were asked for, and a leader has one
\* to store.
Filled ==
    /\ DOMAIN trees \subseteq Keys /\ \A k \in DOMAIN trees : trees[k] \in Tree
    /\ got \in [Callers -> Tree \cup {None}]
    /\ \A p \in Callers : pc[p] = "store" => got[p] \in Tree

\* Every snapshot of a host was counted.
Backed ==
    /\ ops \in [timer : 0..MaxTimer, console : 0..MaxConsole]
    /\ repo \in [Hosts -> Nat]
    /\ \A h \in Hosts : repo[h] <= ops.timer + ops.console
    /\ outdated \subseteq Hosts

\* The dates order the keys.
UsedIsOrder == \A k \in DOMAIN used : \A j \in used[k] : used[j] \subseteq used[k]

SInv == Filled /\ Backed /\ UsedIsOrder /\ NodesExact /\ MemoryBound

-----------------------------------------------------------------------------
(* What the comments say and the code does not do.                         *)

\* trees.go:127: after a backup asked from the console, the trees of the host
\* are forgotten; an older one does not come back.
ForgottenAfterBackup ==
    ops.timer = 0 => \A k \in DOMAIN trees :
        k[1] \in outdated \/ trees[k].version = Content(k)
=============================================================================
