----------------------------- MODULE Operations -----------------------------
(***************************************************************************)
(* What the console promises of the operations it is asked for: a host is  *)
(* worked on for one request at a time; a request is refused only while a  *)
(* host is worked on; it ends once, with the outcome the journal has, and  *)
(* gives its host back.  The end of the process, and nothing else, cuts    *)
(* operations short; it frees every host.                                  *)
(***************************************************************************)
EXTENDS Naturals

CONSTANTS Hosts, Reqs, None

VARIABLES
    holder,     \* host -> the request it is worked on for, or None
    state,      \* request -> what became of it
    ends        \* number of times the process has ended

vars == <<holder, state, ends>>

\* What the journal says, or that it could not be told.
Outcomes == {"success", "failure", "lost"}

Init ==
    /\ holder = [h \in Hosts |-> None]
    /\ state = [r \in Reqs |-> "new"]
    /\ ends = 0

Start(r, h) ==
    /\ state[r] = "new" /\ holder[h] = None
    /\ holder' = [holder EXCEPT ![h] = r]
    /\ state' = [state EXCEPT ![r] = "working"]
    /\ UNCHANGED ends

Refuse(r) ==
    /\ state[r] = "new"
    /\ \E h \in Hosts : holder[h] # None
    /\ state' = [state EXCEPT ![r] = "refused"]
    /\ UNCHANGED <<holder, ends>>

Finish(r, h) ==
    /\ state[r] = "working" /\ holder[h] = r
    /\ holder' = [holder EXCEPT ![h] = None]
    /\ \E o \in Outcomes : state' = [state EXCEPT ![r] = o]
    /\ UNCHANGED ends

\* The process ends, perhaps between the journal and the release.
Cut ==
    /\ ends' = ends + 1
    /\ holder' = [h \in Hosts |-> None]
    /\ \E o \in [Reqs -> {"success", "failure", "cut"}] :
        state' = [r \in Reqs |-> IF state[r] = "working" THEN o[r] ELSE state[r]]

Next ==
    \/ \E r \in Reqs, h \in Hosts : Start(r, h) \/ Finish(r, h)
    \/ \E r \in Reqs : Refuse(r)
    \/ Cut

Spec == Init /\ [][Next]_vars
=============================================================================
