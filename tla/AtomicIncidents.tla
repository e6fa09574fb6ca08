---------------------------- MODULE AtomicIncidents ----------------------------
(***************************************************************************)
(* What persist_tier2_result promises about the incidents table: every     *)
(* completed analysis of a graph takes effect at once on the incidents as  *)
(* they are then, as if no other analysis ran beside it.  The one thing it *)
(* may leave alone is an incident that an operator has changed since the   *)
(* analysis looked which ones are live.                                    *)
(***************************************************************************)
EXTENDS IncidentStatus

CONSTANTS Analyses,  \* analyses that may run side by side
          None       \* the key of an analysis that came back clean; no graph

VARIABLES status,
          looking,   \* graph whose incidents an analysis has looked at
          late       \* those of them an operator has changed since

Init ==
    /\ status = [i \in Incidents |-> "none"]
    /\ looking = [a \in Analyses |-> None]
    /\ late = [a \in Analyses |-> {}]

Look(a, g) ==
    /\ looking[a] = None
    /\ looking' = [looking EXCEPT ![a] = g]
    /\ UNCHANGED <<status, late>>

Done(a) ==
    /\ looking[a] # None
    /\ looking' = [looking EXCEPT ![a] = None]
    /\ late' = [late EXCEPT ![a] = {}]

Complete(a, k) ==
    /\ Done(a)
    /\ \E missed \in SUBSET (late[a] \ {<<looking[a], k>>}) :
         status' = [i \in Incidents |->
                      IF i \in missed THEN status[i]
                      ELSE Persisted(status, looking[a], k)[i]]

GiveUp(a) == Done(a) /\ UNCHANGED status

\* PATCH /incidents/{id} on an existing row.
Patch(i, s) ==
    /\ status[i] # "none"
    /\ status' = [status EXCEPT ![i] = s]
    /\ late' = [a \in Analyses |-> IF looking[a] = i[1] THEN late[a] \cup {i}
                                  ELSE late[a]]
    /\ UNCHANGED looking

Next == \/ \E a \in Analyses : \/ \E g \in Graphs : Look(a, g)
                               \/ \E k \in Keys \cup {None} : Complete(a, k)
                               \/ GiveUp(a)
        \/ \E i \in Incidents, s \in Live \cup {"resolved"} : Patch(i, s)

Spec == Init /\ [][Next]_<<status, looking, late>>
================================================================================
