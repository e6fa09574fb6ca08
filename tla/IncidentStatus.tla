---------------------------- MODULE IncidentStatus ----------------------------
(***************************************************************************)
(* The status of the incidents table and what one completed analysis does  *)
(* to it, as persist_tier2_result (worker/pg.py) defines it statement by   *)
(* statement.  Shared by the modules that look at that transaction from    *)
(* outside (Tier2Jobs), from inside (Tier2Persist) and as one atomic       *)
(* change (AtomicIncidents).                                               *)
(***************************************************************************)
CONSTANTS Graphs,   \* execution graphs
          Keys      \* incident keys derive_incident can answer

Incidents == Graphs \X Keys      \* UNIQUE (graph_id, incident_key)
Live == {"open", "acknowledged"}
Statuses == Live \cup {"none", "superseded", "resolved"}   \* "none": no row

\* ON CONFLICT DO UPDATE: an analysis landing back on a dead incident reopens
\* it; a live one keeps its status.
Reopened(s) == IF s \in Live THEN s ELSE "open"

\* Incidents of graph g as persist_tier2_result with supersede_others leaves
\* them: the one under key k live, every other live one superseded.
Persisted(st, g, k) ==
    [i \in Incidents |->
        IF i = <<g, k>> THEN Reopened(st[i])
        ELSE IF i[1] = g /\ st[i] \in Live THEN "superseded" ELSE st[i]]
================================================================================
