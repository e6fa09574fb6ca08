---------------------------- MODULE Tier2JobsProofs ----------------------------
(***************************************************************************)
(* Tier2Jobs for any workers, messages, graphs, agents and bounds.  The    *)
(* claim is the only way into an analysis, and a claimed job never becomes *)
(* unclaimed (OneClaim, NothingTwice); the most live incidents seen so far *)
(* stay an upper bound on what a breaker counts (PeakTrue, TripEarned);    *)
(* an incident's row is inserted once, so one analysis at most finds it    *)
(* new (NewsTrue).                                                         *)
(***************************************************************************)
EXTENDS Tier2Jobs, FiniteSetTheorems, TLAPS

(* Statements between the claim and the end of a job. *)
Claimed == {"analyse", "persist", "fail"}

(* A busy loop has a message in hand; what it announces has a key. *)
TaskMatches ==
  \A w \in Workers :
    /\ at[w] # "idle" => task[w].msg \in Messages
    /\ at[w] = "announce" => task[w].key \in Keys
    /\ at[w] \in {"trip", "signal"} => task[w].name \in Agents

(* A busy alerter has an incident in hand that was announced. *)
AlertMatches ==
  \A w \in Alerters : aat[w] # "idle" =>
    alert[w] \in Incidents /\ notice[alert[w]] # "none"

(* Past the claim the job runs, and no other process is past it. *)
OneClaim ==
  /\ \A w \in Workers : at[w] \in Claimed => job[Dedup(w)] = "running"
  /\ \A v, w \in Workers :
       at[v] \in Claimed /\ at[w] \in Claimed /\ Dedup(v) = Dedup(w) => v = w

(* An unclaimed job has left nothing behind, and a claimed one neither until *)
(* its analysis writes it.                                                  *)
NothingTwice ==
  /\ \A d \in Dedups : job[d] = "none" => results[d] = 0 /\ decisions[d] = 0
  /\ \A w \in Workers : /\ at[w] \in Claimed => results[Dedup(w)] = 0
                        /\ at[w] = "analyse" => decisions[Dedup(w)] = 0

(* The incidents table. *)
Rows == {i \in Incidents : status[i] # "none"}

(* It has finitely many rows, and peak bounds the live ones. *)
PeakTrue ==
  /\ IsFiniteSet(Rows)
  /\ \A a \in Agents : Cardinality(LiveBlaming(a)) <= peak[a]

(* A breaker about to be opened was earned. *)
TripEarned ==
  \A w \in Workers : at[w] = "trip" => peak[task[w].name] >= BreakerOpenIncidents

(* The worker is about to announce an incident as new. *)
AboutToTell(w) == at[w] = "announce" /\ task[w].new

(* It is, and nobody else is about to announce the same one. *)
NewsTrue ==
  /\ \A i \in Incidents : status[i] = "none" => notice[i] = "none"
  /\ \A w \in Workers : AboutToTell(w) =>
       status[Incident(w)] # "none" /\ notice[Incident(w)] = "none"
  /\ \A v, w \in Workers :
       AboutToTell(v) /\ AboutToTell(w) /\ Incident(v) = Incident(w) => v = w

(* The inductive invariant. *)
Tier2Inv ==
  /\ TypeOK /\ TaskMatches /\ AlertMatches
  /\ OneClaim /\ NothingTwice /\ AnalysedOnce
  /\ PeakTrue /\ TripEarned /\ BreakerEarned
  /\ NewsTrue /\ OneStoryPerGraph

(* What the task of a worker stands for. *)
LEMMA InHand ==
  ASSUME TypeOK, TaskMatches, NEW w \in Workers, at[w] # "idle"
  PROVE  /\ Dedup(w) \in Dedups /\ GraphIn(w) \in Graphs
         /\ task[w].key \in Keys => Incident(w) \in Incidents
  BY Tier2Assumption DEF TypeOK, TaskMatches, Dedup, GraphIn, Incident, Incidents

(* What the steps write into a task. *)
LEMMA TaskField ==
  ASSUME NEW t \in Task
  PROVE  /\ \A new \in BOOLEAN : [t EXCEPT !.new = new] \in Task
         /\ \A k \in Keys, c \in SUBSET Agents :
              [t EXCEPT !.key = k, !.agents = c] \in Task
         /\ \A a \in Agents, c \in SUBSET Agents :
              [t EXCEPT !.agents = c, !.name = a] \in Task
  BY DEF Task

(* What an analysis concludes leaves the message in hand. *)
LEMMA AnalyseEffect ==
  ASSUME TypeOK, NEW w \in Workers, Analyse(w)
  PROVE  /\ task' \in [Workers -> Task]
         /\ \A v \in Workers : task'[v].msg = task[v].msg /\ task'[v].name = task[v].name
         /\ \A v \in Workers : v # w => task'[v] = task[v]
  <1>1. CASE task' = task
    BY <1>1 DEF TypeOK
  <1>2. CASE \E k \in Keys, c \in SUBSET Agents :
               task' = [task EXCEPT ![w].key = k, ![w].agents = c]
    <2>1. PICK k \in Keys, c \in SUBSET Agents :
            task' = [task EXCEPT ![w].key = k, ![w].agents = c]
      BY <1>2
    <2>2. task' = [task EXCEPT ![w] = [task[w] EXCEPT !.key = k, !.agents = c]]
      BY <2>1
    <2>3. task[w] \in Task /\ [task[w] EXCEPT !.key = k, !.agents = c] \in Task
      BY TaskField DEF TypeOK
    <2>4. /\ [task[w] EXCEPT !.key = k, !.agents = c].msg = task[w].msg
          /\ [task[w] EXCEPT !.key = k, !.agents = c].name = task[w].name
      BY <2>3 DEF Task
    <2>5. QED
      BY <2>2, <2>3, <2>4 DEF TypeOK
  <1>3. QED
    BY <1>1, <1>2 DEF Analyse

(* The incidents that count for the breaker are rows, so finitely many. *)
LEMMA CountFinite ==
  ASSUME IsFiniteSet(Rows), NEW a \in Agents
  PROVE  Cardinality(LiveBlaming(a)) \in Nat
  <1>1. LiveBlaming(a) \subseteq Rows
    BY DEF LiveBlaming, Rows, Live
  <1>2. QED
    BY <1>1, FS_Subset, FS_CardinalityType

(* peak is the largest count so far (Persist and Patch). *)
LEMMA PeakStep ==
  ASSUME TypeOK, PeakTrue, IsFiniteSet(Rows'),
         peak' = [a \in Agents |->
                    LET n == Cardinality({i \in Incidents :
                                            status'[i] \in Live /\ a \in blamed'[i]})
                    IN  IF n > peak[a] THEN n ELSE peak[a]]
  PROVE  /\ PeakTrue' /\ peak' \in [Agents -> Nat]
         /\ \A a \in Agents : peak[a] <= peak'[a]
  <1>1. ASSUME NEW a \in Agents
        PROVE  /\ peak'[a] \in Nat /\ peak[a] <= peak'[a]
               /\ Cardinality(LiveBlaming(a)') <= peak'[a]
    <2>1. Cardinality(LiveBlaming(a)') \in Nat
      <3>1. LiveBlaming(a)' \subseteq Rows'
        BY DEF LiveBlaming, Rows, Live
      <3>2. QED
        BY <3>1, FS_Subset, FS_CardinalityType
    <2>2. peak'[a] = IF Cardinality(LiveBlaming(a)') > peak[a]
                     THEN Cardinality(LiveBlaming(a)') ELSE peak[a]
      BY DEF LiveBlaming
    <2>3. peak[a] \in Nat
      BY DEF TypeOK
    <2>4. QED
      BY <2>1, <2>2, <2>3
  <1>2. QED
    BY <1>1 DEF PeakTrue

(* What a committed analysis changes. *)
LEMMA PersistEffect ==
  ASSUME Tier2Inv, NEW w \in Workers, Persist(w)
  PROVE  /\ at[w] = "persist" /\ Dedup(w) \in Dedups /\ GraphIn(w) \in Graphs
         /\ \E there \in {"ack", "announce"} :
              /\ at' = [at EXCEPT ![w] = there]
              /\ there = "announce" <=> task[w].key \in Keys
         /\ \E new \in BOOLEAN :
              /\ task' = [task EXCEPT ![w].new = new]
              /\ new => task[w].key \in Keys /\ status[Incident(w)] = "none"
         /\ \A i \in Incidents :
              status'[i] = IF i = Incident(w) THEN Reopened(status[i])
                           ELSE IF i[1] = GraphIn(w) /\ status[i] \in Live THEN "superseded"
                           ELSE status[i]
         /\ \A i \in Incidents : status[i] # "none" => status'[i] # "none"
         /\ status' \in [Incidents -> Statuses]
         /\ IsFiniteSet(Rows')
  <1>1. at[w] = "persist" /\ Dedup(w) \in Dedups /\ GraphIn(w) \in Graphs
    BY InHand DEF Persist, Goto, Tier2Inv
  <1>2. task[w].key \in Keys \cup {None} /\ None \notin Keys
    BY Tier2Assumption DEF Tier2Inv, TypeOK, Task
  <1>3. \E there \in {"ack", "announce"} :
              /\ at' = [at EXCEPT ![w] = there]
              /\ there = "announce" <=> task[w].key \in Keys
    BY <1>2 DEF Persist, Goto
  <1>4. \E new \in BOOLEAN :
              /\ task' = [task EXCEPT ![w].new = new]
              /\ new => task[w].key \in Keys /\ status[Incident(w)] = "none"
    BY <1>2 DEF Persist
  <1>5. \A i \in Incidents :
              status'[i] = IF i = Incident(w) THEN Reopened(status[i])
                           ELSE IF i[1] = GraphIn(w) /\ status[i] \in Live THEN "superseded"
                           ELSE status[i]
    BY DEF Persist, Persisted, Incident
  <1>6. \A i \in Incidents : status[i] # "none" => status'[i] # "none"
    BY <1>5 DEF Reopened, Live
  <1>7. status' \in [Incidents -> Statuses]
    <2>1. \A i \in Incidents : status'[i] \in Statuses
      BY <1>5 DEF Reopened, Statuses, Live, Tier2Inv, TypeOK
    <2>2. QED
      BY <2>1 DEF Persist, Persisted
  <1>8. IsFiniteSet(Rows')
    <2>1. Rows' \subseteq Rows \cup {Incident(w)}
      BY <1>5 DEF Rows, Live
    <2>2. IsFiniteSet(Rows \cup {Incident(w)})
      BY FS_AddElement DEF Tier2Inv, PeakTrue
    <2>3. QED
      BY <2>1, <2>2, FS_Subset
  <1>9. QED
    BY <1>1, <1>3, <1>4, <1>5, <1>6, <1>7, <1>8

(* Types; that peak counts in numbers needs the rows to be finitely many. *)
LEMMA TypeStep ==
  ASSUME Tier2Inv, [Next]_vars
  PROVE  TypeOK'
  <1> USE DEF jobVars, storeVars, alertVars, boundVars, histVars, Goto, AlertGoto,
         Mishap, Tier2Inv
  <1>1. ASSUME NEW w \in Workers, NEW m \in Messages, Take(w, m) PROVE TypeOK'
    BY <1>1, Tier2Assumption DEF Take, TypeOK, TaskMatches, NoTask, Task, Dedup,
       GraphIn, Incident
  <1>2. ASSUME NEW w \in Workers, ClaimJob(w) PROVE TypeOK'
    BY <1>2, Tier2Assumption DEF ClaimJob, TypeOK, TaskMatches, NoTask, Task,
       Dedup, GraphIn, Incident
  <1>3. ASSUME NEW w \in Workers, SkipClaimed(w) PROVE TypeOK'
    BY <1>3, Tier2Assumption DEF SkipClaimed, TypeOK, TaskMatches, NoTask, Task,
       Dedup, GraphIn, Incident
  <1>4. ASSUME NEW w \in Workers, ClaimRaises(w) PROVE TypeOK'
    <2>1. Dedup(w) \in Dedups \cup Incidents
      <3>1. at[w] # "idle" /\ (at[w] = "announce" => task[w].key \in Keys)
        BY <1>4 DEF ClaimRaises, TaskMatches
      <3>2. at[w] = "claim"
        BY <1>4 DEF ClaimRaises
      <3>3. QED
        BY <3>1, <3>2, InHand
    <2>2. QED
      BY <1>4, <2>1, Tier2Assumption DEF ClaimRaises, TypeOK
  <1>5. ASSUME NEW w \in Workers, Analyse(w) PROVE TypeOK'
    <2>1. task' \in [Workers -> Task]
      BY <1>5, AnalyseEffect
    <2>2. decisions' = decisions \/ decisions' = [decisions EXCEPT ![Dedup(w)] = @ + 1]
      BY <1>5 DEF Analyse
    <2>3. decisions' \in [Dedups -> Nat]
      BY <2>2 DEF TypeOK
    <2>4. QED
      BY <1>5, <2>1, <2>3 DEF Analyse, TypeOK
  <1>6. ASSUME NEW w \in Workers, Persist(w) PROVE TypeOK'
    <2>1. PICK there \in {"ack", "announce"} : at' = [at EXCEPT ![w] = there]
      BY <1>6, PersistEffect
    <2>2. PICK new \in BOOLEAN : task' = [task EXCEPT ![w].new = new]
      BY <1>6, PersistEffect
    <2>a. at' \in [Workers -> {"idle", "claim", "analyse", "persist", "fail",
                                "announce", "breaker", "trip", "signal", "ack"}]
      BY <2>1 DEF TypeOK
    <2>b. [task[w] EXCEPT !.new = new] \in Task
      BY TaskField DEF TypeOK
    <2>3. task' \in [Workers -> Task]
      BY <2>2, <2>b DEF TypeOK
    <2>4. blamed' \in [Incidents -> SUBSET Agents]
      BY <1>6 DEF Persist, TypeOK, Task
    <2>c. task[w].key \in Keys \cup {None}
      BY DEF TypeOK, Task
    <2>e. /\ job' = [job EXCEPT ![Dedup(w)] = "done"]
          /\ results' = [results EXCEPT ![Dedup(w)] = @ + 1]
      BY <1>6 DEF Persist
    <2>5. job' \in [Dedups -> {"none", "running", "done", "failed"}]
      BY <2>e DEF TypeOK
    <2>f. results' \in [Dedups -> Nat]
      <3>1. \A d \in Dedups : results[d] \in Nat /\ results[d] + 1 \in Nat
        BY DEF TypeOK
      <3>2. QED
        BY <2>e, <3>1 DEF TypeOK
    <2>d. /\ last' \in [Graphs -> Keys \cup {None}]
          /\ patched' \in SUBSET Incidents
      BY <1>6, <2>c DEF Persist, TypeOK
    <2>6. peak' \in [Agents -> Nat] /\ status' \in [Incidents -> Statuses]
      BY <1>6, PersistEffect, PeakStep DEF Persist
    <2>7. QED
      BY <1>6, <2>a, <2>3, <2>4, <2>5, <2>f, <2>d, <2>6 DEF Persist, TypeOK
  <1>7. ASSUME NEW w \in Workers, Raises(w) PROVE TypeOK'
    BY <1>7, Tier2Assumption DEF Raises, TypeOK, TaskMatches, NoTask, Task, Dedup,
       GraphIn, Incident
  <1>8. ASSUME NEW w \in Workers, MarkFailed(w) PROVE TypeOK'
    BY <1>8, Tier2Assumption DEF MarkFailed, TypeOK, TaskMatches, NoTask, Task,
       Dedup, GraphIn, Incident
  <1>9. ASSUME NEW w \in Workers, MarkFailedRaises(w) PROVE TypeOK'
    <2>1. Dedup(w) \in Dedups \cup Incidents
      <3>1. at[w] # "idle" /\ (at[w] = "announce" => task[w].key \in Keys)
        BY <1>9 DEF MarkFailedRaises, TaskMatches
      <3>2. at[w] = "fail"
        BY <1>9 DEF MarkFailedRaises
      <3>3. QED
        BY <3>1, <3>2, InHand
    <2>2. QED
      BY <1>9, <2>1, Tier2Assumption DEF MarkFailedRaises, TypeOK
  <1>10. ASSUME NEW w \in Workers, Announce(w) PROVE TypeOK'
    BY <1>10, Tier2Assumption DEF Announce, TypeOK, TaskMatches, NoTask, Task,
       Dedup, GraphIn, Incident
  <1>11. ASSUME NEW w \in Workers, AnnounceRaises(w) PROVE TypeOK'
    <2>1. Incident(w) \in Dedups \cup Incidents
      <3>1. at[w] # "idle" /\ (at[w] = "announce" => task[w].key \in Keys)
        BY <1>11 DEF AnnounceRaises, TaskMatches
      <3>2. at[w] = "announce"
        BY <1>11 DEF AnnounceRaises
      <3>3. QED
        BY <3>1, <3>2, InHand
    <2>2. QED
      BY <1>11, <2>1, Tier2Assumption DEF AnnounceRaises, TypeOK
  <1>12. ASSUME NEW w \in Workers, CountOpen(w) PROVE TypeOK'
    <2>1. PICK a \in task[w].agents : task' = [task EXCEPT ![w].agents = @ \ {a}, ![w].name = a]
      BY <1>12 DEF CountOpen
    <2>2. a \in Agents /\ task[w].agents \in SUBSET Agents
      BY DEF TypeOK, Task
    <2>b. [task[w] EXCEPT !.agents = @ \ {a}, !.name = a] \in Task
      BY <2>2, TaskField DEF TypeOK
    <2>3. task' \in [Workers -> Task]
      BY <2>1, <2>b DEF TypeOK
    <2>4. at' \in [Workers -> {"idle", "claim", "analyse", "persist", "fail",
                               "announce", "breaker", "trip", "signal", "ack"}]
      BY <1>12 DEF CountOpen, TypeOK
    <2>5. QED
      BY <1>12, <2>3, <2>4 DEF CountOpen, TypeOK
  <1>13. ASSUME NEW w \in Workers, OpenBreaker(w) PROVE TypeOK'
    BY <1>13, Tier2Assumption DEF OpenBreaker, TypeOK, TaskMatches, NoTask, Task,
       Dedup, GraphIn, Incident
  <1>14. ASSUME NEW w \in Workers, Signal(w) PROVE TypeOK'
    BY <1>14, Tier2Assumption DEF Signal, TypeOK, TaskMatches, NoTask, Task, Dedup,
       GraphIn, Incident
  <1>15. ASSUME NEW w \in Workers, BreakerDone(w) PROVE TypeOK'
    BY <1>15, Tier2Assumption DEF BreakerDone, TypeOK, TaskMatches, NoTask, Task,
       Dedup, GraphIn, Incident
  <1>16. ASSUME NEW w \in Workers, BreakerRaises(w) PROVE TypeOK'
    BY <1>16, Tier2Assumption DEF BreakerRaises, TypeOK, TaskMatches, NoTask, Task,
       Dedup, GraphIn, Incident
  <1>17. ASSUME NEW w \in Workers, Ack(w) PROVE TypeOK'
    BY <1>17, Tier2Assumption DEF Ack, TypeOK, TaskMatches, NoTask, Task, Dedup,
       GraphIn, Incident
  <1>18. ASSUME NEW w \in Workers, Crash(w) PROVE TypeOK'
    <2>1. Abandoned(w) \subseteq Dedups \cup Incidents
      BY InHand DEF Abandoned, TaskMatches
    <2>2. NoTask \in Task
      BY DEF NoTask, Task
    <2>3. mishaps' \in 0 .. MaxMishaps
      BY <1>18, Tier2Assumption DEF Crash, TypeOK
    <2>4. QED
      BY <1>18, <2>1, <2>2, <2>3 DEF Crash, TypeOK
  <1>19. ASSUME NEW w \in Alerters, NEW i \in Incidents, TakeAlert(w, i) PROVE TypeOK'
    BY <1>19, Tier2Assumption DEF TakeAlert, TypeOK, TaskMatches, NoTask, Task,
       Dedup, GraphIn, Incident
  <1>20. ASSUME NEW w \in Alerters, Post(w) PROVE TypeOK'
    <2>1. alert[w] \in Incidents
      BY <1>20 DEF Post, AlertMatches
    <2>2. QED
      BY <1>20, <2>1, Tier2Assumption DEF Post, TypeOK
  <1>21. ASSUME NEW w \in Alerters, PostRaises(w) PROVE TypeOK'
    <2>1. alert[w] \in Incidents
      BY <1>21 DEF PostRaises, AlertMatches
    <2>2. QED
      BY <1>21, <2>1, Tier2Assumption DEF PostRaises, TypeOK
  <1>22. ASSUME NEW w \in Alerters, AckAlert(w) PROVE TypeOK'
    <2>1. alert[w] \in Incidents
      BY <1>22 DEF AckAlert, AlertMatches
    <2>2. QED
      BY <1>22, <2>1, Tier2Assumption DEF AckAlert, TypeOK
  <1>23. ASSUME NEW i \in Incidents, NEW s \in Live \cup {"resolved"}, Patch(i, s)
         PROVE  TypeOK'
    <2>1. status' \in [Incidents -> Statuses] /\ patches' \in 0 .. MaxPatches
      BY <1>23, Tier2Assumption DEF Patch, TypeOK, Statuses
    <2>2. Rows' = Rows
      BY <1>23 DEF Patch, Rows, Live, TypeOK
    <2>3. peak' \in [Agents -> Nat]
      BY <1>23, <2>2, PeakStep DEF Patch, PeakTrue
    <2>4. QED
      BY <1>23, <2>1, <2>3 DEF Patch, TypeOK
  <1>24. ASSUME NEW i \in Incidents, DeadLetter(i)
         PROVE  TypeOK'
    BY <1>24 DEF DeadLetter, TypeOK
  <1>25. CASE UNCHANGED vars
    BY <1>25, Tier2Assumption DEF vars, TypeOK, TaskMatches, NoTask, Task, Dedup,
       GraphIn, Incident
  <1>26. QED
    BY <1>1, <1>2, <1>3, <1>4, <1>5, <1>6, <1>7, <1>8, <1>9, <1>10, <1>11, <1>12,
       <1>13, <1>14, <1>15, <1>16, <1>17, <1>18, <1>19, <1>20, <1>21, <1>22, <1>23,
       <1>24, <1>25 DEF Next, Tier2Step, AlertStep

(* What the loops have in hand. *)
LEMMA MatchStep ==
  ASSUME Tier2Inv, [Next]_vars
  PROVE  TaskMatches' /\ AlertMatches'
  <1> USE DEF jobVars, storeVars, alertVars, boundVars, histVars, Goto, AlertGoto,
         Mishap, Tier2Inv
  <1>1. ASSUME NEW w \in Workers, NEW m \in Messages, Take(w, m)
        PROVE  TaskMatches' /\ AlertMatches'
    BY <1>1, Tier2Assumption DEF Take, TypeOK, TaskMatches, AlertMatches, NoTask, Task
  <1>2. ASSUME NEW w \in Workers, ClaimJob(w) PROVE TaskMatches' /\ AlertMatches'
    BY <1>2, Tier2Assumption DEF ClaimJob, TypeOK, TaskMatches, AlertMatches, NoTask, Task
  <1>3. ASSUME NEW w \in Workers, SkipClaimed(w) PROVE TaskMatches' /\ AlertMatches'
    BY <1>3, Tier2Assumption DEF SkipClaimed, TypeOK, TaskMatches, AlertMatches,
       NoTask, Task
  <1>4. ASSUME NEW w \in Workers, ClaimRaises(w) PROVE TaskMatches' /\ AlertMatches'
    BY <1>4, Tier2Assumption DEF ClaimRaises, TypeOK, TaskMatches, AlertMatches,
       NoTask, Task
  <1>5. ASSUME NEW w \in Workers, Analyse(w) PROVE TaskMatches' /\ AlertMatches'
    <2>1. /\ \A v \in Workers : task'[v].msg = task[v].msg /\ task'[v].name = task[v].name
          /\ \A v \in Workers : v # w => task'[v] = task[v]
      BY <1>5, AnalyseEffect
    <2>2. at[w] = "analyse" /\ at' = [at EXCEPT ![w] = "persist"] /\ UNCHANGED <<aat, alert, notice>>
      BY <1>5 DEF Analyse
    <2>3. QED
      BY <2>1, <2>2 DEF TypeOK, TaskMatches, AlertMatches
  <1>6. ASSUME NEW w \in Workers, Persist(w) PROVE TaskMatches' /\ AlertMatches'
    <2>1. PICK there \in {"ack", "announce"} :
            /\ at' = [at EXCEPT ![w] = there]
            /\ there = "announce" <=> task[w].key \in Keys
      BY <1>6, PersistEffect
    <2>2. PICK new \in BOOLEAN : task' = [task EXCEPT ![w].new = new]
      BY <1>6, PersistEffect
    <2>3. at[w] = "persist" /\ UNCHANGED <<aat, alert, notice>>
      BY <1>6 DEF Persist
    <2>4. TaskMatches'
      BY <2>1, <2>2, <2>3 DEF TypeOK, TaskMatches
    <2>5. QED
      BY <2>3, <2>4 DEF AlertMatches
  <1>7. ASSUME NEW w \in Workers, Raises(w) PROVE TaskMatches' /\ AlertMatches'
    BY <1>7, Tier2Assumption DEF Raises, TypeOK, TaskMatches, AlertMatches, NoTask, Task
  <1>8. ASSUME NEW w \in Workers, MarkFailed(w) PROVE TaskMatches' /\ AlertMatches'
    BY <1>8, Tier2Assumption DEF MarkFailed, TypeOK, TaskMatches, AlertMatches,
       NoTask, Task
  <1>9. ASSUME NEW w \in Workers, MarkFailedRaises(w)
        PROVE  TaskMatches' /\ AlertMatches'
    BY <1>9, Tier2Assumption DEF MarkFailedRaises, TypeOK, TaskMatches,
       AlertMatches, NoTask, Task
  <1>10. ASSUME NEW w \in Workers, Announce(w) PROVE TaskMatches' /\ AlertMatches'
    BY <1>10, Tier2Assumption DEF Announce, TypeOK, TaskMatches, AlertMatches,
       NoTask, Task
  <1>11. ASSUME NEW w \in Workers, AnnounceRaises(w) PROVE TaskMatches' /\ AlertMatches'
    BY <1>11, Tier2Assumption DEF AnnounceRaises, TypeOK, TaskMatches,
       AlertMatches, NoTask, Task
  <1>12. ASSUME NEW w \in Workers, CountOpen(w) PROVE TaskMatches' /\ AlertMatches'
    BY <1>12, Tier2Assumption DEF CountOpen, TypeOK, TaskMatches, AlertMatches,
       NoTask, Task
  <1>13. ASSUME NEW w \in Workers, OpenBreaker(w) PROVE TaskMatches' /\ AlertMatches'
    BY <1>13, Tier2Assumption DEF OpenBreaker, TypeOK, TaskMatches, AlertMatches,
       NoTask, Task
  <1>14. ASSUME NEW w \in Workers, Signal(w) PROVE TaskMatches' /\ AlertMatches'
    BY <1>14, Tier2Assumption DEF Signal, TypeOK, TaskMatches, AlertMatches, NoTask, Task
  <1>15. ASSUME NEW w \in Workers, BreakerDone(w) PROVE TaskMatches' /\ AlertMatches'
    BY <1>15, Tier2Assumption DEF BreakerDone, TypeOK, TaskMatches, AlertMatches,
       NoTask, Task
  <1>16. ASSUME NEW w \in Workers, BreakerRaises(w) PROVE TaskMatches' /\ AlertMatches'
    BY <1>16, Tier2Assumption DEF BreakerRaises, TypeOK, TaskMatches, AlertMatches,
       NoTask, Task
  <1>17. ASSUME NEW w \in Workers, Ack(w) PROVE TaskMatches' /\ AlertMatches'
    BY <1>17, Tier2Assumption DEF Ack, TypeOK, TaskMatches, AlertMatches, NoTask, Task
  <1>18. ASSUME NEW w \in Workers, Crash(w) PROVE TaskMatches' /\ AlertMatches'
    BY <1>18, Tier2Assumption DEF Crash, TypeOK, TaskMatches, AlertMatches, NoTask, Task
  <1>19. ASSUME NEW w \in Alerters, NEW i \in Incidents, TakeAlert(w, i)
         PROVE  TaskMatches' /\ AlertMatches'
    BY <1>19, Tier2Assumption DEF TakeAlert, TypeOK, TaskMatches, AlertMatches,
       NoTask, Task
  <1>20. ASSUME NEW w \in Alerters, Post(w) PROVE TaskMatches' /\ AlertMatches'
    BY <1>20, Tier2Assumption DEF Post, TypeOK, TaskMatches, AlertMatches, NoTask, Task
  <1>21. ASSUME NEW w \in Alerters, PostRaises(w) PROVE TaskMatches' /\ AlertMatches'
    BY <1>21, Tier2Assumption DEF PostRaises, TypeOK, TaskMatches, AlertMatches,
       NoTask, Task
  <1>22. ASSUME NEW w \in Alerters, AckAlert(w) PROVE TaskMatches' /\ AlertMatches'
    BY <1>22, Tier2Assumption DEF AckAlert, TypeOK, TaskMatches, AlertMatches,
       NoTask, Task
  <1>23. ASSUME NEW i \in Incidents, NEW s \in Live \cup {"resolved"}, Patch(i, s)
         PROVE  TaskMatches' /\ AlertMatches'
    BY <1>23, Tier2Assumption DEF Patch, TypeOK, TaskMatches, AlertMatches, NoTask, Task
  <1>24. ASSUME NEW i \in Incidents, DeadLetter(i)
         PROVE  TaskMatches' /\ AlertMatches'
    BY <1>24 DEF DeadLetter, TypeOK, TaskMatches, AlertMatches
  <1>25. CASE UNCHANGED vars
    BY <1>25, Tier2Assumption DEF vars, TypeOK, TaskMatches, AlertMatches, NoTask, Task
  <1>26. QED
    BY <1>1, <1>2, <1>3, <1>4, <1>5, <1>6, <1>7, <1>8, <1>9, <1>10, <1>11, <1>12,
       <1>13, <1>14, <1>15, <1>16, <1>17, <1>18, <1>19, <1>20, <1>21, <1>22, <1>23,
       <1>24, <1>25 DEF Next, Tier2Step, AlertStep

(* One claim, one analysis, one result per dedup_key. *)
LEMMA ClaimStep ==
  ASSUME Tier2Inv, [Next]_vars
  PROVE  OneClaim' /\ NothingTwice' /\ AnalysedOnce'
  <1> USE DEF jobVars, storeVars, alertVars, boundVars, histVars, Goto, AlertGoto,
         Mishap, Tier2Inv
  <1>1. ASSUME NEW w \in Workers, NEW m \in Messages, Take(w, m)
        PROVE  OneClaim' /\ NothingTwice' /\ AnalysedOnce'
    BY <1>1, Tier2Assumption DEF Take, TypeOK, TaskMatches, OneClaim, NothingTwice,
       AnalysedOnce, Claimed, NoTask, Task, Dedup
  <1>2. ASSUME NEW w \in Workers, ClaimJob(w)
        PROVE  OneClaim' /\ NothingTwice' /\ AnalysedOnce'
    BY <1>2, Tier2Assumption DEF ClaimJob, TypeOK, TaskMatches, OneClaim,
       NothingTwice, AnalysedOnce, Claimed, NoTask, Task, Dedup
  <1>3. ASSUME NEW w \in Workers, SkipClaimed(w)
        PROVE  OneClaim' /\ NothingTwice' /\ AnalysedOnce'
    BY <1>3, Tier2Assumption DEF SkipClaimed, TypeOK, TaskMatches, OneClaim,
       NothingTwice, AnalysedOnce, Claimed, NoTask, Task, Dedup
  <1>4. ASSUME NEW w \in Workers, ClaimRaises(w)
        PROVE  OneClaim' /\ NothingTwice' /\ AnalysedOnce'
    BY <1>4, Tier2Assumption DEF ClaimRaises, TypeOK, TaskMatches, OneClaim,
       NothingTwice, AnalysedOnce, Claimed, NoTask, Task, Dedup
  <1>5. ASSUME NEW w \in Workers, Analyse(w)
        PROVE  OneClaim' /\ NothingTwice' /\ AnalysedOnce'
    <2>1. at[w] = "analyse" /\ at' = [at EXCEPT ![w] = "persist"] /\ job' = job /\ results' = results
      BY <1>5 DEF Analyse
    <2>2. \A v \in Workers : Dedup(v)' = Dedup(v)
      BY <1>5, AnalyseEffect DEF Dedup
    <2>3. /\ decisions[Dedup(w)] = 0 /\ Dedup(w) \in Dedups
          /\ job[Dedup(w)] = "running"
      BY <2>1, InHand DEF OneClaim, NothingTwice, Claimed
    <2>4. decisions' = decisions \/ decisions' = [decisions EXCEPT ![Dedup(w)] = @ + 1]
      BY <1>5 DEF Analyse
    <2>5. OneClaim'
      BY <2>1, <2>2 DEF OneClaim, TypeOK, Claimed
    <2>6. \A v \in Workers : at'[v] = "analyse" => at[v] = "analyse" /\ Dedup(v) # Dedup(w)
      BY <2>1 DEF OneClaim, Claimed, TypeOK
    <2>a. \A d \in Dedups : d # Dedup(w) => decisions'[d] = decisions[d]
      BY <2>4 DEF TypeOK
    <2>7. NothingTwice'
      <3>1. \A d \in Dedups : job'[d] = "none" => results'[d] = 0 /\ decisions'[d] = 0
        BY <2>1, <2>3, <2>a DEF NothingTwice
      <3>2. \A v \in Workers : at'[v] \in Claimed => results'[Dedup(v)'] = 0
        BY <2>1, <2>2 DEF NothingTwice, Claimed, TypeOK
      <3>3. \A v \in Workers : at'[v] = "analyse" => decisions'[Dedup(v)'] = 0
        <4>1. \A v \in Workers : at'[v] = "analyse" => Dedup(v) \in Dedups
          BY <2>6, InHand
        <4>2. QED
          BY <2>2, <2>6, <2>a, <4>1 DEF NothingTwice
      <3>4. QED
        BY <3>1, <3>2, <3>3 DEF NothingTwice
    <2>8. AnalysedOnce'
      BY <2>1, <2>3, <2>4 DEF AnalysedOnce, TypeOK
    <2>9. QED
      BY <2>5, <2>7, <2>8
  <1>6. ASSUME NEW w \in Workers, Persist(w)
        PROVE  OneClaim' /\ NothingTwice' /\ AnalysedOnce'
    <2>1. PICK there \in {"ack", "announce"} : at' = [at EXCEPT ![w] = there]
      BY <1>6, PersistEffect
    <2>2. PICK new \in BOOLEAN : task' = [task EXCEPT ![w].new = new]
      BY <1>6, PersistEffect
    <2>3. \A v \in Workers : Dedup(v)' = Dedup(v)
      BY <2>2 DEF Dedup, TypeOK
    <2>4. /\ at[w] = "persist" /\ at[w] \in Claimed /\ Dedup(w) \in Dedups
          /\ job[Dedup(w)] = "running" /\ results[Dedup(w)] = 0
      BY <1>6, PersistEffect DEF OneClaim, NothingTwice, Claimed
    <2>5. /\ job' = [job EXCEPT ![Dedup(w)] = "done"]
          /\ results' = [results EXCEPT ![Dedup(w)] = @ + 1]
          /\ decisions' = decisions
      BY <1>6 DEF Persist
    <2>6. \A v \in Workers : at'[v] \in Claimed =>
             at[v] \in Claimed /\ at'[v] = at[v] /\ Dedup(v) # Dedup(w) /\ Dedup(v) \in Dedups
      BY <2>1, <2>4, InHand DEF OneClaim, Claimed, TypeOK
    <2>7. OneClaim'
      BY <2>3, <2>5, <2>6 DEF OneClaim, TypeOK
    <2>8. NothingTwice'
      BY <2>3, <2>4, <2>5, <2>6 DEF NothingTwice, TypeOK, Claimed
    <2>9. AnalysedOnce'
      BY <2>4, <2>5 DEF AnalysedOnce, TypeOK
    <2>10. QED
      BY <2>7, <2>8, <2>9
  <1>7. ASSUME NEW w \in Workers, Raises(w)
        PROVE  OneClaim' /\ NothingTwice' /\ AnalysedOnce'
    <2>1. PICK here \in {"analyse", "persist"} : at[w] = here /\ at' = [at EXCEPT ![w] = "fail"]
      BY <1>7 DEF Raises
    <2>2. UNCHANGED <<job, results, decisions, task>>
      BY <1>7 DEF Raises
    <2>3. \A v \in Workers : Dedup(v)' = Dedup(v)
      BY <2>2 DEF Dedup
    <2>4. \A v \in Workers : at'[v] \in Claimed => at[v] \in Claimed
      BY <2>1 DEF TypeOK, Claimed
    <2>5. \A v \in Workers : at'[v] = "analyse" => at[v] = "analyse"
      BY <2>1 DEF TypeOK
    <2>6. QED
      BY <2>2, <2>3, <2>4, <2>5 DEF OneClaim, NothingTwice, AnalysedOnce
  <1>8. ASSUME NEW w \in Workers, MarkFailed(w)
        PROVE  OneClaim' /\ NothingTwice' /\ AnalysedOnce'
    BY <1>8, Tier2Assumption DEF MarkFailed, TypeOK, TaskMatches, OneClaim,
       NothingTwice, AnalysedOnce, Claimed, NoTask, Task, Dedup
  <1>9. ASSUME NEW w \in Workers, MarkFailedRaises(w)
        PROVE  OneClaim' /\ NothingTwice' /\ AnalysedOnce'
    BY <1>9, Tier2Assumption DEF MarkFailedRaises, TypeOK, TaskMatches, OneClaim,
       NothingTwice, AnalysedOnce, Claimed, NoTask, Task, Dedup
  <1>10. ASSUME NEW w \in Workers, Announce(w)
         PROVE  OneClaim' /\ NothingTwice' /\ AnalysedOnce'
    BY <1>10, Tier2Assumption DEF Announce, TypeOK, TaskMatches, OneClaim,
       NothingTwice, AnalysedOnce, Claimed, NoTask, Task, Dedup
  <1>11. ASSUME NEW w \in Workers, AnnounceRaises(w)
         PROVE  OneClaim' /\ NothingTwice' /\ AnalysedOnce'
    BY <1>11, Tier2Assumption DEF AnnounceRaises, TypeOK, TaskMatches, OneClaim,
       NothingTwice, AnalysedOnce, Claimed, NoTask, Task, Dedup
  <1>12. ASSUME NEW w \in Workers, CountOpen(w)
         PROVE  OneClaim' /\ NothingTwice' /\ AnalysedOnce'
    BY <1>12, Tier2Assumption DEF CountOpen, TypeOK, TaskMatches, OneClaim,
       NothingTwice, AnalysedOnce, Claimed, NoTask, Task, Dedup
  <1>13. ASSUME NEW w \in Workers, OpenBreaker(w)
         PROVE  OneClaim' /\ NothingTwice' /\ AnalysedOnce'
    BY <1>13, Tier2Assumption DEF OpenBreaker, TypeOK, TaskMatches, OneClaim,
       NothingTwice, AnalysedOnce, Claimed, NoTask, Task, Dedup
  <1>14. ASSUME NEW w \in Workers, Signal(w)
         PROVE  OneClaim' /\ NothingTwice' /\ AnalysedOnce'
    BY <1>14, Tier2Assumption DEF Signal, TypeOK, TaskMatches, OneClaim,
       NothingTwice, AnalysedOnce, Claimed, NoTask, Task, Dedup
  <1>15. ASSUME NEW w \in Workers, BreakerDone(w)
         PROVE  OneClaim' /\ NothingTwice' /\ AnalysedOnce'
    BY <1>15, Tier2Assumption DEF BreakerDone, TypeOK, TaskMatches, OneClaim,
       NothingTwice, AnalysedOnce, Claimed, NoTask, Task, Dedup
  <1>16. ASSUME NEW w \in Workers, BreakerRaises(w)
         PROVE  OneClaim' /\ NothingTwice' /\ AnalysedOnce'
    <2>1. at' = [at EXCEPT ![w] = "ack"] /\ UNCHANGED <<task, job, results, decisions>>
      BY <1>16 DEF BreakerRaises
    <2>2. \A v \in Workers : at'[v] # "ack" => at'[v] = at[v]
      BY <2>1 DEF TypeOK
    <2>3. \A v \in Workers : Dedup(v)' = Dedup(v)
      BY <2>1 DEF Dedup
    <2>4. QED
      BY <2>1, <2>2, <2>3 DEF OneClaim, NothingTwice, AnalysedOnce, Claimed
  <1>17. ASSUME NEW w \in Workers, Ack(w)
         PROVE  OneClaim' /\ NothingTwice' /\ AnalysedOnce'
    BY <1>17, Tier2Assumption DEF Ack, TypeOK, TaskMatches, OneClaim, NothingTwice,
       AnalysedOnce, Claimed, NoTask, Task, Dedup
  <1>18. ASSUME NEW w \in Workers, Crash(w)
         PROVE  OneClaim' /\ NothingTwice' /\ AnalysedOnce'
    BY <1>18, Tier2Assumption DEF Crash, TypeOK, TaskMatches, OneClaim,
       NothingTwice, AnalysedOnce, Claimed, NoTask, Task, Dedup
  <1>19. ASSUME NEW w \in Alerters, NEW i \in Incidents, TakeAlert(w, i)
         PROVE  OneClaim' /\ NothingTwice' /\ AnalysedOnce'
    BY <1>19, Tier2Assumption DEF TakeAlert, TypeOK, TaskMatches, OneClaim,
       NothingTwice, AnalysedOnce, Claimed, NoTask, Task, Dedup
  <1>20. ASSUME NEW w \in Alerters, Post(w)
         PROVE  OneClaim' /\ NothingTwice' /\ AnalysedOnce'
    BY <1>20, Tier2Assumption DEF Post, TypeOK, TaskMatches, OneClaim,
       NothingTwice, AnalysedOnce, Claimed, NoTask, Task, Dedup
  <1>21. ASSUME NEW w \in Alerters, PostRaises(w)
         PROVE  OneClaim' /\ NothingTwice' /\ AnalysedOnce'
    BY <1>21, Tier2Assumption DEF PostRaises, TypeOK, TaskMatches, OneClaim,
       NothingTwice, AnalysedOnce, Claimed, NoTask, Task, Dedup
  <1>22. ASSUME NEW w \in Alerters, AckAlert(w)
         PROVE  OneClaim' /\ NothingTwice' /\ AnalysedOnce'
    BY <1>22, Tier2Assumption DEF AckAlert, TypeOK, TaskMatches, OneClaim,
       NothingTwice, AnalysedOnce, Claimed, NoTask, Task, Dedup
  <1>23. ASSUME NEW i \in Incidents, NEW s \in Live \cup {"resolved"}, Patch(i, s)
         PROVE  OneClaim' /\ NothingTwice' /\ AnalysedOnce'
    BY <1>23, Tier2Assumption DEF Patch, TypeOK, TaskMatches, OneClaim,
       NothingTwice, AnalysedOnce, Claimed, NoTask, Task, Dedup
  <1>24. ASSUME NEW i \in Incidents, DeadLetter(i)
         PROVE  OneClaim' /\ NothingTwice' /\ AnalysedOnce'
    BY <1>24 DEF DeadLetter, TypeOK, TaskMatches, OneClaim, NothingTwice,
       AnalysedOnce, Claimed, Dedup
  <1>25. CASE UNCHANGED vars
    BY <1>25, Tier2Assumption DEF vars, TypeOK, TaskMatches, OneClaim,
       NothingTwice, AnalysedOnce, Claimed, NoTask, Task, Dedup
  <1>26. QED
    BY <1>1, <1>2, <1>3, <1>4, <1>5, <1>6, <1>7, <1>8, <1>9, <1>10, <1>11, <1>12,
       <1>13, <1>14, <1>15, <1>16, <1>17, <1>18, <1>19, <1>20, <1>21, <1>22, <1>23,
       <1>24, <1>25 DEF Next, Tier2Step, AlertStep

(* The count behind an open breaker. *)
LEMMA PeakKept ==
  ASSUME Tier2Inv, [Next]_vars
  PROVE  PeakTrue' /\ TripEarned' /\ BreakerEarned'
  <1> USE DEF jobVars, storeVars, alertVars, boundVars, histVars, Goto, AlertGoto,
         Mishap, Tier2Inv
  <1>1. ASSUME NEW w \in Workers, NEW m \in Messages, Take(w, m)
        PROVE  PeakTrue' /\ TripEarned' /\ BreakerEarned'
    BY <1>1, Tier2Assumption DEF Take, TypeOK, TaskMatches, PeakTrue, TripEarned,
       BreakerEarned, Rows, LiveBlaming, NoTask, Task
  <1>2. ASSUME NEW w \in Workers, ClaimJob(w)
        PROVE  PeakTrue' /\ TripEarned' /\ BreakerEarned'
    BY <1>2, Tier2Assumption DEF ClaimJob, TypeOK, TaskMatches, PeakTrue,
       TripEarned, BreakerEarned, Rows, LiveBlaming, NoTask, Task
  <1>3. ASSUME NEW w \in Workers, SkipClaimed(w)
        PROVE  PeakTrue' /\ TripEarned' /\ BreakerEarned'
    BY <1>3, Tier2Assumption DEF SkipClaimed, TypeOK, TaskMatches, PeakTrue,
       TripEarned, BreakerEarned, Rows, LiveBlaming, NoTask, Task
  <1>4. ASSUME NEW w \in Workers, ClaimRaises(w)
        PROVE  PeakTrue' /\ TripEarned' /\ BreakerEarned'
    BY <1>4, Tier2Assumption DEF ClaimRaises, TypeOK, TaskMatches, PeakTrue,
       TripEarned, BreakerEarned, Rows, LiveBlaming, NoTask, Task
  <1>5. ASSUME NEW w \in Workers, Analyse(w)
        PROVE  PeakTrue' /\ TripEarned' /\ BreakerEarned'
    <2>1. \A v \in Workers : task'[v].name = task[v].name
      BY <1>5, AnalyseEffect
    <2>2. at' = [at EXCEPT ![w] = "persist"] /\ UNCHANGED <<storeVars, peak>>
      BY <1>5 DEF Analyse
    <2>3. QED
      BY <2>1, <2>2 DEF PeakTrue, TripEarned, BreakerEarned, Rows, LiveBlaming, TypeOK
  <1>6. ASSUME NEW w \in Workers, Persist(w)
        PROVE  PeakTrue' /\ TripEarned' /\ BreakerEarned'
    <2>1. PICK there \in {"ack", "announce"} : at' = [at EXCEPT ![w] = there]
      BY <1>6, PersistEffect
    <2>2. PICK new \in BOOLEAN : task' = [task EXCEPT ![w].new = new]
      BY <1>6, PersistEffect
    <2>3. PeakTrue' /\ \A a \in Agents : peak[a] <= peak'[a] /\ peak[a] \in Nat /\ peak'[a] \in Nat
      BY <1>6, PersistEffect, PeakStep DEF Persist, TypeOK
    <2>4. TripEarned'
      <3>1. ASSUME NEW v \in Workers, at'[v] = "trip"
            PROVE  at[v] = "trip" /\ task'[v] = task[v] /\ task[v].name \in Agents
        BY <1>6, <2>1, <2>2, <3>1, PersistEffect DEF TypeOK, TaskMatches
      <3>2. QED
        BY <2>3, <3>1, Tier2Assumption DEF TripEarned
    <2>5. BreakerEarned'
      <3>1. breaker' = breaker /\ breaker \subseteq Agents
        BY <1>6 DEF Persist, TypeOK
      <3>2. QED
        BY <2>3, <3>1, Tier2Assumption DEF BreakerEarned
    <2>6. QED
      BY <2>3, <2>4, <2>5
  <1>7. ASSUME NEW w \in Workers, Raises(w)
        PROVE  PeakTrue' /\ TripEarned' /\ BreakerEarned'
    BY <1>7, Tier2Assumption DEF Raises, TypeOK, TaskMatches, PeakTrue, TripEarned,
       BreakerEarned, Rows, LiveBlaming, NoTask, Task
  <1>8. ASSUME NEW w \in Workers, MarkFailed(w)
        PROVE  PeakTrue' /\ TripEarned' /\ BreakerEarned'
    BY <1>8, Tier2Assumption DEF MarkFailed, TypeOK, TaskMatches, PeakTrue,
       TripEarned, BreakerEarned, Rows, LiveBlaming, NoTask, Task
  <1>9. ASSUME NEW w \in Workers, MarkFailedRaises(w)
        PROVE  PeakTrue' /\ TripEarned' /\ BreakerEarned'
    BY <1>9, Tier2Assumption DEF MarkFailedRaises, TypeOK, TaskMatches, PeakTrue,
       TripEarned, BreakerEarned, Rows, LiveBlaming, NoTask, Task
  <1>10. ASSUME NEW w \in Workers, Announce(w)
         PROVE  PeakTrue' /\ TripEarned' /\ BreakerEarned'
    BY <1>10, Tier2Assumption DEF Announce, TypeOK, TaskMatches, PeakTrue,
       TripEarned, BreakerEarned, Rows, LiveBlaming, NoTask, Task
  <1>11. ASSUME NEW w \in Workers, AnnounceRaises(w)
         PROVE  PeakTrue' /\ TripEarned' /\ BreakerEarned'
    BY <1>11, Tier2Assumption DEF AnnounceRaises, TypeOK, TaskMatches, PeakTrue,
       TripEarned, BreakerEarned, Rows, LiveBlaming, NoTask, Task
  <1>12. ASSUME NEW w \in Workers, CountOpen(w)
         PROVE  PeakTrue' /\ TripEarned' /\ BreakerEarned'
    <2>1. PICK a \in task[w].agents :
            /\ task' = [task EXCEPT ![w].agents = @ \ {a}, ![w].name = a]
            /\ at' = IF Cardinality(LiveBlaming(a)) >= BreakerOpenIncidents
                     THEN [at EXCEPT ![w] = "trip"] ELSE at
            /\ at[w] = "breaker"
      BY <1>12 DEF CountOpen
    <2>2. a \in Agents
      BY DEF TypeOK, Task
    <2>3. UNCHANGED <<storeVars, peak>>
      BY <1>12 DEF CountOpen
    <2>4. Cardinality(LiveBlaming(a)) <= peak[a] /\ Cardinality(LiveBlaming(a)) \in Nat
      BY <2>2, CountFinite DEF PeakTrue
    <2>5. \A v \in Workers : v # w => task'[v] = task[v] /\ at'[v] = at[v]
      BY <2>1 DEF TypeOK
    <2>6. task'[w].name = a
      BY <2>1 DEF TypeOK, Task
    <2>7. TripEarned'
      <3>1. at'[w] = "trip" => peak[a] >= BreakerOpenIncidents
        BY <2>1, <2>2, <2>4, Tier2Assumption DEF TypeOK
      <3>2. QED
        BY <2>3, <2>5, <2>6, <3>1 DEF TripEarned
    <2>8. QED
      BY <2>3, <2>7 DEF PeakTrue, BreakerEarned, Rows, LiveBlaming
  <1>13. ASSUME NEW w \in Workers, OpenBreaker(w)
         PROVE  PeakTrue' /\ TripEarned' /\ BreakerEarned'
    BY <1>13, Tier2Assumption DEF OpenBreaker, TypeOK, TaskMatches, PeakTrue,
       TripEarned, BreakerEarned, Rows, LiveBlaming, NoTask, Task
  <1>14. ASSUME NEW w \in Workers, Signal(w)
         PROVE  PeakTrue' /\ TripEarned' /\ BreakerEarned'
    BY <1>14, Tier2Assumption DEF Signal, TypeOK, TaskMatches, PeakTrue,
       TripEarned, BreakerEarned, Rows, LiveBlaming, NoTask, Task
  <1>15. ASSUME NEW w \in Workers, BreakerDone(w)
         PROVE  PeakTrue' /\ TripEarned' /\ BreakerEarned'
    BY <1>15, Tier2Assumption DEF BreakerDone, TypeOK, TaskMatches, PeakTrue,
       TripEarned, BreakerEarned, Rows, LiveBlaming, NoTask, Task
  <1>16. ASSUME NEW w \in Workers, BreakerRaises(w)
         PROVE  PeakTrue' /\ TripEarned' /\ BreakerEarned'
    BY <1>16, Tier2Assumption DEF BreakerRaises, TypeOK, TaskMatches, PeakTrue,
       TripEarned, BreakerEarned, Rows, LiveBlaming, NoTask, Task
  <1>17. ASSUME NEW w \in Workers, Ack(w)
         PROVE  PeakTrue' /\ TripEarned' /\ BreakerEarned'
    BY <1>17, Tier2Assumption DEF Ack, TypeOK, TaskMatches, PeakTrue, TripEarned,
       BreakerEarned, Rows, LiveBlaming, NoTask, Task
  <1>18. ASSUME NEW w \in Workers, Crash(w)
         PROVE  PeakTrue' /\ TripEarned' /\ BreakerEarned'
    BY <1>18, Tier2Assumption DEF Crash, TypeOK, TaskMatches, PeakTrue, TripEarned,
       BreakerEarned, Rows, LiveBlaming, NoTask, Task
  <1>19. ASSUME NEW w \in Alerters, NEW i \in Incidents, TakeAlert(w, i)
         PROVE  PeakTrue' /\ TripEarned' /\ BreakerEarned'
    BY <1>19, Tier2Assumption DEF TakeAlert, TypeOK, TaskMatches, PeakTrue,
       TripEarned, BreakerEarned, Rows, LiveBlaming, NoTask, Task
  <1>20. ASSUME NEW w \in Alerters, Post(w)
         PROVE  PeakTrue' /\ TripEarned' /\ BreakerEarned'
    BY <1>20, Tier2Assumption DEF Post, TypeOK, TaskMatches, PeakTrue, TripEarned,
       BreakerEarned, Rows, LiveBlaming, NoTask, Task
  <1>21. ASSUME NEW w \in Alerters, PostRaises(w)
         PROVE  PeakTrue' /\ TripEarned' /\ BreakerEarned'
    BY <1>21, Tier2Assumption DEF PostRaises, TypeOK, TaskMatches, PeakTrue,
       TripEarned, BreakerEarned, Rows, LiveBlaming, NoTask, Task
  <1>22. ASSUME NEW w \in Alerters, AckAlert(w)
         PROVE  PeakTrue' /\ TripEarned' /\ BreakerEarned'
    BY <1>22, Tier2Assumption DEF AckAlert, TypeOK, TaskMatches, PeakTrue,
       TripEarned, BreakerEarned, Rows, LiveBlaming, NoTask, Task
  <1>23. ASSUME NEW i \in Incidents, NEW s \in Live \cup {"resolved"}, Patch(i, s)
         PROVE  PeakTrue' /\ TripEarned' /\ BreakerEarned'
    <2>1. Rows' = Rows
      BY <1>23 DEF Patch, Rows, Live, TypeOK
    <2>2. PeakTrue' /\ \A a \in Agents : peak[a] <= peak'[a] /\ peak[a] \in Nat /\ peak'[a] \in Nat
      BY <1>23, <2>1, PeakStep DEF Patch, PeakTrue, TypeOK
    <2>3. TripEarned'
      BY <1>23, <2>2, Tier2Assumption DEF Patch, TripEarned, TaskMatches
    <2>4. BreakerEarned'
      BY <1>23, <2>2, Tier2Assumption DEF Patch, BreakerEarned, TypeOK
    <2>5. QED
      BY <2>2, <2>3, <2>4
  <1>24. ASSUME NEW i \in Incidents, DeadLetter(i)
         PROVE  PeakTrue' /\ TripEarned' /\ BreakerEarned'
    BY <1>24 DEF DeadLetter, TypeOK, TaskMatches, PeakTrue, TripEarned,
       BreakerEarned, Rows, LiveBlaming
  <1>25. CASE UNCHANGED vars
    BY <1>25, Tier2Assumption DEF vars, TypeOK, TaskMatches, PeakTrue, TripEarned,
       BreakerEarned, Rows, LiveBlaming, NoTask, Task
  <1>26. QED
    BY <1>1, <1>2, <1>3, <1>4, <1>5, <1>6, <1>7, <1>8, <1>9, <1>10, <1>11, <1>12,
       <1>13, <1>14, <1>15, <1>16, <1>17, <1>18, <1>19, <1>20, <1>21, <1>22, <1>23,
       <1>24, <1>25 DEF Next, Tier2Step, AlertStep

(* News of an incident: one announcement under way at most. *)
LEMMA NewsKept ==
  ASSUME Tier2Inv, [Next]_vars
  PROVE  NewsTrue'
  <1> USE DEF jobVars, storeVars, alertVars, boundVars, histVars, Goto, AlertGoto,
         Mishap, Tier2Inv
  <1>1. ASSUME NEW w \in Workers, NEW m \in Messages, Take(w, m) PROVE NewsTrue'
    BY <1>1, Tier2Assumption DEF Take, TypeOK, TaskMatches, AlertMatches, NewsTrue,
       AboutToTell, Incident, GraphIn, Dedup, Incidents, NoTask, Task, Live
  <1>2. ASSUME NEW w \in Workers, ClaimJob(w) PROVE NewsTrue'
    BY <1>2, Tier2Assumption DEF ClaimJob, TypeOK, TaskMatches, AlertMatches,
       NewsTrue, AboutToTell, Incident, GraphIn, Dedup, Incidents, NoTask, Task,
       Live
  <1>3. ASSUME NEW w \in Workers, SkipClaimed(w) PROVE NewsTrue'
    BY <1>3, Tier2Assumption DEF SkipClaimed, TypeOK, TaskMatches, AlertMatches,
       NewsTrue, AboutToTell, Incident, GraphIn, Dedup, Incidents, NoTask, Task,
       Live
  <1>4. ASSUME NEW w \in Workers, ClaimRaises(w) PROVE NewsTrue'
    BY <1>4, Tier2Assumption DEF ClaimRaises, TypeOK, TaskMatches, AlertMatches,
       NewsTrue, AboutToTell, Incident, GraphIn, Dedup, Incidents, NoTask, Task,
       Live
  <1>5. ASSUME NEW w \in Workers, Analyse(w) PROVE NewsTrue'
    <2>1. \A v \in Workers : v # w => task'[v] = task[v]
      BY <1>5, AnalyseEffect
    <2>2. at' = [at EXCEPT ![w] = "persist"] /\ UNCHANGED <<status, notice>>
      BY <1>5 DEF Analyse
    <2>3. \A v \in Workers : AboutToTell(v)' =>
             v # w /\ AboutToTell(v) /\ Incident(v)' = Incident(v)
      BY <2>1, <2>2 DEF AboutToTell, TypeOK, Incident, GraphIn, Dedup
    <2>4. QED
      BY <2>2, <2>3 DEF NewsTrue
  <1>6. ASSUME NEW w \in Workers, Persist(w) PROVE NewsTrue'
    <2>1. PICK there \in {"ack", "announce"} : at' = [at EXCEPT ![w] = there]
      BY <1>6, PersistEffect
    <2>2. PICK new \in BOOLEAN :
            /\ task' = [task EXCEPT ![w].new = new]
            /\ new => task[w].key \in Keys /\ status[Incident(w)] = "none"
      BY <1>6, PersistEffect
    <2>3. /\ at[w] = "persist" /\ notice' = notice
          /\ \A i \in Incidents : status[i] # "none" => status'[i] # "none"
          /\ \A i \in Incidents : i = Incident(w) => status'[i] # "none"
      BY <1>6, PersistEffect DEF Persist, Reopened, Live
    <2>4. \A v \in Workers : Incident(v)' = Incident(v)
      BY <2>2 DEF Incident, GraphIn, Dedup, TypeOK
    <2>5. \A v \in Workers : v # w => (AboutToTell(v)' <=> AboutToTell(v))
      BY <2>1, <2>2 DEF AboutToTell, TypeOK
    <2>6. \A v \in Workers : AboutToTell(v) => Incident(v) \in Incidents
      BY InHand DEF AboutToTell, TaskMatches
    <2>7. task'[w].new => new
      BY <2>2 DEF TypeOK, Task
    <2>8. AboutToTell(w)' => /\ Incident(w) \in Incidents
                            /\ status[Incident(w)] = "none"
      BY <2>2, <2>3, <2>7, InHand DEF AboutToTell
    <2>9. \A i \in Incidents : status'[i] = "none" => notice'[i] = "none"
      BY <2>3 DEF NewsTrue
    <2>10. ASSUME NEW v \in Workers, AboutToTell(v)'
           PROVE  status'[Incident(v)] # "none" /\ notice'[Incident(v)] = "none"
      BY <2>3, <2>5, <2>6, <2>8, <2>10 DEF NewsTrue
    <2>11. ASSUME NEW u \in Workers, NEW v \in Workers, AboutToTell(u)', AboutToTell(v)',
                  Incident(u) = Incident(v)
           PROVE  u = v
      BY <2>5, <2>8, <2>11 DEF NewsTrue
    <2>12. QED
      BY <2>4, <2>9, <2>10, <2>11 DEF NewsTrue
  <1>7. ASSUME NEW w \in Workers, Raises(w) PROVE NewsTrue'
    <2>1. at' = [at EXCEPT ![w] = "fail"] /\ UNCHANGED <<task, status, notice>>
      BY <1>7 DEF Raises
    <2>2. \A v \in Workers : AboutToTell(v)' => AboutToTell(v) /\ Incident(v)' = Incident(v)
      BY <2>1 DEF AboutToTell, TypeOK, Incident, GraphIn, Dedup
    <2>3. QED
      BY <2>1, <2>2 DEF NewsTrue
  <1>8. ASSUME NEW w \in Workers, MarkFailed(w) PROVE NewsTrue'
    BY <1>8, Tier2Assumption DEF MarkFailed, TypeOK, TaskMatches, AlertMatches,
       NewsTrue, AboutToTell, Incident, GraphIn, Dedup, Incidents, NoTask, Task,
       Live
  <1>9. ASSUME NEW w \in Workers, MarkFailedRaises(w) PROVE NewsTrue'
    BY <1>9, Tier2Assumption DEF MarkFailedRaises, TypeOK, TaskMatches,
       AlertMatches, NewsTrue, AboutToTell, Incident, GraphIn, Dedup, Incidents,
       NoTask, Task, Live
  <1>10. ASSUME NEW w \in Workers, Announce(w) PROVE NewsTrue'
    BY <1>10, Tier2Assumption DEF Announce, TypeOK, TaskMatches, AlertMatches,
       NewsTrue, AboutToTell, Incident, GraphIn, Dedup, Incidents, NoTask, Task,
       Live
  <1>11. ASSUME NEW w \in Workers, AnnounceRaises(w) PROVE NewsTrue'
    BY <1>11, Tier2Assumption DEF AnnounceRaises, TypeOK, TaskMatches,
       AlertMatches, NewsTrue, AboutToTell, Incident, GraphIn, Dedup, Incidents,
       NoTask, Task, Live
  <1>12. ASSUME NEW w \in Workers, CountOpen(w) PROVE NewsTrue'
    <2>1. \A v \in Workers : at'[v] = "announce" => at[v] = "announce" /\ v # w
      BY <1>12 DEF CountOpen, TypeOK
    <2>2. \A v \in Workers : v # w => task'[v] = task[v]
      BY <1>12 DEF CountOpen, TypeOK
    <2>3. \A v \in Workers : AboutToTell(v)' => AboutToTell(v) /\ Incident(v)' = Incident(v)
      BY <2>1, <2>2 DEF AboutToTell, Incident, GraphIn, Dedup
    <2>4. UNCHANGED <<status, notice>>
      BY <1>12 DEF CountOpen
    <2>5. QED
      BY <2>3, <2>4 DEF NewsTrue
  <1>13. ASSUME NEW w \in Workers, OpenBreaker(w) PROVE NewsTrue'
    BY <1>13, Tier2Assumption DEF OpenBreaker, TypeOK, TaskMatches, AlertMatches,
       NewsTrue, AboutToTell, Incident, GraphIn, Dedup, Incidents, NoTask, Task,
       Live
  <1>14. ASSUME NEW w \in Workers, Signal(w) PROVE NewsTrue'
    BY <1>14, Tier2Assumption DEF Signal, TypeOK, TaskMatches, AlertMatches,
       NewsTrue, AboutToTell, Incident, GraphIn, Dedup, Incidents, NoTask, Task,
       Live
  <1>15. ASSUME NEW w \in Workers, BreakerDone(w) PROVE NewsTrue'
    BY <1>15, Tier2Assumption DEF BreakerDone, TypeOK, TaskMatches, AlertMatches,
       NewsTrue, AboutToTell, Incident, GraphIn, Dedup, Incidents, NoTask, Task,
       Live
  <1>16. ASSUME NEW w \in Workers, BreakerRaises(w) PROVE NewsTrue'
    <2>1. at' = [at EXCEPT ![w] = "ack"] /\ UNCHANGED <<task, status, notice>>
      BY <1>16 DEF BreakerRaises
    <2>2. \A v \in Workers : AboutToTell(v)' => AboutToTell(v) /\ Incident(v)' = Incident(v)
      BY <2>1 DEF AboutToTell, TypeOK, Incident, GraphIn, Dedup
    <2>3. QED
      BY <2>1, <2>2 DEF NewsTrue
  <1>17. ASSUME NEW w \in Workers, Ack(w) PROVE NewsTrue'
    BY <1>17, Tier2Assumption DEF Ack, TypeOK, TaskMatches, AlertMatches, NewsTrue,
       AboutToTell, Incident, GraphIn, Dedup, Incidents, NoTask, Task, Live
  <1>18. ASSUME NEW w \in Workers, Crash(w) PROVE NewsTrue'
    BY <1>18, Tier2Assumption DEF Crash, TypeOK, TaskMatches, AlertMatches,
       NewsTrue, AboutToTell, Incident, GraphIn, Dedup, Incidents, NoTask, Task,
       Live
  <1>19. ASSUME NEW w \in Alerters, NEW i \in Incidents, TakeAlert(w, i) PROVE NewsTrue'
    BY <1>19, Tier2Assumption DEF TakeAlert, TypeOK, TaskMatches, AlertMatches,
       NewsTrue, AboutToTell, Incident, GraphIn, Dedup, Incidents, NoTask, Task,
       Live
  <1>20. ASSUME NEW w \in Alerters, Post(w) PROVE NewsTrue'
    BY <1>20, Tier2Assumption DEF Post, TypeOK, TaskMatches, AlertMatches,
       NewsTrue, AboutToTell, Incident, GraphIn, Dedup, Incidents, NoTask, Task,
       Live
  <1>21. ASSUME NEW w \in Alerters, PostRaises(w) PROVE NewsTrue'
    BY <1>21, Tier2Assumption DEF PostRaises, TypeOK, TaskMatches, AlertMatches,
       NewsTrue, AboutToTell, Incident, GraphIn, Dedup, Incidents, NoTask, Task,
       Live
  <1>22. ASSUME NEW w \in Alerters, AckAlert(w) PROVE NewsTrue'
    BY <1>22, Tier2Assumption DEF AckAlert, TypeOK, TaskMatches, AlertMatches,
       NewsTrue, AboutToTell, Incident, GraphIn, Dedup, Incidents, NoTask, Task,
       Live
  <1>23. ASSUME NEW i \in Incidents, NEW s \in Live \cup {"resolved"}, Patch(i, s)
         PROVE  NewsTrue'
    BY <1>23, Tier2Assumption DEF Patch, TypeOK, TaskMatches, AlertMatches,
       NewsTrue, AboutToTell, Incident, GraphIn, Dedup, Incidents, NoTask, Task,
       Live
  <1>24. ASSUME NEW i \in Incidents, DeadLetter(i)
         PROVE  NewsTrue'
    BY <1>24 DEF DeadLetter, TypeOK, TaskMatches, NewsTrue, AboutToTell, Incident,
       GraphIn, Dedup
  <1>25. CASE UNCHANGED vars
    BY <1>25, Tier2Assumption DEF vars, TypeOK, TaskMatches, AlertMatches,
       NewsTrue, AboutToTell, Incident, GraphIn, Dedup, Incidents, NoTask, Task,
       Live
  <1>26. QED
    BY <1>1, <1>2, <1>3, <1>4, <1>5, <1>6, <1>7, <1>8, <1>9, <1>10, <1>11, <1>12,
       <1>13, <1>14, <1>15, <1>16, <1>17, <1>18, <1>19, <1>20, <1>21, <1>22, <1>23,
       <1>24, <1>25 DEF Next, Tier2Step, AlertStep

(* One story per graph: what supersedes the others is what is remembered. *)
LEMMA StoryKept ==
  ASSUME Tier2Inv, [Next]_vars
  PROVE  OneStoryPerGraph'
  <1> USE DEF jobVars, storeVars, alertVars, boundVars, histVars, Tier2Inv
  <1>1. ASSUME NEW w \in Workers, Persist(w) PROVE OneStoryPerGraph'
    <2>1. GraphIn(w) \in Graphs /\ last' = [last EXCEPT ![GraphIn(w)] = task[w].key]
          /\ patched' = {i \in patched : i[1] # GraphIn(w) \/ status'[i] = "resolved"}
      BY <1>1, PersistEffect DEF Persist
    <2>2. ASSUME NEW i \in Incidents, status'[i] \in Live, i \notin patched'
          PROVE  i[2] = last'[i[1]]
      <3>1. CASE i[1] = GraphIn(w)
        <4>1. i = Incident(w)
          BY <1>1, <2>2, <3>1, PersistEffect DEF Live
        <4>2. QED
          BY <2>1, <3>1, <4>1 DEF Incident, TypeOK
      <3>2. CASE i[1] # GraphIn(w)
        <4>1. i # Incident(w)
          BY <3>2 DEF Incident
        <4>2. status'[i] = status[i] /\ i \notin patched
          BY <1>1, <2>1, <2>2, <3>2, <4>1, PersistEffect
        <4>3. QED
          BY <2>1, <2>2, <3>2, <4>2 DEF OneStoryPerGraph, TypeOK
      <3>3. QED
        BY <3>1, <3>2
    <2>3. QED
      BY <2>2 DEF OneStoryPerGraph
  <1>2. ASSUME NEW i \in Incidents, NEW s \in Live \cup {"resolved"}, Patch(i, s)
        PROVE  OneStoryPerGraph'
    BY <1>2 DEF Patch, OneStoryPerGraph, TypeOK
  <1>3. ASSUME NEW w \in Workers, Tier2Step(w) \/ Crash(w)
        PROVE  Persist(w) \/ UNCHANGED <<status, last, patched>>
    BY <1>3 DEF Tier2Step, Take, ClaimJob, SkipClaimed, ClaimRaises, Analyse,
       Raises, MarkFailed,
       MarkFailedRaises, Announce, AnnounceRaises, CountOpen, OpenBreaker, Signal,
       BreakerDone, BreakerRaises, Ack, Crash
  <1>4. ASSUME NEW w \in Alerters, AlertStep(w)
        PROVE  UNCHANGED <<status, last, patched>>
    BY <1>4 DEF AlertStep, TakeAlert, Post, PostRaises, AckAlert
  <1>5. ASSUME NEW i \in Incidents, DeadLetter(i)
        PROVE  UNCHANGED <<status, last, patched>>
    BY <1>5 DEF DeadLetter
  <1>6. CASE UNCHANGED <<status, last, patched>>
    BY <1>6 DEF OneStoryPerGraph
  <1>7. QED
    BY <1>1, <1>2, <1>3, <1>4, <1>5, <1>6 DEF Next, vars

(* Initially nothing is claimed, stored or announced. *)
LEMMA InvInit == Init => Tier2Inv
  <1> SUFFICES ASSUME Init PROVE Tier2Inv
    OBVIOUS
  <1> USE DEF Init
  <1>1. TypeOK
    BY Tier2Assumption DEF TypeOK, Task, NoTask, Statuses
  <1>2. TaskMatches /\ AlertMatches /\ OneClaim /\ NothingTwice /\ AnalysedOnce
    BY Tier2Assumption DEF TaskMatches, AlertMatches, OneClaim, NothingTwice,
       AnalysedOnce, Claimed
  <1>3. PeakTrue
    <2>1. Rows = {} /\ \A a \in Agents : LiveBlaming(a) = {}
      BY DEF Rows, LiveBlaming, Live
    <2>2. \A a \in Agents : Cardinality(LiveBlaming(a)) = 0 /\ peak[a] = 0
      BY <2>1, FS_EmptySet
    <2>3. IsFiniteSet(Rows)
      BY <2>1, FS_EmptySet
    <2>4. QED
      BY <2>2, <2>3 DEF PeakTrue
  <1>4. TripEarned /\ BreakerEarned /\ NewsTrue /\ OneStoryPerGraph
    BY DEF TripEarned, BreakerEarned, NewsTrue, AboutToTell, OneStoryPerGraph, Live
  <1>5. QED
    BY <1>1, <1>2, <1>3, <1>4 DEF Tier2Inv

(* Every step of the specification keeps the invariant. *)
LEMMA InvStep == Tier2Inv /\ [Next]_vars => Tier2Inv'
  BY TypeStep, MatchStep, ClaimStep, PeakKept, NewsKept, StoryKept DEF Tier2Inv

(* The invariant, and the type invariant with it, hold of every behaviour. *)
THEOREM Invariance == Spec => []Tier2Inv
  BY InvInit, InvStep, PTL DEF Spec

(* claim_tier2_job's ON CONFLICT DO NOTHING is enough for exactly-once       *)
(* results: no number of duplicates, redeliveries, worker processes, crashes *)
(* and failing calls analyses a dedup_key twice.                            *)
THEOREM OnceOnly == Spec => []AnalysedOnce
  <1>1. Tier2Inv => AnalysedOnce
    BY DEF Tier2Inv
  <1>2. QED
    BY Invariance, <1>1, PTL

(* A breaker opens for a reason, although the count is read in one           *)
(* transaction and the breaker written in another (tier2.py:1418-1442).     *)
THEOREM BreakerHasReason == Spec => []BreakerEarned
  <1>1. Tier2Inv => BreakerEarned
    BY DEF Tier2Inv
  <1>2. QED
    BY Invariance, <1>1, PTL

(* Whatever order analyses of one graph commit in, the live incident that no *)
(* operator has set since is the last one's classification (pg.py:705-722). *)
THEOREM OneStory == Spec => []OneStoryPerGraph
  <1>1. Tier2Inv => OneStoryPerGraph
    BY DEF Tier2Inv
  <1>2. QED
    BY Invariance, <1>1, PTL

(* The row of an incident is inserted once, so only one analysis finds it    *)
(* is_new: what the alerter has acknowledged or the reaper dead-lettered is  *)
(* never queued as new again.                                               *)
THEOREM NewOnce ==
  Spec => [][\A i \in Incidents :
               notice[i] \in {"acked", "dead"} => notice'[i] = notice[i]]_vars
  <1>1. ASSUME Tier2Inv, Next, NEW i \in Incidents, notice[i] \in {"acked", "dead"}
        PROVE  notice'[i] = notice[i]
    <2> USE DEF jobVars, storeVars, alertVars, boundVars, histVars, Goto, AlertGoto,
         Mishap, Tier2Inv
    <2>1. CASE \E w \in Workers : Announce(w)
      <3>1. PICK w \in Workers : Announce(w)
        BY <2>1
      <3>2. task[w].new => notice[Incident(w)] = "none"
        <4>1. at[w] = "announce"
          BY <3>1 DEF Announce
        <4>2. AboutToTell(w) => notice[Incident(w)] = "none"
          BY <1>1 DEF NewsTrue
        <4>3. task[w].new => AboutToTell(w)
          BY <4>1 DEF AboutToTell
        <4>4. QED
          BY <4>2, <4>3
      <3>3. QED
        BY <1>1, <3>1, <3>2 DEF Announce, TypeOK
    <2>2. CASE \E w \in Alerters : AckAlert(w)
      BY <1>1, <2>2 DEF AckAlert, TypeOK
    <2>3. CASE UNCHANGED notice
      BY <1>1, <2>3
    <2>4. ASSUME NEW w \in Workers, Tier2Step(w) \/ Crash(w)
          PROVE  Announce(w) \/ UNCHANGED notice
      BY <2>4 DEF Tier2Step, Take, ClaimJob, SkipClaimed, ClaimRaises, Analyse,
         Persist, Raises,
         MarkFailed, MarkFailedRaises, AnnounceRaises, CountOpen, OpenBreaker, Signal,
         BreakerDone, BreakerRaises, Ack, Crash
    <2>5. ASSUME NEW w \in Alerters, AlertStep(w)
          PROVE  AckAlert(w) \/ UNCHANGED notice
      BY <2>5 DEF AlertStep, TakeAlert, Post, PostRaises
    <2>6. ASSUME NEW k \in Incidents, NEW t \in Live \cup {"resolved"}, Patch(k, t)
          PROVE  UNCHANGED notice
      BY <2>6 DEF Patch
    <2>7. CASE \E k \in Incidents : DeadLetter(k)
      BY <1>1, <2>7 DEF DeadLetter, TypeOK
    <2>8. QED
      BY <1>1, <2>1, <2>2, <2>3, <2>4, <2>5, <2>6, <2>7 DEF Next
  <1>2. Tier2Inv /\ [Next]_vars =>
          [\A i \in Incidents :
             notice[i] \in {"acked", "dead"} => notice'[i] = notice[i]]_vars
    BY <1>1
  <1>3. QED
    BY Invariance, <1>2, PTL DEF Spec
================================================================================
