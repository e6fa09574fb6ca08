------------------------------- MODULE Tier2Jobs -------------------------------
(***************************************************************************)
(* Tier 2 and the alerter: from a message on ad.graphs.tier2 to the        *)
(* webhook post (Tier2Processor.process and run_tier2 in worker/tier2.py,  *)
(* PgRepo in worker/pg.py, worker/alerter.py), with the API's PATCH of an  *)
(* incident running beside them.                                           *)
(*                                                                         *)
(* Each Postgres transaction and each Redis call is one step; a process    *)
(* may die between any two of them.  The streams are seen through the      *)
(* contract StreamGroup establishes: an entry not yet acknowledged may be  *)
(* handed to any idle loop, also while another one still works on it (a    *)
(* slow analysis outlives reaper_idle_ms).  Only the alerter leaves a      *)
(* failed entry pending, so its deliveries are counted; run_tier2          *)
(* acknowledges whatever happens, and only crashes spend its budget.       *)
(* Tier2Persist opens up the transaction that is one step here.            *)
(*                                                                         *)
(* What an analysis concludes is data: a classification (incident key) and *)
(* a set of culprit agents, or a clean graph, chosen freely.               *)
(***************************************************************************)
EXTENDS Naturals, FiniteSets, IncidentStatus

CONSTANTS Workers,     \* worker processes, each with one tier2 loop
          Alerters,    \* the workers whose alerter loop is looked at (all run one)
          Messages,    \* entries of ad.graphs.tier2
          Dedups,      \* the dedup_key values they carry
          Agents,      \* agent names an analysis can blame
          DedupOf,     \* dedup_key of a message
          GraphOf,     \* graph a dedup_key stands for
          BreakerOpenIncidents,  \* settings.breaker_open_incidents
          MaxDeliveries,  \* settings.max_deliveries
          MaxMishaps,  \* bound: crashes and raising Postgres and Redis calls
          MaxPatches,  \* bound: PATCH /incidents calls
          None         \* Python's None: no key, no message, no incident

ASSUME Tier2Assumption ==
    /\ Alerters \subseteq Workers
    /\ DedupOf \in [Messages -> Dedups]
    /\ GraphOf \in [Dedups -> Graphs]
    /\ BreakerOpenIncidents \in Nat
    /\ MaxDeliveries \in Nat
    /\ MaxMishaps \in Nat
    /\ MaxPatches \in Nat
    /\ None \notin Messages \cup Keys \cup Agents \cup (Graphs \X Keys)

VARIABLES acked,     \* messages XACKed in group tier2
          job,       \* tier2_jobs.status by dedup_key
          decisions, \* transactions that wrote policy_decisions for the job
          status,    \* incidents.status, "none" when there is no row
          blamed,    \* culprit agents of the incident's latest blame report
          at,        \* where each tier2 loop stands
          task,      \* what it has in hand
          breaker,   \* agents whose breaker_state is open
          notice,    \* the is_new entry of ad.incidents.created, per incident
          deliveries,  \* how often the group alerters has delivered it
          aat,       \* where each alerter loop stands
          alert,     \* the incident it has in hand
          posts,     \* webhook deliveries per incident
          mishaps,   \* crashes and raising calls so far
          patches,   \* PATCH calls so far
          results,   \* history: analyses committed for each dedup_key
          last,      \* history: outcome of the graph's last committed analysis
          patched,   \* history: incidents whose status an operator set last
          peak,      \* history: most live incidents ever blamed on an agent
          failures   \* history: dedup_keys and incidents hit by a failure

jobVars   == <<acked, job, decisions, at, task>>
storeVars == <<status, blamed, breaker>>
alertVars == <<notice, deliveries, aat, alert, posts>>
boundVars == <<mishaps, patches>>
histVars  == <<results, last, patched, peak, failures>>
vars == <<jobVars, storeVars, alertVars, boundVars, histVars>>

NoTask == [msg |-> None, key |-> None, new |-> FALSE, agents |-> {}, name |-> None]
Task == [msg : Messages \cup {None}, key : Keys \cup {None}, new : BOOLEAN,
         agents : SUBSET Agents, name : Agents \cup {None}]

TypeOK ==
    /\ acked \in SUBSET Messages
    /\ job \in [Dedups -> {"none", "running", "done", "failed"}]
    /\ decisions \in [Dedups -> Nat]
    /\ status \in [Incidents -> Statuses]
    /\ blamed \in [Incidents -> SUBSET Agents]
    /\ at \in [Workers -> {"idle", "claim", "analyse", "persist", "fail",
                           "announce", "breaker", "trip", "signal", "ack"}]
    /\ task \in [Workers -> Task]
    /\ breaker \in SUBSET Agents
    /\ notice \in [Incidents -> {"none", "queued", "acked", "dead"}]
    /\ deliveries \in [Incidents -> 0..MaxDeliveries + 1]
    /\ aat \in [Alerters -> {"idle", "post", "ack"}]
    /\ alert \in [Alerters -> Incidents \cup {None}]
    /\ posts \in [Incidents -> Nat]
    /\ mishaps \in 0..MaxMishaps
    /\ patches \in 0..MaxPatches
    /\ results \in [Dedups -> Nat]
    /\ last \in [Graphs -> Keys \cup {None}]
    /\ patched \in SUBSET Incidents
    /\ peak \in [Agents -> Nat]
    /\ failures \in SUBSET (Dedups \cup Incidents)

Init ==
    /\ acked = {}
    /\ job = [d \in Dedups |-> "none"]
    /\ decisions = [d \in Dedups |-> 0]
    /\ status = [i \in Incidents |-> "none"]
    /\ blamed = [i \in Incidents |-> {}]
    /\ at = [w \in Workers |-> "idle"]
    /\ task = [w \in Workers |-> NoTask]
    /\ breaker = {}
    /\ notice = [i \in Incidents |-> "none"]
    /\ deliveries = [i \in Incidents |-> 0]
    /\ aat = [w \in Alerters |-> "idle"]
    /\ alert = [w \in Alerters |-> None]
    /\ posts = [i \in Incidents |-> 0]
    /\ mishaps = 0
    /\ patches = 0
    /\ results = [d \in Dedups |-> 0]
    /\ last = [g \in Graphs |-> None]
    /\ patched = {}
    /\ peak = [a \in Agents |-> 0]
    /\ failures = {}

--------------------------------------------------------------------------------
(* What a task stands for, and what the breaker counts.                    *)

Dedup(w) == DedupOf[task[w].msg]
GraphIn(w) == GraphOf[Dedup(w)]
Incident(w) == <<GraphIn(w), task[w].key>>

\* mutant: incidents of any status are counted
LiveBlamingAny(a) == {i \in Incidents : a \in blamed[i]}
\* count_open_incidents_for_agent
LiveBlaming(a) == {i \in Incidents : status[i] \in Live /\ a \in blamed[i]}

--------------------------------------------------------------------------------
(* The tier2 loop.                                                         *)

Mishap == mishaps < MaxMishaps /\ mishaps' = mishaps + 1

Goto(w, here, there) == at[w] = here /\ at' = [at EXCEPT ![w] = there]

Take(w, m) ==
    /\ m \notin acked
    /\ Goto(w, "idle", "claim")
    /\ task' = [task EXCEPT ![w] = [NoTask EXCEPT !.msg = m]]
    /\ UNCHANGED <<acked, job, decisions, storeVars, alertVars, boundVars, histVars>>

\* mutant: a job that did not finish may be claimed again
ClaimUnfinished(w) ==
    /\ Goto(w, "claim", "analyse")
    /\ job[Dedup(w)] # "done"
    /\ job' = [job EXCEPT ![Dedup(w)] = "running"]
    /\ UNCHANGED <<acked, decisions, task, storeVars, alertVars, boundVars, histVars>>

\* claim_tier2_job: INSERT ... ON CONFLICT (dedup_key) DO NOTHING.
ClaimJob(w) ==
    /\ Goto(w, "claim", "analyse")
    /\ job[Dedup(w)] = "none"
    /\ job' = [job EXCEPT ![Dedup(w)] = "running"]
    /\ UNCHANGED <<acked, decisions, task, storeVars, alertVars, boundVars, histVars>>

\* mutant: the skipped message is left pending
SkipClaimedUnacked(w) ==
    /\ Goto(w, "claim", "idle")
    /\ job[Dedup(w)] # "none"
    /\ UNCHANGED <<acked, job, decisions, task, storeVars, alertVars, boundVars,
                   histVars>>

SkipClaimed(w) ==
    /\ Goto(w, "claim", "ack")
    /\ job[Dedup(w)] # "none"
    /\ UNCHANGED <<acked, job, decisions, task, storeVars, alertVars, boundVars,
                   histVars>>

\* The claim is outside process's try: when it raises nothing marks the job.
ClaimRaises(w) ==
    /\ Mishap
    /\ Goto(w, "claim", "ack")
    /\ failures' = failures \cup {Dedup(w)}
    /\ UNCHANGED <<acked, job, decisions, task, storeVars, alertVars, patches,
                   results, last, patched, peak>>

\* Loading, scoring, find_blame and classify_incident; then evaluate_policies,
\* whose shadow decisions are committed before the result is.
Analyse(w) ==
    /\ Goto(w, "analyse", "persist")
    /\ \/ task' = task                        \* clean: (None, None)
       \/ \E k \in Keys, c \in SUBSET Agents :
            task' = [task EXCEPT ![w].key = k, ![w].agents = c]
    /\ \/ decisions' = decisions
       \/ decisions' = [decisions EXCEPT ![Dedup(w)] = @ + 1]
    /\ UNCHANGED <<acked, job, storeVars, alertVars, boundVars, histVars>>

\* persist_tier2_result, committed.
Persist(w) ==
    /\ Goto(w, "persist", IF task[w].key = None THEN "ack" ELSE "announce")
    /\ status' = Persisted(status, GraphIn(w), task[w].key)
    /\ task' = [task EXCEPT ![w].new = /\ task[w].key # None
                                       /\ status[Incident(w)] = "none"]
    /\ blamed' = [i \in Incidents |->
                    IF i = Incident(w) THEN task[w].agents ELSE blamed[i]]
    /\ job' = [job EXCEPT ![Dedup(w)] = "done"]
    /\ results' = [results EXCEPT ![Dedup(w)] = @ + 1]
    /\ last' = [last EXCEPT ![GraphIn(w)] = task[w].key]
    /\ patched' = {i \in patched : i[1] # GraphIn(w) \/ status'[i] = "resolved"}
    /\ peak' = [a \in Agents |->
                  LET n == Cardinality({i \in Incidents :
                                          status'[i] \in Live /\ a \in blamed'[i]})
                  IN  IF n > peak[a] THEN n ELSE peak[a]]
    /\ UNCHANGED <<acked, decisions, breaker, alertVars, boundVars, failures>>

\* Any exception between the claim and the commit; the transaction rolls back.
Raises(w) ==
    /\ \/ Goto(w, "analyse", "fail")
       \/ Goto(w, "persist", "fail")
    /\ UNCHANGED <<acked, job, decisions, task, storeVars, alertVars, boundVars,
                   histVars>>

\* mutant: the failure is logged, the job row keeps its status
MarkFailedNot(w) ==
    /\ Goto(w, "fail", "ack")
    /\ UNCHANGED <<acked, job, decisions, task, storeVars, alertVars, boundVars,
                   histVars>>

\* fail_tier2_job; run_tier2 catches the re-raised exception and acknowledges.
MarkFailed(w) ==
    /\ Goto(w, "fail", "ack")
    /\ job' = [job EXCEPT ![Dedup(w)] = "failed"]
    /\ UNCHANGED <<acked, decisions, task, storeVars, alertVars, boundVars, histVars>>

\* fail_tier2_job raises too (Postgres is still down).
MarkFailedRaises(w) ==
    /\ Mishap
    /\ Goto(w, "fail", "ack")
    /\ failures' = failures \cup {Dedup(w)}
    /\ UNCHANGED <<acked, job, decisions, task, storeVars, alertVars, patches,
                   results, last, patched, peak>>

\* XADD ad.incidents.created.  The alerter drops entries that are not is_new,
\* so only those are recorded; a clean agent set skips the breaker loop.
Announce(w) ==
    /\ Goto(w, "announce", IF task[w].new THEN "breaker" ELSE "ack")
    /\ notice' = IF task[w].new THEN [notice EXCEPT ![Incident(w)] = "queued"]
                                ELSE notice
    /\ UNCHANGED <<acked, job, decisions, task, storeVars, deliveries, aat, alert,
                   posts, boundVars, histVars>>

\* The XADD raises outside the try: run_tier2 logs and acknowledges.
AnnounceRaises(w) ==
    /\ Mishap
    /\ Goto(w, "announce", "ack")
    /\ failures' = failures \cup {Incident(w)}
    /\ UNCHANGED <<acked, job, decisions, task, storeVars, alertVars, patches,
                   results, last, patched, peak>>

\* for name in culprit_agents: count_open_incidents_for_agent(name)
CountOpen(w) ==
    /\ at[w] = "breaker"
    /\ \E a \in task[w].agents :
        /\ task' = [task EXCEPT ![w].agents = @ \ {a}, ![w].name = a]
        /\ at' = IF Cardinality(LiveBlaming(a)) >= BreakerOpenIncidents
                 THEN [at EXCEPT ![w] = "trip"] ELSE at
    /\ UNCHANGED <<acked, job, decisions, storeVars, alertVars, boundVars, histVars>>

\* upsert_breaker(..., "open", ...), after the count has been read.
OpenBreaker(w) ==
    /\ Goto(w, "trip", "signal")
    /\ breaker' = breaker \cup {task[w].name}
    /\ UNCHANGED <<acked, job, decisions, task, status, blamed, alertVars,
                   boundVars, histVars>>

\* XADD ad.control.signals; no component of the repository consumes it.
Signal(w) ==
    /\ Goto(w, "signal", "breaker")
    /\ UNCHANGED <<acked, job, decisions, task, storeVars, alertVars, boundVars,
                   histVars>>

BreakerDone(w) ==
    /\ Goto(w, "breaker", "ack")
    /\ task[w].agents = {}
    /\ UNCHANGED <<acked, job, decisions, task, storeVars, alertVars, boundVars,
                   histVars>>

\* A call of the breaker section raises: the rest of it is skipped.
BreakerRaises(w) ==
    /\ Mishap
    /\ \/ Goto(w, "breaker", "ack")
       \/ Goto(w, "trip", "ack")
       \/ Goto(w, "signal", "ack")
    /\ UNCHANGED <<acked, job, decisions, task, storeVars, alertVars, patches,
                   histVars>>

\* run_tier2 acknowledges whether process returned or raised.
Ack(w) ==
    /\ Goto(w, "ack", "idle")
    /\ acked' = acked \cup {task[w].msg}
    /\ task' = [task EXCEPT ![w] = NoTask]
    /\ UNCHANGED <<job, decisions, storeVars, alertVars, boundVars, histVars>>

--------------------------------------------------------------------------------
(* The alerter loop.                                                       *)

AlertGoto(w, here, there) == aat[w] = here /\ aat' = [aat EXCEPT ![w] = there]

\* XREADGROUP the first time, reclaim_pending_messages after that: an entry
\* delivered more than max_deliveries times is left to the reaper.
TakeAlert(w, i) ==
    /\ notice[i] = "queued"
    /\ deliveries[i] <= MaxDeliveries
    /\ AlertGoto(w, "idle", "post")
    /\ alert' = [alert EXCEPT ![w] = i]
    /\ deliveries' = [deliveries EXCEPT ![i] = @ + 1]
    /\ UNCHANGED <<jobVars, storeVars, notice, posts, boundVars, histVars>>

\* load_alert_context finds the row (incidents are never deleted), then POST.
Post(w) ==
    /\ AlertGoto(w, "post", "ack")
    /\ posts' = [posts EXCEPT ![alert[w]] = @ + 1]
    /\ UNCHANGED <<jobVars, storeVars, notice, deliveries, alert, boundVars, histVars>>

\* The webhook raises, as often as it likes: refused, or timed out after it was
\* delivered.  The entry stays pending.
PostRaises(w) ==
    /\ AlertGoto(w, "post", "idle")
    /\ \/ posts' = posts
       \/ posts' = [posts EXCEPT ![alert[w]] = @ + 1]
    /\ alert' = [alert EXCEPT ![w] = None]
    /\ UNCHANGED <<jobVars, storeVars, notice, deliveries, boundVars, histVars>>

\* XACK; nothing happens when the reaper was there first.
AckAlert(w) ==
    /\ AlertGoto(w, "ack", "idle")
    /\ notice' = [notice EXCEPT ![alert[w]] = IF @ = "queued" THEN "acked" ELSE @]
    /\ alert' = [alert EXCEPT ![w] = None]
    /\ UNCHANGED <<jobVars, storeVars, deliveries, posts, boundVars, histVars>>

\* mutant: the reaper takes an entry on its last delivery
DeadLetterEarly(i) ==
    /\ notice[i] = "queued"
    /\ deliveries[i] >= MaxDeliveries
    /\ notice' = [notice EXCEPT ![i] = "dead"]
    /\ UNCHANGED <<jobVars, storeVars, deliveries, aat, alert, posts, boundVars,
                   histVars>>

\* reap_dead_letters on the alerters' group, in the reaper loop of any worker:
\* XADD to ad.incidents.created.dlq and XACK, also while a slow webhook call
\* still has the entry in hand.
DeadLetter(i) ==
    /\ notice[i] = "queued"
    /\ deliveries[i] > MaxDeliveries
    /\ notice' = [notice EXCEPT ![i] = "dead"]
    /\ UNCHANGED <<jobVars, storeVars, deliveries, aat, alert, posts, boundVars,
                   histVars>>

--------------------------------------------------------------------------------
(* The API and the environment.                                            *)

\* PATCH /incidents/{id}: any row, whatever its status.
Patch(i, s) ==
    /\ patches < MaxPatches
    /\ patches' = patches + 1
    /\ status[i] # "none"
    /\ status' = [status EXCEPT ![i] = s]
    /\ patched' = patched \cup {i}
    /\ peak' = [a \in Agents |->
                  LET n == Cardinality({k \in Incidents :
                                          status'[k] \in Live /\ a \in blamed[k]})
                  IN  IF n > peak[a] THEN n ELSE peak[a]]
    /\ UNCHANGED <<jobVars, blamed, breaker, alertVars, mishaps, results, last,
                   failures>>

\* What a crash of w leaves unfinished: the running job, the announcement.
Abandoned(w) ==
    IF at[w] \in {"analyse", "persist", "fail"} THEN {Dedup(w)}
    ELSE IF at[w] = "announce" THEN {Incident(w)} ELSE {}

\* The worker process dies and starts again: both loops forget their batch.
Crash(w) ==
    /\ Mishap
    /\ at' = [at EXCEPT ![w] = "idle"]
    /\ task' = [task EXCEPT ![w] = NoTask]
    /\ aat' = [v \in Alerters |-> IF v = w THEN "idle" ELSE aat[v]]
    /\ alert' = [v \in Alerters |-> IF v = w THEN None ELSE alert[v]]
    /\ failures' = failures \cup Abandoned(w)
    /\ UNCHANGED <<acked, job, decisions, storeVars, notice, deliveries, posts, patches,
                   results, last, patched, peak>>

Tier2Step(w) ==
    \/ \E m \in Messages : Take(w, m)
    \/ ClaimJob(w) \/ SkipClaimed(w) \/ ClaimRaises(w)
    \/ Analyse(w) \/ Persist(w) \/ Raises(w) \/ MarkFailed(w) \/ MarkFailedRaises(w)
    \/ Announce(w) \/ AnnounceRaises(w)
    \/ CountOpen(w) \/ OpenBreaker(w) \/ Signal(w) \/ BreakerDone(w) \/ BreakerRaises(w)
    \/ Ack(w)

AlertStep(w) == \/ \E i \in Incidents : TakeAlert(w, i)
                \/ Post(w) \/ PostRaises(w) \/ AckAlert(w)

Next == \/ \E w \in Workers : Tier2Step(w) \/ Crash(w)
        \/ \E w \in Alerters : AlertStep(w)
        \/ \E i \in Incidents : DeadLetter(i)
        \/ \E i \in Incidents, s \in Live \cup {"resolved"} : Patch(i, s)

Spec == Init /\ [][Next]_vars

\* asyncio keeps the loops of a process going while they have work, the reaper's
\* every 30 s.
Fairness == /\ \A w \in Workers : WF_vars(Tier2Step(w))
            /\ \A w \in Alerters : WF_vars(AlertStep(w))
            /\ \A i \in Incidents : WF_vars(DeadLetter(i))

FairSpec == Spec /\ Fairness

--------------------------------------------------------------------------------
(* Properties.                                                             *)

\* A dedup_key is analysed to the end at most once, however often its messages
\* are redelivered, duplicated by tier1 or worked on by two processes: one
\* committed result, and policy decisions written at most once
\* (claim_tier2_job's ON CONFLICT DO NOTHING).
AnalysedOnce == \A d \in Dedups : results[d] <= 1 /\ decisions[d] <= 1

\* "Leaving it open would page two stories about one run" (pg.py:709-711): an
\* incident that is live, and that no operator has set by hand since, carries
\* the classification of its graph's last committed analysis.
OneStoryPerGraph ==
    \A i \in Incidents : status[i] \in Live /\ i \notin patched => i[2] = last[i[1]]

\* A breaker is open only for an agent that at some moment was blamed by as
\* many live incidents as settings.breaker_open_incidents asks for, although
\* count and upsert are separate transactions (tier2.py:1418-1442).
BreakerEarned == \A a \in breaker : peak[a] >= BreakerOpenIncidents

\* Every message is acknowledged in the end, through crashes, redeliveries and
\* failing transactions.
EveryMessageAcked == \A m \in Messages : <>(m \in acked)

\* A claimed job ends done or failed, unless the process that claimed it died
\* or could not write the failure (those are the jobs "failures" names).
JobsEnd == \A d \in Dedups :
    job[d] = "running" ~> (job[d] \in {"done", "failed"} \/ d \in failures)

\* The announcement was dead-lettered with the whole budget used: every one of
\* max_deliveries + 1 deliveries ended in a failing webhook call or a crash.
Spent(i) == notice[i] = "dead" /\ deliveries[i] = MaxDeliveries + 1

\* A new incident reaches the webhook, unless the process died or the XADD
\* failed between the commit and the announcement (tier2.py:1400-1410), or its
\* announcement used up its deliveries.
NewIncidentsPosted == \A i \in Incidents :
    status[i] # "none" ~> (posts[i] > 0 \/ i \in failures \/ Spent(i))

\* The worker was killed mid-tier2 before XACK: the job runs, no process works
\* on it, and a message asking for it is still pending.
Stalled(d) == /\ job[d] = "running"
              /\ \E m \in Messages \ acked : DedupOf[m] = d
              /\ \A w \in Workers : task[w].msg # None => Dedup(w) # d

\* "the tier2 job claim keeps replay idempotent, so a stalled analysis resumes
\* without a manual XADD" (tier2.py:1476-1477): a stalled job ends.
StalledAnalysisResumes == \A d \in Dedups :
    Stalled(d) ~> job[d] \in {"done", "failed"}

\* "alerting only fires on is_new, so replaying a reclaimed message does not
\* re-notify" (alerter.py:126-127).
NotifiedOnce == \A i \in Incidents : posts[i] <= 1
================================================================================
