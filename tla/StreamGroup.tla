------------------------------ MODULE StreamGroup ------------------------------
(***************************************************************************)
(* One Redis stream with its consumer group, as services/worker uses it:   *)
(* the consumer loop of run_tier1 / run_tier2 / run_alerter (one shape,    *)
(* worker/streams.py and the run_* functions), reclaim_pending_messages,   *)
(* and the reaper loop that every worker process runs beside it.           *)
(*                                                                         *)
(* Entries are numbered in stream order.  The group's pending list is the  *)
(* set "pending" with the delivery counter "count"; an entry is "stale"    *)
(* once reaper_idle_ms have passed since its last delivery or claim, which *)
(* may happen at any moment, also while a slow handler still works on it.  *)
(* Every await of the Python code is a step of its own, so the answer of   *)
(* XPENDING can be out of date when XCLAIM uses it.  The loops walk their  *)
(* page and their batch in ascending id order (XPENDING sorts by id, and   *)
(* new entries have larger ids than reclaimed ones), so both are sets and  *)
(* the next element is the least one.                                      *)
(***************************************************************************)
EXTENDS Naturals, FiniteSets

CONSTANTS Workers,        \* worker processes: each one consumer loop and one reaper loop
          NumMessages,    \* bound: how many messages the producer XADDs
          MaxDeliveries,  \* settings.max_deliveries
          PageSize,       \* entries XPENDING returns (100 in the code)
          BatchSize,      \* entries XREADGROUP returns (settings.stream_batch_size)
          AckOnFailure,   \* TRUE: run_tier2; FALSE: run_tier1 and run_alerter
          MaxCrashes      \* bound: process crashes and loop errors together

ASSUME ConstantsAssumption ==
    /\ NumMessages \in Nat
    /\ MaxDeliveries \in Nat
    /\ PageSize \in Nat
    /\ BatchSize \in Nat
    /\ AckOnFailure \in BOOLEAN
    /\ MaxCrashes \in Nat

Ids == 1..NumMessages

\* One row of XPENDING's answer (PendingEntry).
Entry == [id : Ids, count : Nat]

VARIABLES added,    \* XLEN of the stream: the entries are 1..added
          cursor,   \* the group's last-delivered-id
          pending,  \* ids in the group's pending entries list
          stale,    \* pending ids whose idle time has reached reaper_idle_ms
          count,    \* times_delivered of each id
          at,       \* where each consumer loop stands
          page,     \* what is left of the loop's XPENDING answer
          batch,    \* reclaimed + messages, less what is already dealt with
          rat,      \* where each reaper stands
          rpage,    \* what is left of the reaper's XPENDING answer
          dlq,      \* how often each id was XADDed to <stream>.dlq
          crashes,  \* crashes and loop errors so far
          handled,  \* history: ids whose handler has returned normally
          tries     \* history: times an id was put into a batch

groupVars == <<added, cursor, pending, stale, count>>
loopVars  == <<at, page, batch>>
reapVars  == <<rat, rpage, dlq>>
histVars  == <<handled, tries>>
vars == <<groupVars, loopVars, reapVars, histVars, crashes>>

TypeOK ==
    /\ added \in 0..NumMessages
    /\ cursor \in 0..added
    /\ pending \in SUBSET (1..cursor)
    /\ stale \in SUBSET pending
    /\ count \in [Ids -> Nat]
    /\ at \in [Workers -> {"poll", "claim", "handle", "ack"}]
    /\ page \in [Workers -> SUBSET Entry]
    /\ batch \in [Workers -> SUBSET (1..cursor)]
    /\ rat \in [Workers -> {"sleep", "reap", "publish", "ack"}]
    /\ rpage \in [Workers -> SUBSET Entry]
    /\ dlq \in [Ids -> Nat]
    /\ crashes \in 0..MaxCrashes
    /\ handled \in SUBSET (1..cursor)
    /\ tries \in [Ids -> Nat]

Init ==
    /\ added = 0
    /\ cursor = 0
    /\ pending = {}
    /\ stale = {}
    /\ count = [m \in Ids |-> 0]
    /\ at = [w \in Workers |-> "poll"]
    /\ page = [w \in Workers |-> {}]
    /\ batch = [w \in Workers |-> {}]
    /\ rat = [w \in Workers |-> "sleep"]
    /\ rpage = [w \in Workers |-> {}]
    /\ dlq = [m \in Ids |-> 0]
    /\ crashes = 0
    /\ handled = {}
    /\ tries = [m \in Ids |-> 0]

--------------------------------------------------------------------------------
(* Redis commands, as redis-py answers them.                               *)

IsLeast(m, S) == m \in S /\ \A k \in S : m <= k

\* XPENDING ... IDLE min_idle COUNT n: the first n idle entries by id.
FirstIdle(n) == {m \in stale : Cardinality({k \in stale : k < m}) < n}
IdlePage(n) == {[id |-> m, count |-> count[m]] : m \in FirstIdle(n)}

\* The reaper owns entries delivered more than max_deliveries times, the
\* consumer loop the others: the two partition the idle entries.
LoopSkipsAtLimit(e) == e.count >= MaxDeliveries   \* mutant: a gap at the limit
LoopNeverSkips(e) == FALSE                        \* mutant: no budget
LoopSkips(e) == e.count > MaxDeliveries

ReaperSkipsBelowLimit(e) == e.count < MaxDeliveries   \* mutant: off by one
ReaperSkips(e) == e.count <= MaxDeliveries

\* XCLAIM takes the entry only while it is pending and idle long enough.
Claimable(m) == m \in stale

\* XCLAIM resets the idle time and counts one more delivery.
Claim(m) == /\ stale' = stale \ {m}
            /\ count' = [count EXCEPT ![m] = @ + 1]
            /\ UNCHANGED <<added, cursor, pending>>

\* XACK; acknowledging an id that is not pending changes nothing.
XAck(m) == /\ pending' = pending \ {m}
           /\ stale' = stale \ {m}
           /\ UNCHANGED <<added, cursor, count>>

\* The ids XREADGROUP ">" returns.
NewIds == {m \in (cursor + 1)..added : m <= cursor + BatchSize}

--------------------------------------------------------------------------------
(* Environment: the producer, and time.                                    *)

Publish == /\ added < NumMessages
           /\ added' = added + 1
           /\ UNCHANGED <<cursor, pending, stale, count, loopVars, reapVars,
                          histVars, crashes>>

Age(m) == /\ m \in pending \ stale
          /\ stale' = stale \cup {m}
          /\ UNCHANGED <<added, cursor, pending, count, loopVars, reapVars,
                         histVars, crashes>>

--------------------------------------------------------------------------------
(* The consumer loop.                                                      *)

\* reclaim_pending_messages: await consumer.pending(...)
PollPending(w) ==
    /\ at[w] = "poll"
    /\ page' = [page EXCEPT ![w] = IdlePage(PageSize)]
    /\ at' = [at EXCEPT ![w] = "claim"]
    /\ UNCHANGED <<groupVars, batch, reapVars, histVars, crashes>>

\* The least entry of the page is left alone: over budget, or no longer
\* claimable (acknowledged or claimed by another loop since XPENDING).
SkipPending(w) ==
    /\ at[w] = "claim"
    /\ \E e \in page[w] :
        /\ \A f \in page[w] : e.id <= f.id
        /\ LoopSkips(e) \/ ~Claimable(e.id)
        /\ page' = [page EXCEPT ![w] = @ \ {e}]
    /\ UNCHANGED <<groupVars, at, batch, reapVars, histVars, crashes>>

Reclaim(w) ==
    /\ at[w] = "claim"
    /\ \E e \in page[w] :
        /\ \A f \in page[w] : e.id <= f.id
        /\ ~LoopSkips(e)
        /\ Claimable(e.id)
        /\ Claim(e.id)
        /\ page' = [page EXCEPT ![w] = @ \ {e}]
        /\ batch' = [batch EXCEPT ![w] = @ \cup {e.id}]
        /\ tries' = [tries EXCEPT ![e.id] = @ + 1]
    /\ UNCHANGED <<at, reapVars, handled, crashes>>

\* mutant: the read forgets to advance the group's last-delivered-id
ReadNewAgain(w) ==
    /\ at[w] = "claim"
    /\ page[w] = {}
    /\ pending' = pending \cup NewIds
    /\ batch' = [batch EXCEPT ![w] = @ \cup NewIds]
    /\ at' = [at EXCEPT ![w] = "handle"]
    /\ UNCHANGED <<added, cursor, stale, count, page, reapVars, histVars, crashes>>

\* consumer.read: XREADGROUP with ">"; an empty answer is an empty batch.
ReadNew(w) ==
    /\ at[w] = "claim"
    /\ page[w] = {}
    /\ cursor' = IF cursor + BatchSize <= added THEN cursor + BatchSize ELSE added
    /\ pending' = pending \cup NewIds
    /\ count' = [m \in Ids |-> IF m \in NewIds THEN 1 ELSE count[m]]
    /\ tries' = [m \in Ids |-> IF m \in NewIds THEN tries[m] + 1 ELSE tries[m]]
    /\ batch' = [batch EXCEPT ![w] = @ \cup NewIds]
    /\ at' = [at EXCEPT ![w] = "handle"]
    /\ UNCHANGED <<added, stale, page, reapVars, handled, crashes>>

HandleOk(w) ==
    /\ at[w] = "handle"
    /\ \E m \in batch[w] : IsLeast(m, batch[w]) /\ handled' = handled \cup {m}
    /\ at' = [at EXCEPT ![w] = "ack"]
    /\ UNCHANGED <<groupVars, page, batch, reapVars, tries, crashes>>

\* mutant: the failed message is acknowledged whatever the loop
HandleFailAcks(w) ==
    /\ at[w] = "handle"
    /\ batch[w] # {}
    /\ at' = [at EXCEPT ![w] = "ack"]
    /\ UNCHANGED <<groupVars, page, batch, reapVars, histVars, crashes>>

\* The handler raises.  run_tier1 and run_alerter "continue" and leave the
\* entry pending; run_tier2 logs the exception and falls through to the ack.
HandleFail(w) ==
    /\ at[w] = "handle"
    /\ \E m \in batch[w] :
        /\ IsLeast(m, batch[w])
        /\ IF AckOnFailure
           THEN /\ at' = [at EXCEPT ![w] = "ack"]
                /\ batch' = batch
           ELSE /\ at' = at
                /\ batch' = [batch EXCEPT ![w] = @ \ {m}]
    /\ UNCHANGED <<groupVars, page, reapVars, histVars, crashes>>

Ack(w) ==
    /\ at[w] = "ack"
    /\ \E m \in batch[w] :
        /\ IsLeast(m, batch[w])
        /\ XAck(m)
        /\ batch' = [batch EXCEPT ![w] = @ \ {m}]
    /\ at' = [at EXCEPT ![w] = "handle"]
    /\ UNCHANGED <<page, reapVars, histVars, crashes>>

BatchDone(w) ==
    /\ at[w] = "handle"
    /\ batch[w] = {}
    /\ at' = [at EXCEPT ![w] = "poll"]
    /\ UNCHANGED <<groupVars, page, batch, reapVars, histVars, crashes>>

--------------------------------------------------------------------------------
(* The reaper loop: reap_dead_letters every 30 s.                          *)

ReapPoll(w) ==
    /\ rat[w] = "sleep"
    /\ rpage' = [rpage EXCEPT ![w] = IdlePage(PageSize)]
    /\ rat' = [rat EXCEPT ![w] = "reap"]
    /\ UNCHANGED <<groupVars, loopVars, dlq, histVars, crashes>>

ReapSkip(w) ==
    /\ rat[w] = "reap"
    /\ \E e \in rpage[w] :
        /\ \A f \in rpage[w] : e.id <= f.id
        /\ ReaperSkips(e)
        /\ rpage' = [rpage EXCEPT ![w] = @ \ {e}]
    /\ UNCHANGED <<groupVars, loopVars, rat, dlq, histVars, crashes>>

\* mutant: the claimed entry is acknowledged before it is republished
ReapClaimAcksFirst(w) ==
    /\ rat[w] = "reap"
    /\ \E e \in rpage[w] :
        /\ \A f \in rpage[w] : e.id <= f.id
        /\ ~ReaperSkips(e)
        /\ Claimable(e.id)
        /\ XAck(e.id)
    /\ rat' = [rat EXCEPT ![w] = "publish"]
    /\ UNCHANGED <<loopVars, rpage, dlq, histVars, crashes>>

ReapClaim(w) ==
    /\ rat[w] = "reap"
    /\ \E e \in rpage[w] :
        /\ \A f \in rpage[w] : e.id <= f.id
        /\ ~ReaperSkips(e)
        /\ Claimable(e.id)
        /\ Claim(e.id)
    /\ rat' = [rat EXCEPT ![w] = "publish"]
    /\ UNCHANGED <<loopVars, rpage, dlq, histVars, crashes>>

\* XCLAIM answered nothing: "message is None", so the entry is acknowledged
\* without a dead letter.
ReapMissed(w) ==
    /\ rat[w] = "reap"
    /\ \E e \in rpage[w] :
        /\ \A f \in rpage[w] : e.id <= f.id
        /\ ~ReaperSkips(e)
        /\ ~Claimable(e.id)
    /\ rat' = [rat EXCEPT ![w] = "ack"]
    /\ UNCHANGED <<groupVars, loopVars, rpage, dlq, histVars, crashes>>

ReapPublish(w) ==
    /\ rat[w] = "publish"
    /\ \E e \in rpage[w] :
        /\ \A f \in rpage[w] : e.id <= f.id
        /\ dlq' = [dlq EXCEPT ![e.id] = @ + 1]
    /\ rat' = [rat EXCEPT ![w] = "ack"]
    /\ UNCHANGED <<groupVars, loopVars, rpage, histVars, crashes>>

ReapAck(w) ==
    /\ rat[w] = "ack"
    /\ \E e \in rpage[w] :
        /\ \A f \in rpage[w] : e.id <= f.id
        /\ XAck(e.id)
        /\ rpage' = [rpage EXCEPT ![w] = @ \ {e}]
    /\ rat' = [rat EXCEPT ![w] = "reap"]
    /\ UNCHANGED <<loopVars, dlq, histVars, crashes>>

ReapDone(w) ==
    /\ rat[w] = "reap"
    /\ rpage[w] = {}
    /\ rat' = [rat EXCEPT ![w] = "sleep"]
    /\ UNCHANGED <<groupVars, loopVars, rpage, dlq, histVars, crashes>>

--------------------------------------------------------------------------------
(* Failures.                                                               *)

\* A Redis call of the consumer loop raises; _supervise restarts the loop.
LoopError(w) ==
    /\ crashes < MaxCrashes
    /\ crashes' = crashes + 1
    /\ at' = [at EXCEPT ![w] = "poll"]
    /\ page' = [page EXCEPT ![w] = {}]
    /\ batch' = [batch EXCEPT ![w] = {}]
    /\ UNCHANGED <<groupVars, reapVars, histVars>>

\* A Redis call of the reaper raises; _reaper_loop logs it and goes on.
ReapError(w) ==
    /\ crashes < MaxCrashes
    /\ crashes' = crashes + 1
    /\ rat' = [rat EXCEPT ![w] = "sleep"]
    /\ rpage' = [rpage EXCEPT ![w] = {}]
    /\ UNCHANGED <<groupVars, loopVars, dlq, histVars>>

\* The worker process dies and is started again.
Crash(w) ==
    /\ crashes < MaxCrashes
    /\ crashes' = crashes + 1
    /\ at' = [at EXCEPT ![w] = "poll"]
    /\ page' = [page EXCEPT ![w] = {}]
    /\ batch' = [batch EXCEPT ![w] = {}]
    /\ rat' = [rat EXCEPT ![w] = "sleep"]
    /\ rpage' = [rpage EXCEPT ![w] = {}]
    /\ UNCHANGED <<groupVars, dlq, histVars>>

--------------------------------------------------------------------------------
LoopStep(w) == \/ PollPending(w) \/ SkipPending(w) \/ Reclaim(w) \/ ReadNew(w)
               \/ HandleOk(w) \/ HandleFail(w) \/ Ack(w) \/ BatchDone(w)

ReapStep(w) == \/ ReapPoll(w) \/ ReapSkip(w) \/ ReapClaim(w) \/ ReapMissed(w)
               \/ ReapPublish(w) \/ ReapAck(w) \/ ReapDone(w)

Next == \/ Publish
        \/ \E m \in Ids : Age(m)
        \/ \E w \in Workers : \/ LoopStep(w)
                              \/ ReapStep(w)
                              \/ LoopError(w)
                              \/ ReapError(w)
                              \/ Crash(w)

Spec == Init /\ [][Next]_vars

\* The event loop of each process keeps running (after the last crash), and
\* the idle time of an entry grows.  The producer need not go on.
Fairness == /\ \A w \in Workers : WF_vars(LoopStep(w)) /\ WF_vars(ReapStep(w))
            /\ \A m \in Ids : WF_vars(Age(m))

FairSpec == Spec /\ Fairness

--------------------------------------------------------------------------------
(* Properties.                                                             *)

dead == {m \in Ids : dlq[m] > 0}

\* What the group has delivered and will not deliver again.
settled == {m \in 1..cursor : m \notin pending}

\* No message is lost: an entry leaves the pending list only after a handler
\* finished it or the reaper has written it to the dead-letter stream (ack in
\* the run_* loops, reap_dead_letters).  A loop error, a crash or the stale
\* answer of XPENDING must not drop one.
NoLoss == \A m \in settled : m \in handled \/ m \in dead

\* The same promise when several worker processes share the group, allowing
\* for a process that still has the message in its hands: a loop with it in
\* its batch, or a reaper about to republish what it claimed ("claimed by the
\* reaper, republished to <stream>.dlq with its original id, then acked",
\* worker/streams.py:184).
InHand(m) == \E w \in Workers :
                \/ m \in batch[w]
                \/ rat[w] = "publish" /\ \E e \in rpage[w] : e.id = m
NeverLost == \A m \in settled : m \in handled \/ m \in dead \/ InHand(m)

\* A message reaches a consumer loop at most MaxDeliveries + 1 times, however
\* crashes, failures and idle times fall (the read, then reclaims while the
\* counter is within the reaper's budget).
DeliveryBudget == \A m \in Ids : tries[m] <= MaxDeliveries + 1

\* The reaper gives up on a message only when the consumer loop has used up
\* every delivery the budget allows it.
DeadOnlyAfterBudget == \A m \in dead : tries[m] = MaxDeliveries + 1

\* Every message the producer added is settled in the end: reclaiming and
\* reaping leave no entry that neither of them picks up, also when one page
\* of XPENDING does not hold all idle entries.
EventuallySettled == \A m \in Ids : (m <= added) ~> (m \in settled)

\* The group keeps its promise to the producer.
Promise == INSTANCE DeliveryPromise
             WITH accepted <- 1..added,
                  finished <- handled \cup dead,
                  settled  <- settled
PromiseKept == Promise!Spec

\* Its safety part: every step of the group is a step of the promise or none.
PromiseSafety == Promise!Init /\ [][Promise!Next]_(Promise!vars)
================================================================================
