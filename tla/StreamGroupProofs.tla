--------------------------- MODULE StreamGroupProofs ---------------------------
(***************************************************************************)
(* Proofs about StreamGroup: type correctness for every instance, and the  *)
(* safety promises of a group served by a single worker process whose      *)
(* handlers leave a failed message pending (run_tier1 and run_alerter).    *)
(* With two processes NeverLost fails (run fleet_loss), so the hypothesis  *)
(* SingleProcess cannot be dropped.                                        *)
(***************************************************************************)
EXTENDS StreamGroup, TLAPS

SingleProcess == /\ \A v, w \in Workers : v = w
                 /\ AckOnFailure = FALSE

\* A page holds each id once, and only ids already delivered.
PageShape(pg) == \A e \in pg : /\ e.id <= cursor
                               /\ \A f \in pg : e.id = f.id => e = f

\* The counter in the loop's page is current, or already over budget: only
\* the reaper claims behind the loop's back, and only what is over budget.
PageCurrent == \A w \in Workers : \A e \in page[w] :
                  e.count = count[e.id] \/ e.count > MaxDeliveries

\* Counters only grow after the reaper read them.
ReaperPageOld == \A w \in Workers : \A e \in rpage[w] : e.count <= count[e.id]

Least(e, pg) == \A f \in pg : e.id <= f.id

\* An over-budget entry the reaper has yet to claim can be claimed, unless it
\* is gone: no one else may touch it.
ReaperOwns == \A w \in Workers : \A e \in rpage[w] :
                 \/ e.count <= MaxDeliveries
                 \/ e.id \notin pending
                 \/ e.id \in stale
                 \/ rat[w] \in {"publish", "ack"} /\ Least(e, rpage[w])

\* What the reaper republishes or acknowledges is over budget.
ReaperHolds == \A w \in Workers : rat[w] \in {"publish", "ack"} =>
                 \A e \in rpage[w] : Least(e, rpage[w]) => e.count > MaxDeliveries

\* What the reaper is about to acknowledge is a dead letter or gone.
ReaperAcks == \A w \in Workers : rat[w] = "ack" =>
                 \A e \in rpage[w] : Least(e, rpage[w]) =>
                    e.id \in dead \/ e.id \notin pending

\* What the loop is about to acknowledge has been handled.
LoopAcks == \A w \in Workers : at[w] = "ack" =>
               \A m \in batch[w] : IsLeast(m, batch[w]) => m \in handled

\* Each delivery to the loop is counted, and nothing but a reaper's claim of
\* an over-budget entry is counted besides.
Counted == /\ \A m \in Ids : tries[m] = IF count[m] <= MaxDeliveries + 1
                                        THEN count[m] ELSE MaxDeliveries + 1
           /\ \A m \in Ids : m > cursor => count[m] = 0
           /\ \A m \in dead : count[m] > MaxDeliveries

IInv == /\ TypeOK
        /\ \A w \in Workers : PageShape(page[w]) /\ PageShape(rpage[w])
        /\ PageCurrent
        /\ ReaperPageOld
        /\ ReaperOwns
        /\ ReaperHolds
        /\ ReaperAcks
        /\ LoopAcks
        /\ Counted
        /\ NoLoss

--------------------------------------------------------------------------------
\* What XPENDING returns are rows about entries that are pending and idle.
LEMMA IdlePageType ==
    ASSUME TypeOK, NEW n
    PROVE  \A e \in IdlePage(n) : /\ e \in Entry
                                  /\ e.id \in stale
                                  /\ e.count = count[e.id]
<1>1. FirstIdle(n) \subseteq stale
  BY DEF FirstIdle
<1>2. stale \subseteq Ids
  BY ConstantsAssumption DEF TypeOK, Ids
<1> SUFFICES ASSUME NEW e \in IdlePage(n)
             PROVE  e \in Entry /\ e.id \in stale /\ e.count = count[e.id]
  OBVIOUS
<1>3. PICK m \in FirstIdle(n) : e = [id |-> m, count |-> count[m]]
  BY DEF IdlePage
<1>4. m \in stale /\ m \in Ids /\ count[m] \in Nat
  BY <1>1, <1>2 DEF TypeOK
<1> QED
  BY <1>3, <1>4 DEF Entry

\* The ids in the group's bookkeeping are ids of delivered entries.
LEMMA IdRanges ==
    ASSUME TypeOK
    PROVE  /\ cursor \in Nat /\ added \in Nat
           /\ 1..cursor \subseteq Ids
           /\ stale \subseteq 1..cursor
           /\ \A w \in Workers : \A e \in page[w] \cup rpage[w] :
                 e.id \in Ids /\ e.count \in Nat
<1>1. cursor \in Nat /\ added \in Nat /\ cursor <= NumMessages
  BY ConstantsAssumption DEF TypeOK
<1>2. 1..cursor \subseteq Ids
  BY <1>1, ConstantsAssumption DEF Ids
<1>3. stale \subseteq 1..cursor
  BY DEF TypeOK
<1>4. \A w \in Workers : \A e \in page[w] \cup rpage[w] : e \in Entry
  BY DEF TypeOK
<1>5. \A e \in Entry : e.id \in Ids /\ e.count \in Nat
  BY DEF Entry
<1> QED
  BY <1>1, <1>2, <1>3, <1>4, <1>5

\* The ids XREADGROUP returns are new, and the cursor moves past them.
LEMMA NewIdsRange ==
    ASSUME TypeOK, NEW w \in Workers, ReadNew(w)
    PROVE  /\ cursor' \in 0..added
           /\ NewIds = (cursor + 1)..cursor'
           /\ NewIds \subseteq Ids
           /\ 1..cursor' = 1..cursor \cup NewIds
<1>1. cursor \in Nat /\ added \in Nat /\ cursor <= added /\ added <= NumMessages
  BY ConstantsAssumption DEF TypeOK
<1>2. cursor' = IF cursor + BatchSize <= added THEN cursor + BatchSize ELSE added
  BY DEF ReadNew
<1>3. cursor' \in Nat /\ cursor <= cursor' /\ cursor' <= added
  BY <1>1, <1>2, ConstantsAssumption
<1>4. NewIds = (cursor + 1)..cursor'
  BY <1>1, <1>2, ConstantsAssumption DEF NewIds
<1>5. NewIds \subseteq Ids /\ 1..cursor' = 1..cursor \cup NewIds
  BY <1>1, <1>3, <1>4, ConstantsAssumption DEF Ids
<1> QED
  BY <1>1, <1>3, <1>4, <1>5

\* The types are kept by every step, whatever the constants.
LEMMA TypeStep == TypeOK /\ [Next]_vars => TypeOK'
<1> SUFFICES ASSUME TypeOK, [Next]_vars
             PROVE  TypeOK'
  OBVIOUS
<1> USE ConstantsAssumption DEF TypeOK, groupVars, loopVars, reapVars, histVars, Ids
<1>1. CASE Publish
  BY <1>1 DEF Publish
<1>2. ASSUME NEW m \in Ids, Age(m)
      PROVE  TypeOK'
  BY <1>2 DEF Age
<1>3. ASSUME NEW w \in Workers, LoopStep(w)
      PROVE  TypeOK'
  <2>1. CASE PollPending(w)
    BY <2>1, IdlePageType DEF PollPending
  <2>2. CASE SkipPending(w)
    BY <2>2 DEF SkipPending
  <2>3. CASE Reclaim(w)
    <3>1. PICK e \in page[w] : /\ e.id \in stale
                               /\ Claim(e.id)
                               /\ page' = [page EXCEPT ![w] = @ \ {e}]
                               /\ batch' = [batch EXCEPT ![w] = @ \cup {e.id}]
                               /\ tries' = [tries EXCEPT ![e.id] = @ + 1]
      BY <2>3 DEF Reclaim, Claimable
    <3>2. UNCHANGED <<at, reapVars, handled, crashes>>
      BY <2>3 DEF Reclaim
    <3>3. e.id \in Ids /\ e.id \in 1..cursor
      BY <3>1, IdRanges
    <3>4. /\ UNCHANGED <<added, cursor, pending>>
          /\ stale' = stale \ {e.id}
          /\ count' = [count EXCEPT ![e.id] = @ + 1]
      BY <3>1 DEF Claim
    <3> HIDE DEF Ids
    <3>5. count' \in [Ids -> Nat] /\ tries' \in [Ids -> Nat]
      BY <3>1, <3>3, <3>4
    <3>6. page' \in [Workers -> SUBSET Entry] /\ batch' \in [Workers -> SUBSET (1..cursor)]
      BY <3>1, <3>3
    <3> QED
      BY <3>2, <3>4, <3>5, <3>6
  <2>4. CASE ReadNew(w)
    <3> HIDE DEF Ids
    <3>1. /\ cursor' \in 0..added
          /\ NewIds \subseteq Ids
          /\ 1..cursor' = 1..cursor \cup NewIds
      BY <2>4, NewIdsRange
    <3>2. pending' \in SUBSET (1..cursor') /\ stale' \in SUBSET pending'
      BY <2>4, <3>1 DEF ReadNew
    <3>3. count' \in [Ids -> Nat] /\ tries' \in [Ids -> Nat]
      BY <2>4 DEF ReadNew
    <3>4. batch[w] \cup NewIds \in SUBSET (1..cursor')
      BY <3>1
    <3>5. \A v \in Workers : batch[v] \in SUBSET (1..cursor')
      BY <3>1
    <3>6. batch' \in [Workers -> SUBSET (1..cursor')]
      BY <2>4, <3>4, <3>5 DEF ReadNew
    <3>7. handled' \in SUBSET (1..cursor')
      BY <2>4, <3>1 DEF ReadNew
    <3> QED
      BY <2>4, <3>1, <3>2, <3>3, <3>6, <3>7 DEF ReadNew
  <2>5. CASE HandleOk(w)
    BY <2>5 DEF HandleOk, IsLeast
  <2>6. CASE HandleFail(w)
    BY <2>6 DEF HandleFail, IsLeast
  <2>7. CASE Ack(w)
    BY <2>7 DEF Ack, XAck, IsLeast
  <2>8. CASE BatchDone(w)
    BY <2>8 DEF BatchDone
  <2> QED
    BY <1>3, <2>1, <2>2, <2>3, <2>4, <2>5, <2>6, <2>7, <2>8 DEF LoopStep
<1>4. ASSUME NEW w \in Workers, ReapStep(w)
      PROVE  TypeOK'
  <2>1. CASE ReapPoll(w)
    BY <2>1, IdlePageType DEF ReapPoll
  <2>2. CASE ReapSkip(w)
    BY <2>2 DEF ReapSkip
  <2>3. CASE ReapClaim(w)
    <3> HIDE DEF Ids
    <3>1. PICK e \in rpage[w] : e.id \in stale /\ Claim(e.id)
      BY <2>3 DEF ReapClaim, Claimable
    <3>2. e.id \in Ids
      BY <3>1, IdRanges
    <3>3. /\ UNCHANGED <<added, cursor, pending>>
          /\ stale' = stale \ {e.id}
          /\ count' = [count EXCEPT ![e.id] = @ + 1]
      BY <3>1 DEF Claim
    <3>4. count' \in [Ids -> Nat]
      BY <3>2, <3>3
    <3> QED
      BY <2>3, <3>3, <3>4 DEF ReapClaim
  <2>4. CASE ReapMissed(w)
    BY <2>4 DEF ReapMissed
  <2>5. CASE ReapPublish(w)
    <3>1. PICK e \in rpage[w] : dlq' = [dlq EXCEPT ![e.id] = @ + 1]
      BY <2>5 DEF ReapPublish
    <3>2. e.id \in Ids
      BY <3>1 DEF Entry
    <3>3. dlq' \in [Ids -> Nat]
      BY <3>1, <3>2
    <3> QED
      BY <2>5, <3>3 DEF ReapPublish
  <2>6. CASE ReapAck(w)
    <3>1. PICK e \in rpage[w] : XAck(e.id) /\ rpage' = [rpage EXCEPT ![w] = @ \ {e}]
      BY <2>6 DEF ReapAck
    <3>2. pending' \in SUBSET (1..cursor) /\ stale' \in SUBSET pending'
      BY <3>1 DEF XAck
    <3>3. rpage' \in [Workers -> SUBSET Entry]
      BY <3>1
    <3> QED
      BY <2>6, <3>1, <3>2, <3>3 DEF ReapAck, XAck
  <2>7. CASE ReapDone(w)
    BY <2>7 DEF ReapDone
  <2> QED
    BY <1>4, <2>1, <2>2, <2>3, <2>4, <2>5, <2>6, <2>7 DEF ReapStep
<1>5. ASSUME NEW w \in Workers, LoopError(w)
      PROVE  TypeOK'
  BY <1>5 DEF LoopError
<1>6. ASSUME NEW w \in Workers, ReapError(w)
      PROVE  TypeOK'
  BY <1>6 DEF ReapError
<1>7. ASSUME NEW w \in Workers, Crash(w)
      PROVE  TypeOK'
  BY <1>7 DEF Crash
<1>8. CASE UNCHANGED vars
  BY <1>8 DEF vars
<1> QED
  BY <1>1, <1>2, <1>3, <1>4, <1>5, <1>6, <1>7, <1>8 DEF Next

\* The state of the group, of the loops and of the reapers keeps its types in
\* every instance, whatever the number of processes.
THEOREM TypeCorrect == Spec => []TypeOK
<1>1. Init => TypeOK
  BY ConstantsAssumption DEF Init, TypeOK, Ids
<1> QED
  BY <1>1, TypeStep, PTL DEF Spec

--------------------------------------------------------------------------------
(* The inductive invariant, for a single worker process.                   *)

LEMMA IInvInit == Init => IInv
<1> SUFFICES ASSUME Init PROVE IInv
  OBVIOUS
<1>1. TypeOK
  BY ConstantsAssumption DEF Init, TypeOK, Ids
<1>2. \A w \in Workers : PageShape(page[w]) /\ PageShape(rpage[w])
  BY DEF Init, PageShape
<1>3. PageCurrent /\ ReaperPageOld /\ ReaperOwns /\ ReaperHolds /\ ReaperAcks /\ LoopAcks
  BY DEF Init, PageCurrent, ReaperPageOld, ReaperOwns, ReaperHolds, ReaperAcks, LoopAcks
<1>4. Counted /\ NoLoss
  BY ConstantsAssumption DEF Init, Counted, NoLoss, dead, settled
<1> QED
  BY <1>1, <1>2, <1>3, <1>4 DEF IInv

\* What XPENDING returns has the shape of a page.
LEMMA IdlePageShape ==
    ASSUME TypeOK, NEW n
    PROVE  PageShape(IdlePage(n))
<1>1. \A e \in IdlePage(n) : e.id <= cursor
  BY IdlePageType, IdRanges
<1>2. \A e, f \in IdlePage(n) : e.id = f.id => e = f
  BY DEF IdlePage
<1> QED
  BY <1>1, <1>2 DEF PageShape

\* The steps of the consumer loop.
LEMMA LoopKeepsIInv ==
    ASSUME SingleProcess, IInv, TypeOK', NEW w \in Workers, LoopStep(w)
    PROVE  IInv'
<1> USE DEF groupVars, loopVars, reapVars, histVars
<1>0. TypeOK /\ \A v \in Workers : v = w
  BY DEF IInv, SingleProcess
<1>1. CASE PollPending(w)
  <2>1. /\ UNCHANGED <<groupVars, batch, reapVars, histVars>>
        /\ page'[w] = IdlePage(PageSize)
        /\ at'[w] = "claim"
    BY <1>0, <1>1 DEF PollPending, TypeOK
  <2>2. PageShape(page[w])' /\ PageShape(rpage[w])'
    BY <2>1, <1>0, IdlePageShape DEF IInv, PageShape
  <2>3. PageCurrent'
    BY <2>1, <1>0, IdlePageType DEF PageCurrent
  <2>4. LoopAcks'
    BY <2>1, <1>0 DEF LoopAcks
  <2> QED
    BY <2>1, <2>2, <2>3, <2>4, <1>0 DEF IInv, ReaperPageOld, ReaperOwns, ReaperHolds,
       ReaperAcks, Counted, NoLoss, dead, settled, Least
<1>2. CASE SkipPending(w)
  <2>1. /\ UNCHANGED <<groupVars, at, batch, reapVars, histVars>>
        /\ page'[w] \subseteq page[w]
    BY <1>0, <1>2 DEF SkipPending, TypeOK
  <2>2. PageShape(page[w])' /\ PageShape(rpage[w])'
    BY <2>1, <1>0 DEF IInv, PageShape
  <2>3. PageCurrent'
    BY <2>1, <1>0 DEF IInv, PageCurrent
  <2> QED
    BY <2>1, <2>2, <2>3, <1>0 DEF IInv, ReaperPageOld, ReaperOwns, ReaperHolds,
       ReaperAcks, LoopAcks, Counted, NoLoss, dead, settled, Least
<1>3. CASE Reclaim(w)
  <2>0. PICK e \in page[w] : /\ ~LoopSkips(e)
                             /\ e.id \in stale
                             /\ Claim(e.id)
                             /\ page' = [page EXCEPT ![w] = @ \ {e}]
                             /\ tries' = [tries EXCEPT ![e.id] = @ + 1]
    BY <1>3 DEF Reclaim, Claimable
  <2>1. /\ e.count <= MaxDeliveries
        /\ e.id \in stale
        /\ Claim(e.id)
        /\ page' = [page EXCEPT ![w] = @ \ {e}]
        /\ tries' = [tries EXCEPT ![e.id] = @ + 1]
    BY <2>0, <1>0, IdRanges, ConstantsAssumption DEF LoopSkips
  <2>2. UNCHANGED <<at, rat, rpage, dlq, handled>> /\ at[w] = "claim"
    BY <1>3 DEF Reclaim
  <2>3. /\ UNCHANGED <<added, cursor, pending>>
        /\ stale' = stale \ {e.id}
        /\ count' = [count EXCEPT ![e.id] = @ + 1]
    BY <2>1 DEF Claim
  <2>4. e.id \in Ids /\ e.count \in Nat
    BY <2>1, <1>0, IdRanges
  <2>5. e.count = count[e.id]
    BY <2>1, <2>4, ConstantsAssumption DEF IInv, PageCurrent
  <2>6. page'[w] = page[w] \ {e}
    BY <2>1, <1>0 DEF TypeOK
  <2>7. \A m \in Ids : count'[m] = IF m = e.id THEN count[m] + 1 ELSE count[m]
    BY <2>3, <1>0 DEF TypeOK
  <2>8. PageShape(page[w])' /\ PageShape(rpage[w])'
    BY <2>6, <2>2, <2>3 DEF IInv, PageShape
  <2>9. PageCurrent'
    <3>1. \A f \in page'[w] : f \in page[w] /\ f.id # e.id /\ f.id \in Ids
      BY <2>1, <2>6, <1>0, IdRanges DEF IInv, PageShape
    <3> QED
      BY <3>1, <2>7, <1>0 DEF IInv, PageCurrent
  <2>10. ReaperPageOld'
    <3>1. \A f \in rpage[w] : f.id \in Ids /\ f.count \in Nat /\ count[f.id] \in Nat
      BY <1>0, IdRanges DEF TypeOK
    <3> QED
      BY <3>1, <2>2, <2>7, <1>0 DEF IInv, ReaperPageOld
  <2>11. ReaperOwns'
    <3>1. \A f \in rpage[w] : f.id = e.id => f.count <= MaxDeliveries
      BY <2>1, <2>4, <2>5, <1>0, IdRanges, ConstantsAssumption DEF IInv, ReaperPageOld
    <3> QED
      BY <3>1, <2>2, <2>3, <1>0 DEF IInv, ReaperOwns
  <2>12. Counted'
    <3>1. \A m \in Ids : tries'[m] = IF m = e.id THEN tries[m] + 1 ELSE tries[m]
      BY <2>1, <1>0 DEF TypeOK
    <3>2. e.id <= cursor
      BY <2>1 DEF IInv, PageShape
    <3>3. dead' = dead
      BY <2>2 DEF dead
    <3>4. /\ cursor \in Nat
          /\ \A m \in Ids : m \in Nat /\ count[m] \in Nat /\ tries[m] \in Nat
      <4>1. \A m \in Ids : m \in Nat
        BY DEF Ids
      <4>2. \A m \in Ids : count[m] \in Nat /\ tries[m] \in Nat
        BY <1>0 DEF TypeOK
      <4> QED
        BY <4>1, <4>2, <1>0, IdRanges
    <3>5. \A m \in Ids : tries'[m] = IF count'[m] <= MaxDeliveries + 1
                                     THEN count'[m] ELSE MaxDeliveries + 1
      BY <3>1, <3>4, <2>1, <2>4, <2>5, <2>7, ConstantsAssumption DEF IInv, Counted
    <3>6. \A m \in Ids : m > cursor => count'[m] = 0
      BY <3>2, <3>4, <2>4, <2>7 DEF IInv, Counted
    <3>7. \A m \in dead : count'[m] > MaxDeliveries
      BY <3>4, <2>7, ConstantsAssumption DEF IInv, Counted, dead
    <3> QED
      BY <3>3, <3>5, <3>6, <3>7, <2>3 DEF Counted
  <2> QED
    BY <2>2, <2>3, <2>8, <2>9, <2>10, <2>11, <2>12, <1>0 DEF IInv, ReaperHolds, ReaperAcks,
       LoopAcks, NoLoss, dead, settled, Least
<1>4. CASE ReadNew(w)
  <2>1. /\ cursor' \in Nat /\ cursor \in Nat /\ cursor <= cursor'
        /\ NewIds = (cursor + 1)..cursor'
        /\ NewIds \subseteq Ids
    <3>1. cursor \in Nat /\ added \in Nat
      BY <1>0, IdRanges
    <3>2. cursor' \in 0..added
      BY <1>0, <1>4, NewIdsRange
    <3>3. cursor <= cursor'
      BY <3>1, <1>0, <1>4, ConstantsAssumption DEF ReadNew, TypeOK
    <3> QED
      BY <3>1, <3>2, <3>3, <1>0, <1>4, NewIdsRange
  <2>2. /\ UNCHANGED <<stale, page, rat, rpage, dlq, handled>>
        /\ pending' = pending \cup NewIds
        /\ at'[w] = "handle"
        /\ page[w] = {}
    BY <1>0, <1>4 DEF ReadNew, TypeOK
  <2>3. \A m \in Ids : /\ count'[m] = IF m \in NewIds THEN 1 ELSE count[m]
                       /\ tries'[m] = IF m \in NewIds THEN tries[m] + 1 ELSE tries[m]
    BY <1>4 DEF ReadNew
  <2>4. \A f \in rpage[w] : f.id \in Ids /\ f.count \in Nat /\ f.id <= cursor
    BY <1>0, IdRanges DEF IInv, PageShape
  <2>5. \A m \in Ids : m \in Nat
    BY DEF Ids
  <2>6. \A m \in Ids : m <= cursor => count'[m] = count[m] /\ m \notin NewIds
    BY <2>1, <2>3, <2>5
  <2>7. PageShape(page[w])' /\ PageShape(rpage[w])'
    <3>1. ASSUME NEW f \in rpage[w] PROVE f.id <= cursor'
      <4>1. f.id \in Nat /\ f.id <= cursor
        BY <2>4, <2>5
      <4> QED
        BY <4>1, <2>1
    <3>2. \A e, f \in rpage[w] : e.id = f.id => e = f
      BY DEF IInv, PageShape
    <3> QED
      BY <3>1, <3>2, <2>2 DEF PageShape
  <2>8. PageCurrent'
    BY <2>2, <1>0 DEF PageCurrent
  <2>9. ReaperPageOld'
    BY <2>2, <2>4, <2>6, <1>0 DEF IInv, ReaperPageOld
  <2>10. ReaperOwns' /\ ReaperAcks'
    BY <2>2, <2>4, <2>6, <1>0 DEF IInv, ReaperOwns, ReaperAcks, Least, dead
  <2>11. LoopAcks'
    BY <2>2, <1>0 DEF LoopAcks
  <2>12. Counted'
    <3>1. \A m \in NewIds : m > cursor /\ tries[m] = 0
      BY <2>1, <2>5, ConstantsAssumption DEF IInv, Counted
    <3>2. \A m \in Ids : tries'[m] = IF count'[m] <= MaxDeliveries + 1
                                     THEN count'[m] ELSE MaxDeliveries + 1
      BY <3>1, <2>3, ConstantsAssumption DEF IInv, Counted
    <3>3. \A m \in Ids : m > cursor' => count'[m] = 0
      BY <2>1, <2>3, <2>5 DEF IInv, Counted
    <3>4. \A m \in dead : m \notin NewIds
      BY <3>1, <2>1, <2>5, ConstantsAssumption DEF IInv, Counted, dead
    <3>5. dead' = dead /\ dead \subseteq Ids
      BY <2>2 DEF dead
    <3>6. \A m \in dead : count'[m] > MaxDeliveries
      BY <3>4, <3>5, <2>3 DEF IInv, Counted
    <3> QED
      BY <3>2, <3>3, <3>5, <3>6 DEF Counted
  <2>13. NoLoss'
    <3>1. \A m \in 1..cursor' : m \in 1..cursor \/ m \in NewIds
      BY <2>1
    <3> QED
      BY <3>1, <2>2 DEF IInv, NoLoss, settled, dead
  <2> QED
    BY <2>2, <2>7, <2>8, <2>9, <2>10, <2>11, <2>12, <2>13, <1>0 DEF IInv, ReaperHolds, Least
<1>5. CASE HandleOk(w)
  <2>1. PICK m \in batch[w] : IsLeast(m, batch[w]) /\ handled' = handled \cup {m}
    BY <1>5 DEF HandleOk
  <2>2. UNCHANGED <<added, cursor, pending, stale, count, page, batch, rat, rpage, dlq, tries>>
    BY <1>5 DEF HandleOk
  <2>3. LoopAcks'
    <3>1. \A k \in batch[w] : k \in Nat
      BY <1>0, IdRanges DEF TypeOK
    <3>2. \A k \in batch[w] : IsLeast(k, batch[w]) => k = m
      BY <2>1, <3>1 DEF IsLeast
    <3> QED
      BY <3>2, <2>1, <2>2, <1>0 DEF LoopAcks, IsLeast
  <2> QED
    BY <2>1, <2>2, <2>3, <1>0 DEF IInv, PageShape, PageCurrent, ReaperPageOld, ReaperOwns,
       ReaperHolds, ReaperAcks, Counted, NoLoss, dead, settled, Least
<1>6. CASE HandleFail(w)
  <2>1. /\ UNCHANGED <<added, cursor, pending, stale, count, page, rat, rpage, dlq, handled, tries>>
        /\ at'[w] # "ack"
    BY <1>6 DEF HandleFail, SingleProcess
  <2>2. LoopAcks'
    BY <2>1, <1>0 DEF LoopAcks
  <2> QED
    BY <2>1, <2>2, <1>0 DEF IInv, PageShape, PageCurrent, ReaperPageOld, ReaperOwns,
       ReaperHolds, ReaperAcks, Counted, NoLoss, dead, settled, Least
<1>7. CASE Ack(w)
  <2>1. PICK m \in batch[w] : IsLeast(m, batch[w]) /\ XAck(m)
    BY <1>7 DEF Ack
  <2>2. /\ UNCHANGED <<added, cursor, count, page, rat, rpage, dlq, handled, tries>>
        /\ pending' = pending \ {m} /\ stale' = stale \ {m}
        /\ at'[w] = "handle"
    BY <1>0, <1>7, <2>1 DEF Ack, XAck, TypeOK
  <2>3. m \in handled
    BY <1>7, <2>1 DEF Ack, IInv, LoopAcks
  <2>4. LoopAcks'
    BY <2>2, <1>0 DEF LoopAcks
  <2>5. NoLoss'
    BY <2>2, <2>3 DEF IInv, NoLoss, settled, dead
  <2>6. ReaperOwns' /\ ReaperAcks'
    BY <2>2, <1>0 DEF IInv, ReaperOwns, ReaperAcks, Least, dead
  <2> QED
    BY <2>2, <2>4, <2>5, <2>6, <1>0 DEF IInv, PageShape, PageCurrent, ReaperPageOld,
       ReaperHolds, Counted, dead, Least
<1>8. CASE BatchDone(w)
  <2>1. /\ UNCHANGED <<added, cursor, pending, stale, count, page, batch, rat, rpage, dlq, handled, tries>>
        /\ at'[w] = "poll"
    BY <1>0, <1>8 DEF BatchDone, TypeOK
  <2>2. LoopAcks'
    BY <2>1, <1>0 DEF LoopAcks
  <2> QED
    BY <2>1, <2>2, <1>0 DEF IInv, PageShape, PageCurrent, ReaperPageOld, ReaperOwns,
       ReaperHolds, ReaperAcks, Counted, NoLoss, dead, settled, Least
<1> QED
  BY <1>1, <1>2, <1>3, <1>4, <1>5, <1>6, <1>7, <1>8 DEF LoopStep

\* The steps of the reaper.
LEMMA ReaperKeepsIInv ==
    ASSUME SingleProcess, IInv, TypeOK', NEW w \in Workers, ReapStep(w)
    PROVE  IInv'
<1> USE DEF groupVars, loopVars, reapVars, histVars
<1>0. TypeOK /\ \A v \in Workers : v = w
  BY DEF IInv, SingleProcess
<1>9. /\ \A f \in rpage[w] : f.id \in Ids /\ f.count \in Nat
      /\ \A m \in Ids : m \in Nat /\ count[m] \in Nat
  <2>1. \A m \in Ids : m \in Nat
    BY DEF Ids
  <2> QED
    BY <2>1, <1>0, IdRanges DEF TypeOK
<1>1. CASE ReapPoll(w)
  <2>1. /\ UNCHANGED <<groupVars, loopVars, dlq, histVars>>
        /\ rpage'[w] = IdlePage(PageSize)
        /\ rat'[w] = "reap"
    BY <1>0, <1>1 DEF ReapPoll, TypeOK
  <2>2. PageShape(page[w])' /\ PageShape(rpage[w])'
    BY <2>1, <1>0, IdlePageShape DEF IInv, PageShape
  <2>3. ReaperPageOld'
    BY <2>1, <1>0, <1>9, IdlePageType, IdRanges DEF ReaperPageOld, Entry
  <2>4. ReaperOwns' /\ ReaperHolds' /\ ReaperAcks'
    BY <2>1, <1>0, IdlePageType DEF ReaperOwns, ReaperHolds, ReaperAcks
  <2> QED
    BY <2>1, <2>2, <2>3, <2>4, <1>0 DEF IInv, PageCurrent, LoopAcks, Counted, NoLoss,
       dead, settled
<1>2. CASE ReapSkip(w)
  <2>1. /\ UNCHANGED <<groupVars, loopVars, rat, dlq, histVars>>
        /\ rpage'[w] \subseteq rpage[w]
        /\ rat[w] = "reap"
    BY <1>0, <1>2 DEF ReapSkip, TypeOK
  <2>2. PageShape(page[w])' /\ PageShape(rpage[w])'
    BY <2>1, <1>0 DEF IInv, PageShape
  <2>3. ReaperPageOld' /\ ReaperOwns' /\ ReaperHolds' /\ ReaperAcks'
    BY <2>1, <1>0 DEF IInv, ReaperPageOld, ReaperOwns, ReaperHolds, ReaperAcks
  <2> QED
    BY <2>1, <2>2, <2>3, <1>0 DEF IInv, PageCurrent, LoopAcks, Counted, NoLoss, dead, settled
<1>3. CASE ReapClaim(w)
  <2>1. PICK e \in rpage[w] : /\ Least(e, rpage[w])
                              /\ ~ReaperSkips(e)
                              /\ e.id \in stale
                              /\ Claim(e.id)
    BY <1>3 DEF ReapClaim, Claimable, Least
  <2>2. /\ UNCHANGED <<added, cursor, pending, at, page, batch, rpage, dlq, handled, tries>>
        /\ rat'[w] = "publish" /\ rat[w] = "reap"
        /\ stale' = stale \ {e.id}
        /\ count' = [count EXCEPT ![e.id] = @ + 1]
    BY <1>0, <1>3, <2>1 DEF ReapClaim, Claim, TypeOK
  <2>3. e.count > MaxDeliveries /\ count[e.id] > MaxDeliveries
    BY <2>1, <1>0, <1>9, ConstantsAssumption DEF ReaperSkips, IInv, ReaperPageOld
  <2>4. \A m \in Ids : count'[m] = IF m = e.id THEN count[m] + 1 ELSE count[m]
    BY <2>2, <1>0 DEF TypeOK
  <2>5. \A f \in rpage[w] : Least(f, rpage[w]) => f = e
    BY <2>1, <1>9 DEF Least, IInv, PageShape
  <2>6. PageShape(page[w])' /\ PageShape(rpage[w])'
    BY <2>2 DEF IInv, PageShape
  <2>7. PageCurrent'
    <3>1. \A f \in page[w] : f.id \in Ids /\ f.count \in Nat
      BY <1>0, IdRanges
    <3>2. \A f \in page[w] : f.id = e.id => f.count > MaxDeliveries
      BY <2>3, <1>0 DEF IInv, PageCurrent
    <3> QED
      BY <3>1, <3>2, <2>2, <2>4, <1>0 DEF IInv, PageCurrent
  <2>8. ReaperPageOld'
    BY <2>2, <2>4, <1>0, <1>9 DEF IInv, ReaperPageOld
  <2>9. ReaperOwns'
    <3>1. \A f \in rpage[w] : f.id = e.id => f = e
      BY <2>1 DEF IInv, PageShape
    <3> QED
      BY <3>1, <2>1, <2>2, <1>0 DEF IInv, ReaperOwns
  <2>10. ReaperHolds' /\ ReaperAcks'
    BY <2>2, <2>3, <2>5, <1>0 DEF ReaperHolds, ReaperAcks, Least
  <2>11. Counted'
    <3>1. dead' = dead /\ dead \subseteq Ids
      BY <2>2 DEF dead
    <3>2. e.id <= cursor
      BY <2>1 DEF IInv, PageShape
    <3>3. cursor \in Nat /\ e.id \in Nat
      BY <2>1, <1>0, <1>9, IdRanges
    <3>4. \A m \in Ids : tries[m] = IF count'[m] <= MaxDeliveries + 1
                                    THEN count'[m] ELSE MaxDeliveries + 1
      BY <2>3, <2>4, <1>9, ConstantsAssumption DEF IInv, Counted
    <3>5. \A m \in Ids : m > cursor => count'[m] = 0
      BY <3>2, <3>3, <2>4, <1>9 DEF IInv, Counted
    <3>6. \A m \in dead : count'[m] > MaxDeliveries
      BY <3>1, <2>4, <1>9, ConstantsAssumption DEF IInv, Counted
    <3> QED
      BY <3>1, <3>4, <3>5, <3>6, <2>2 DEF Counted
  <2> QED
    BY <2>2, <2>6, <2>7, <2>8, <2>9, <2>10, <2>11, <1>0 DEF IInv, LoopAcks, NoLoss,
       dead, settled
<1>4. CASE ReapMissed(w)
  <2>1. PICK e \in rpage[w] : /\ Least(e, rpage[w])
                              /\ ~ReaperSkips(e)
                              /\ e.id \notin stale
    BY <1>4 DEF ReapMissed, Claimable, Least
  <2>2. /\ UNCHANGED <<groupVars, loopVars, rpage, dlq, histVars>>
        /\ rat'[w] = "ack" /\ rat[w] = "reap"
    BY <1>0, <1>4 DEF ReapMissed, TypeOK
  <2>3. e.count > MaxDeliveries
    BY <2>1, <1>9, ConstantsAssumption DEF ReaperSkips
  <2>4. \A f \in rpage[w] : Least(f, rpage[w]) => f = e
    BY <2>1, <1>9 DEF Least, IInv, PageShape
  <2>5. e.id \notin pending
    BY <2>1, <2>2, <2>3, <1>9, ConstantsAssumption DEF IInv, ReaperOwns
  <2>6. ReaperOwns' /\ ReaperHolds' /\ ReaperAcks'
    BY <2>2, <2>3, <2>4, <2>5, <1>0 DEF IInv, ReaperOwns, ReaperHolds, ReaperAcks, Least
  <2> QED
    BY <2>2, <2>6, <1>0 DEF IInv, PageShape, PageCurrent, ReaperPageOld, LoopAcks, Counted,
       NoLoss, dead, settled
<1>5. CASE ReapPublish(w)
  <2>1. PICK e \in rpage[w] : Least(e, rpage[w]) /\ dlq' = [dlq EXCEPT ![e.id] = @ + 1]
    BY <1>5 DEF ReapPublish, Least
  <2>2. /\ UNCHANGED <<groupVars, loopVars, rpage, histVars>>
        /\ rat'[w] = "ack" /\ rat[w] = "publish"
    BY <1>0, <1>5 DEF ReapPublish, TypeOK
  <2>3. \A f \in rpage[w] : Least(f, rpage[w]) => f = e
    BY <2>1, <1>9 DEF Least, IInv, PageShape
  <2>4. dead' = dead \cup {e.id}
    <3>1. e.id \in Ids
      BY <2>1, <1>9
    <3>2. \A m \in Ids : dlq[m] \in Nat /\ dlq'[m] = IF m = e.id THEN dlq[m] + 1 ELSE dlq[m]
      BY <2>1, <1>0 DEF TypeOK
    <3> QED
      BY <3>1, <3>2 DEF dead
  <2>5. count[e.id] > MaxDeliveries
    BY <2>1, <2>2, <1>0, <1>9, ConstantsAssumption DEF IInv, ReaperHolds, ReaperPageOld
  <2>6. Counted'
    BY <2>2, <2>4, <2>5 DEF IInv, Counted
  <2>7. ReaperOwns' /\ ReaperHolds'
    BY <2>2, <1>0 DEF IInv, ReaperOwns, ReaperHolds, Least
  <2>8. ReaperAcks'
    BY <2>2, <2>3, <2>4, <1>0 DEF ReaperAcks, Least
  <2>9. NoLoss'
    BY <2>2, <2>4 DEF IInv, NoLoss, settled
  <2> QED
    BY <2>2, <2>6, <2>7, <2>8, <2>9, <1>0 DEF IInv, PageShape, PageCurrent, ReaperPageOld, LoopAcks
<1>6. CASE ReapAck(w)
  <2>1. PICK e \in rpage[w] : /\ Least(e, rpage[w])
                              /\ XAck(e.id)
                              /\ rpage' = [rpage EXCEPT ![w] = @ \ {e}]
    BY <1>6 DEF ReapAck, Least
  <2>2. /\ UNCHANGED <<added, cursor, count, at, page, batch, dlq, handled, tries>>
        /\ rat'[w] = "reap" /\ rat[w] = "ack"
        /\ pending' = pending \ {e.id} /\ stale' = stale \ {e.id}
        /\ rpage'[w] = rpage[w] \ {e}
    BY <1>0, <1>6, <2>1 DEF ReapAck, XAck, TypeOK
  <2>3. \A f \in rpage[w] : Least(f, rpage[w]) => f = e
    BY <2>1, <1>9 DEF Least, IInv, PageShape
  <2>4. e.id \in dead \/ e.id \notin pending
    BY <2>1, <2>2 DEF IInv, ReaperAcks
  <2>5. NoLoss'
    BY <2>2, <2>4 DEF IInv, NoLoss, settled, dead
  <2>6. PageShape(page[w])' /\ PageShape(rpage[w])'
    BY <2>2 DEF IInv, PageShape
  <2>7. ReaperPageOld' /\ ReaperHolds' /\ ReaperAcks'
    BY <2>2, <1>0 DEF IInv, ReaperPageOld, ReaperHolds, ReaperAcks
  <2>8. ReaperOwns'
    BY <2>2, <2>3, <1>0 DEF IInv, ReaperOwns
  <2> QED
    BY <2>2, <2>5, <2>6, <2>7, <2>8, <1>0 DEF IInv, PageCurrent, LoopAcks, Counted, dead
<1>7. CASE ReapDone(w)
  <2>1. /\ UNCHANGED <<groupVars, loopVars, rpage, dlq, histVars>>
        /\ rat'[w] = "sleep" /\ rat[w] = "reap"
    BY <1>0, <1>7 DEF ReapDone, TypeOK
  <2>2. ReaperOwns' /\ ReaperHolds' /\ ReaperAcks'
    BY <2>1, <1>0 DEF IInv, ReaperOwns, ReaperHolds, ReaperAcks
  <2> QED
    BY <2>1, <2>2, <1>0 DEF IInv, PageShape, PageCurrent, ReaperPageOld, LoopAcks, Counted,
       NoLoss, dead, settled
<1> QED
  BY <1>1, <1>2, <1>3, <1>4, <1>5, <1>6, <1>7 DEF ReapStep

\* The producer, time, and the failures.
LEMMA OthersKeepIInv ==
    ASSUME SingleProcess, IInv, TypeOK',
           \/ Publish
           \/ \E m \in Ids : Age(m)
           \/ \E w \in Workers : LoopError(w) \/ ReapError(w) \/ Crash(w)
           \/ UNCHANGED vars
    PROVE  IInv'
<1> USE DEF groupVars, loopVars, reapVars, histVars
<1>0. TypeOK
  BY DEF IInv
<1>1. CASE Publish
  BY <1>1 DEF Publish, IInv, PageShape, PageCurrent, ReaperPageOld, ReaperOwns, ReaperHolds,
     ReaperAcks, LoopAcks, Counted, NoLoss, dead, settled, Least
<1>2. ASSUME NEW m \in Ids, Age(m)
      PROVE  IInv'
  BY <1>2 DEF Age, IInv, PageShape, PageCurrent, ReaperPageOld, ReaperOwns, ReaperHolds,
     ReaperAcks, LoopAcks, Counted, NoLoss, dead, settled, Least
<1>3. ASSUME NEW w \in Workers, LoopError(w) \/ ReapError(w) \/ Crash(w)
      PROVE  IInv'
  <2>0. \A v \in Workers : v = w
    BY DEF SingleProcess
  <2>1. /\ UNCHANGED <<added, cursor, pending, stale, count, dlq, handled, tries>>
        /\ \/ page'[w] = {} /\ at'[w] = "poll"
           \/ UNCHANGED <<at, page, batch>>
        /\ \/ rpage'[w] = {}
           \/ UNCHANGED <<rat, rpage>>
    BY <1>0, <1>3 DEF LoopError, ReapError, Crash, TypeOK
  <2>2. PageShape(page[w])' /\ PageShape(rpage[w])'
    BY <2>1 DEF IInv, PageShape
  <2>3. PageCurrent' /\ LoopAcks'
    BY <2>0, <2>1 DEF IInv, PageCurrent, LoopAcks
  <2>4. ReaperPageOld' /\ ReaperOwns' /\ ReaperHolds' /\ ReaperAcks'
    BY <2>0, <2>1 DEF IInv, ReaperPageOld, ReaperOwns, ReaperHolds, ReaperAcks, Least, dead
  <2> QED
    BY <2>0, <2>1, <2>2, <2>3, <2>4 DEF IInv, Counted, NoLoss, dead, settled
<1>4. CASE UNCHANGED vars
  BY <1>4 DEF vars, IInv, PageShape, PageCurrent, ReaperPageOld, ReaperOwns, ReaperHolds,
     ReaperAcks, LoopAcks, Counted, NoLoss, dead, settled, Least
<1> QED
  BY <1>1, <1>2, <1>3, <1>4

LEMMA IInvStep == ASSUME SingleProcess
                  PROVE  IInv /\ [Next]_vars => IInv'
<1> SUFFICES ASSUME IInv, [Next]_vars PROVE IInv'
  OBVIOUS
<1>1. TypeOK'
  BY TypeStep DEF IInv
<1> QED
  BY <1>1, LoopKeepsIInv, ReaperKeepsIInv, OthersKeepIInv DEF Next

LEMMA Invariance == ASSUME SingleProcess
                    PROVE  Spec => []IInv
  BY IInvInit, IInvStep, PTL DEF Spec

\* With one worker process no message is lost: what the group no longer
\* delivers was handled or is in the dead-letter stream (run_tier1 and
\* run_alerter with reap_dead_letters).
THEOREM NoLossHolds == ASSUME SingleProcess
                       PROVE  Spec => []NoLoss
<1>1. IInv => NoLoss
  BY DEF IInv
<1> QED
  BY <1>1, Invariance, PTL

\* With one worker process no message reaches the consumer loop more than
\* max_deliveries + 1 times (reclaim_pending_messages).
THEOREM DeliveryBudgetHolds == ASSUME SingleProcess
                               PROVE  Spec => []DeliveryBudget
<1>1. IInv => DeliveryBudget
  BY ConstantsAssumption DEF IInv, Counted, DeliveryBudget, TypeOK
<1> QED
  BY <1>1, Invariance, PTL

\* With one worker process the reaper dead-letters only what has used up its
\* whole budget (reap_dead_letters against reclaim_pending_messages).
THEOREM DeadOnlyAfterBudgetHolds == ASSUME SingleProcess
                                    PROVE  Spec => []DeadOnlyAfterBudget
<1>1. ASSUME IInv, NEW m \in dead
      PROVE  tries[m] = MaxDeliveries + 1
  <2>1. m \in Ids /\ count[m] \in Nat /\ count[m] > MaxDeliveries
    BY <1>1 DEF IInv, Counted, TypeOK, dead
  <2> QED
    BY <1>1, <2>1, ConstantsAssumption DEF IInv, Counted
<1>2. IInv => DeadOnlyAfterBudget
  BY <1>1 DEF DeadOnlyAfterBudget
<1> QED
  BY <1>2, Invariance, PTL

\* One step of the group is one step of the promise, or none.
LEMMA PromiseStep ==
    ASSUME IInv, IInv', [Next]_vars
    PROVE  [Promise!Next]_(Promise!vars)
<1> DEFINE accepted == 1..added
           finished == handled \cup dead
<1> USE DEF groupVars, loopVars, reapVars, histVars
<1>0. TypeOK /\ TypeOK'
  BY DEF IInv
<1>1. SUFFICES \/ UNCHANGED <<accepted, finished, settled>>
               \/ \E m \in Ids : \/ /\ m \notin accepted
                                  /\ accepted' = accepted \cup {m}
                                  /\ UNCHANGED <<finished, settled>>
                               \/ /\ m \in accepted
                                  /\ finished' = finished \cup {m}
                                  /\ UNCHANGED <<accepted, settled>>
                               \/ /\ m \in finished
                                  /\ settled' = settled \cup {m}
                                  /\ UNCHANGED <<accepted, finished>>
  BY DEF Promise!Next, Promise!Accept, Promise!Finish, Promise!Settle, Promise!vars
<1>2. CASE Publish
  <2>1. added \in Nat /\ added + 1 \in Ids /\ added' = added + 1
    BY <1>0, <1>2, ConstantsAssumption DEF Publish, TypeOK, Ids
  <2>2. added + 1 \notin accepted /\ accepted' = accepted \cup {added + 1}
    BY <2>1
  <2>3. UNCHANGED <<finished, settled>>
    BY <1>2 DEF Publish, settled, dead
  <2> QED
    BY <2>1, <2>2, <2>3
<1>3. CASE UNCHANGED <<added, cursor, pending, dlq, handled>>
  BY <1>3 DEF settled, dead
<1>4. ASSUME NEW w \in Workers, ReadNew(w)
      PROVE  UNCHANGED <<accepted, finished, settled>>
  <2>1. UNCHANGED <<added, dlq, handled>> /\ pending' = pending \cup NewIds
    BY <1>4 DEF ReadNew
  <2>2. /\ NewIds = (cursor + 1)..cursor'
        /\ 1..cursor' = 1..cursor \cup NewIds
        /\ cursor \in Nat
    BY <1>0, <1>4, NewIdsRange, IdRanges
  <2>3. settled' = settled
    BY <2>1, <2>2 DEF settled
  <2> QED
    BY <2>1, <2>3 DEF dead
<1>5. ASSUME NEW w \in Workers, HandleOk(w)
      PROVE  \E m \in Ids : /\ m \in accepted
                            /\ finished' = finished \cup {m}
                            /\ UNCHANGED <<accepted, settled>>
  <2>1. PICK m \in batch[w] : handled' = handled \cup {m}
    BY <1>5 DEF HandleOk
  <2>2. m \in accepted /\ m \in Ids
    BY <1>0, <2>1, IdRanges DEF TypeOK
  <2>3. UNCHANGED <<added, cursor, pending, dlq>>
    BY <1>5 DEF HandleOk
  <2> QED
    BY <2>1, <2>2, <2>3 DEF dead, settled
<1>6. ASSUME NEW w \in Workers, ReapPublish(w)
      PROVE  \E m \in Ids : /\ m \in accepted
                            /\ finished' = finished \cup {m}
                            /\ UNCHANGED <<accepted, settled>>
  <2>1. PICK e \in rpage[w] : dlq' = [dlq EXCEPT ![e.id] = @ + 1]
    BY <1>6 DEF ReapPublish
  <2>2. e.id \in Ids /\ e.id <= cursor
    BY <1>0, IdRanges DEF IInv, PageShape
  <2>3. e.id \in accepted
    BY <2>2, <1>0, IdRanges DEF TypeOK, Ids
  <2>4. dead' = dead \cup {e.id}
    <3>1. \A m \in Ids : dlq[m] \in Nat /\ dlq'[m] = IF m = e.id THEN dlq[m] + 1 ELSE dlq[m]
      BY <1>0, <2>1 DEF TypeOK
    <3> QED
      BY <2>2, <3>1 DEF dead
  <2>5. UNCHANGED <<added, cursor, pending, handled>>
    BY <1>6 DEF ReapPublish
  <2> QED
    BY <2>2, <2>3, <2>4, <2>5 DEF settled
<1>7. ASSUME UNCHANGED <<added, cursor, dlq, handled>>,
             NEW m \in 1..cursor, pending' = pending \ {m}
      PROVE  \/ UNCHANGED <<accepted, finished, settled>>
             \/ \E k \in Ids : /\ k \in finished
                               /\ settled' = settled \cup {k}
                               /\ UNCHANGED <<accepted, finished>>
  <2>1. settled' = settled \cup {m} /\ m \in settled' /\ m \in Ids
    BY <1>0, <1>7, IdRanges DEF settled
  <2>2. UNCHANGED <<accepted, finished>>
    BY <1>7 DEF dead
  <2>3. m \in finished
    BY <2>1, <2>2 DEF IInv, NoLoss
  <2> QED
    BY <2>1, <2>2, <2>3
<1>8. ASSUME NEW w \in Workers, Ack(w)
      PROVE  \E m \in 1..cursor : pending' = pending \ {m}
  BY <1>0, <1>8 DEF Ack, XAck, TypeOK
<1>9. ASSUME NEW w \in Workers, ReapAck(w)
      PROVE  \E m \in 1..cursor : pending' = pending \ {m}
  <2>1. PICK e \in rpage[w] : XAck(e.id)
    BY <1>9 DEF ReapAck
  <2>2. e.id \in 1..cursor
    BY <1>0, IdRanges DEF IInv, PageShape, Ids
  <2> QED
    BY <2>1, <2>2 DEF XAck
<1>10. ASSUME NEW w \in Workers, Ack(w) \/ ReapAck(w)
       PROVE  UNCHANGED <<added, cursor, dlq, handled>>
  BY <1>10 DEF Ack, ReapAck, XAck
<1>11. ASSUME NEW w \in Workers,
              \/ PollPending(w) \/ SkipPending(w) \/ Reclaim(w) \/ HandleFail(w)
              \/ BatchDone(w) \/ ReapPoll(w) \/ ReapSkip(w) \/ ReapClaim(w)
              \/ ReapMissed(w) \/ ReapDone(w)
              \/ LoopError(w) \/ ReapError(w) \/ Crash(w)
       PROVE  UNCHANGED <<added, cursor, pending, dlq, handled>>
  BY <1>11 DEF PollPending, SkipPending, Reclaim, Claim, HandleFail, BatchDone, ReapPoll,
     ReapSkip, ReapClaim, ReapMissed, ReapDone, LoopError, ReapError, Crash
<1>12. ASSUME NEW m \in Ids, Age(m)
       PROVE  UNCHANGED <<added, cursor, pending, dlq, handled>>
  BY <1>12 DEF Age
<1>13. CASE UNCHANGED vars
  BY <1>3, <1>13 DEF vars
<1>14. ASSUME NEW w \in Workers, LoopStep(w) \/ ReapStep(w) \/ LoopError(w) \/ ReapError(w) \/ Crash(w)
       PROVE  \/ UNCHANGED <<added, cursor, pending, dlq, handled>>
              \/ ReadNew(w) \/ HandleOk(w) \/ ReapPublish(w) \/ Ack(w) \/ ReapAck(w)
  BY <1>11, <1>14 DEF LoopStep, ReapStep
<1> HIDE DEF accepted, finished
<1> QED
  BY <1>2, <1>3, <1>4, <1>5, <1>6, <1>7, <1>8, <1>9, <1>10, <1>12, <1>13, <1>14 DEF Next

\* With one worker process the group implements the safety part of what it
\* promises the producer: it lets go of a message only after finishing it.
THEOREM PromiseSafetyHolds == ASSUME SingleProcess
                              PROVE  Spec => PromiseSafety
<1>1. Init => Promise!Init
  BY DEF Init, Promise!Init, settled, dead
<1>2. IInv /\ IInv' /\ [Next]_vars => [Promise!Next]_(Promise!vars)
  BY PromiseStep
<1> QED
  BY <1>1, <1>2, Invariance, PTL DEF Spec, PromiseSafety
================================================================================
