------------------------------ MODULE JudgeCalls ------------------------------
(***************************************************************************)
(* The calls one ledger pays for.  An analysis fans score_node out over    *)
(* the runs of its graph; every node that is to be judged waits for the    *)
(* semaphore (JUDGE_CONCURRENCY permits), calls the model, retries what    *)
(* failed while it keeps its permit, and is billed for every completion    *)
(* that arrived, readable or not.  The cap (JUDGE_MAX_SPEND_USD) is read   *)
(* before the request and the bill is added after the reply, with an await *)
(* in between: the calls in flight are those the cap has not seen yet.     *)
(*                                                                         *)
(* The ledger is the one of the scope an analysis opens; the calls made    *)
(* outside a scope (claims extraction, the terminal judge of tier 1) share *)
(* the ledger of the process, which is another instance of this module.    *)
(* Money is counted in the smallest unit that prices distinguish.          *)
(***************************************************************************)
EXTENDS Integers, FiniteSets

CONSTANTS
  Callers,    \* the nodes whose score asks the judge
  Permits,    \* JUDGE_CONCURRENCY
  Attempts,   \* one initial call and the retries (retries + 1)
  Cap,        \* JUDGE_MAX_SPEND_USD, or NoCap
  Prices,     \* what one reply may cost, when its price is known
  MaxPrice    \* the dearest reply

NoCap == -1
Unpriced == -1

ASSUME CallersFinite == IsFiniteSet(Callers)
ASSUME PermitsPositive == Permits \in Nat \ {0}
ASSUME AttemptsPositive == Attempts \in Nat \ {0}
ASSUME CapMoney == Cap \in Nat \cup {NoCap}
ASSUME PricesMoney == MaxPrice \in Nat /\ Prices \subseteq 0 .. MaxPrice

VARIABLES
  call,     \* call[c]: where the call of node c stands
  tries,    \* tries[c]: requests sent for c
  cost,     \* JudgeSpend.cost_usd (with no call priced yet: None, here 0)
  priced,   \* JudgeSpend.priced_calls
  unpriced  \* JudgeSpend.unpriced_calls

judgeVars == <<call, tries, cost, priced, unpriced>>

Waiting == {"queued", "backoff"}
Ended == {"answered", "refused", "failed"}

Flying == {c \in Callers : call[c] = "flying"}

\* The semaphore is held from the first request to the end of the last retry.
Holders == {c \in Callers : call[c] \in {"flying", "backoff"}}

JudgeInit ==
  /\ call = [c \in Callers |-> "queued"]
  /\ tries = [c \in Callers |-> 0]
  /\ cost = 0
  /\ priced = 0
  /\ unpriced = 0

-------------------------------------------------------------------------------

\* Defects the properties are tried against.
cap_in_sight == Cap # NoCap /\ priced > 0 /\ cost + MaxPrice > Cap

\* A ledger on which no call was priced has no cost to compare with the cap.
spend_cap_reached == Cap # NoCap /\ priced > 0 /\ cost >= Cap

\* async with semaphore; a call in backoff has its permit already.
HasPermit(c) == call[c] = "backoff" \/ Cardinality(Holders) < Permits

\* A retry that does not look at the ledger again, and one nobody counts.
AskCapOnce(c) ==
  /\ call[c] \in Waiting
  /\ HasPermit(c)
  /\ IF spend_cap_reached /\ call[c] = "queued"
       THEN call' = [call EXCEPT ![c] = "refused"] /\ UNCHANGED tries
       ELSE call' = [call EXCEPT ![c] = "flying"] /\ tries' = [tries EXCEPT ![c] = @ + 1]
  /\ UNCHANGED <<cost, priced, unpriced>>

AskUncounted(c) ==
  /\ call[c] \in Waiting
  /\ HasPermit(c)
  /\ call' = [call EXCEPT ![c] = IF spend_cap_reached THEN "refused" ELSE "flying"]
  /\ UNCHANGED <<tries, cost, priced, unpriced>>

\* complete_json up to the await: refused at the cap (JudgeSpendExhausted, which
\* no retry can cure), otherwise the request is sent.
Ask(c) ==
  /\ call[c] \in Waiting
  /\ HasPermit(c)
  /\ IF spend_cap_reached
       THEN /\ call' = [call EXCEPT ![c] = "refused"]
            /\ UNCHANGED tries
       ELSE /\ call' = [call EXCEPT ![c] = "flying"]
            /\ tries' = [tries EXCEPT ![c] = @ + 1]
  /\ UNCHANGED <<cost, priced, unpriced>>

\* judge_json_with_retries on a JudgeError: backoff, or None on the last attempt.
GiveUpOrRetry(c) ==
  call' = [call EXCEPT ![c] = IF tries[c] < Attempts THEN "backoff" ELSE "failed"]

\* No response (timeout, transport, HTTP status): nothing is billed.
Lost(c) ==
  /\ call[c] = "flying"
  /\ GiveUpOrRetry(c)
  /\ UNCHANGED <<tries, cost, priced, unpriced>>

\* JudgeSpend.record, from the usage block of the reply.
record(price) ==
  IF price = Unpriced
    THEN unpriced' = unpriced + 1 /\ UNCHANGED <<cost, priced>>
    ELSE cost' = cost + price /\ priced' = priced + 1 /\ UNCHANGED unpriced

\* A reply that arrived is billed first, then read: it is a JSON object, or it
\* is of no use and the call is tried again.
Reply(c) ==
  /\ call[c] = "flying"
  /\ \E price \in Prices \cup {Unpriced} : record(price)
  /\ \/ call' = [call EXCEPT ![c] = "answered"]
     \/ GiveUpOrRetry(c)
  /\ UNCHANGED tries

Caller(c) == Ask(c) \/ Lost(c) \/ Reply(c)

JudgeDone == \A c \in Callers : call[c] \in Ended

JudgeNext ==
  \/ \E c \in Callers : Caller(c)
  \/ JudgeDone /\ UNCHANGED judgeVars

\* httpx times every request out, and the event loop runs a waiter that was
\* given its permit: no call stands still for ever.
JudgeFairness == \A c \in Callers : WF_judgeVars(Caller(c))

JudgeSpec == JudgeInit /\ [][JudgeNext]_judgeVars /\ JudgeFairness

-------------------------------------------------------------------------------

JudgeTypeOK ==
  /\ call \in [Callers -> Waiting \cup {"flying"} \cup Ended]
  /\ tries \in [Callers -> 0 .. Attempts]
  /\ cost \in Nat
  /\ priced \in Nat
  /\ unpriced \in Nat

\* What was spent before the cap could be seen to bind: less than the cap.
Floor == IF Cap > 0 THEN Cap - 1 ELSE 0

\* A cap bounds the bill of the analysis up to the calls that are in flight when
\* it is reached: no more than one reply per permit, retries included
\* (_spend_cap_reached is read before the await, _record_spend runs after it).
SpendBounded == Cap # NoCap => cost <= Floor + Permits * MaxPrice

\* The inductive form: what is spent and what the requests in flight may cost.
Committed ==
  Cap # NoCap => cost + Cardinality(Flying) * MaxPrice <= Floor + Permits * MaxPrice

\* A node that has not asked was not counted, and one that waits to ask again may.
TriesLeft ==
  \A c \in Callers : /\ call[c] = "queued" => tries[c] = 0
                     /\ call[c] = "backoff" => tries[c] < Attempts

\* The semaphore is respected, by the calls that wait out a backoff too.
PermitsHeld == Cardinality(Holders) <= Permits

\* A call is refused for the budget only when the budget is spent, and from then
\* on no call sets out again: the reason judge_budget_exhausted of a node is true
\* of the whole analysis, however the other calls end.
BudgetReasonTrue ==
  (\E c \in Callers : call[c] = "refused") => priced > 0 /\ Cap # NoCap /\ cost >= Cap

\* Every node gets its verdict, its refusal or its failure, and the permits are
\* all back: a retry that kept its permit never starves the nodes behind it.
EveryCallEnds == <>[](JudgeDone /\ Holders = {})
================================================================================
