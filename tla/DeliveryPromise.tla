---------------------------- MODULE DeliveryPromise ----------------------------
(***************************************************************************)
(* What a consumer group promises the producer of a stream, with nothing   *)
(* of Redis in it: an accepted message is finished at least once (handled  *)
(* or put aside as a dead letter) before the group lets go of it, and the  *)
(* group lets go of every message in the end.                              *)
(***************************************************************************)
CONSTANT Ids          \* the messages

VARIABLES accepted,   \* messages the producer has handed over
          finished,   \* messages handled, or kept as a dead letter
          settled     \* messages the group will never deliver again

vars == <<accepted, finished, settled>>

Init == /\ accepted = {}
        /\ finished = {}
        /\ settled = {}

Accept(m) == /\ m \notin accepted
             /\ accepted' = accepted \cup {m}
             /\ UNCHANGED <<finished, settled>>

Finish(m) == /\ m \in accepted
             /\ finished' = finished \cup {m}
             /\ UNCHANGED <<accepted, settled>>

Settle(m) == /\ m \in finished
             /\ settled' = settled \cup {m}
             /\ UNCHANGED <<accepted, finished>>

Next == \E m \in Ids : Accept(m) \/ Finish(m) \/ Settle(m)

Spec == /\ Init
        /\ [][Next]_vars
        /\ \A m \in Ids : WF_vars(Finish(m)) /\ WF_vars(Settle(m))
================================================================================
