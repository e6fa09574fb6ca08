------------------------------ MODULE MCIntake ------------------------------
(***************************************************************************)
(* Programs for the model checker, each of one trace or two: a crew whose  *)
(* tasks follow one another, a planner that delegates to an agent of the   *)
(* same trace or of the other one, a payment that is tried again.          *)
(***************************************************************************)
EXTENDS Tier1

S(trace, id, parent, kind) ==
  [trace |-> trace, id |-> id, parent |-> parent, kind |-> kind, start |-> id, end |-> 9,
   agent |-> None, role |-> None, header |-> 0, status |-> "ok", cost |-> NoNum,
   tool |-> None, args |-> None, target |-> None, peer |-> None, server |-> FALSE,
   output |-> "fine"]

Agent(trace, id, parent, name) == [S(trace, id, parent, "AGENT") EXCEPT !.agent = name]
Task(id, role) == [S(1, id, 9, "AGENT") EXCEPT !.role = role]
Pay(id, parent, status) ==
  [S(1, id, parent, "TOOL") EXCEPT !.tool = "charge", !.args = "a", !.status = status]
Delegate(id, parent, name) == [S(1, id, parent, "TOOL") EXCEPT !.tool = "ask", !.target = name]
Llm(trace, id, parent, cost) == [S(trace, id, parent, "other") EXCEPT !.cost = cost]

Crew == {Task(1, "research"), Task(2, "write"), Task(3, "review")}

Delegated == {Agent(1, 1, 0, "planner"), Delegate(2, 1, "coder"),
              [Agent(1, 3, 1, "coder") EXCEPT !.output = "opaque"]}

\* The model call under the agent holds the header of the graph.
Correlated == {Agent(1, 1, 0, "planner"), Delegate(2, 1, "coder"),
               [Llm(1, 4, 1, 3) EXCEPT !.header = 8],
               [Agent(2, 3, 0, "coder") EXCEPT !.header = 8, !.output = "partial"]}

PaidOnce == {Agent(1, 1, 0, "payer"), Pay(2, 1, "ok"), Llm(1, 4, 1, 4)}
PaidAgain == {Agent(1, 1, 0, "payer"), Pay(2, 1, "error"), Pay(3, 1, "ok")}
PaidTwice == {[Agent(1, 1, 0, "payer") EXCEPT !.output = "empty"], Pay(2, 1, "ok"), Pay(3, 1, "ok")}
Single == {[Agent(1, 1, 0, "clerk") EXCEPT !.output = o, !.cost = 2, !.peer = "clerk"] :
             o \in {"broken_file", "no_section", "off_schema", "secret"}}

\* An agent whose span was exported while it ran, and again when it had ended;
\* only its model call says when it began.
Running == [Agent(1, 1, 0, "clerk") EXCEPT !.start = 0, !.end = 5, !.output = "partial"]
Resent == {Running, [Running EXCEPT !.end = 9, !.output = "fine", !.cost = 2], Llm(1, 4, 1, 3)}

\* Two agents that talk, and a status that was sent as a string.
Peers == {[Agent(1, 1, 0, "asker") EXCEPT !.status = "error_text", !.peer = "helper"],
          [Agent(1, 3, 0, "helper") EXCEPT !.cost = 1]}

MCPrograms == {Crew, Delegated, Correlated, PaidOnce, PaidAgain, PaidTwice, Resent, Peers} \cup {{s} : s \in Single}
MCSampled == {1}
MCReplies == {<<"ok", "none">>, <<"ok", "bad">>, <<"bad", "ok">>, <<"no_reply", "none">>}

=============================================================================
