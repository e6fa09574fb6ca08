----------------------------- MODULE SpanMapper -----------------------------
(***************************************************************************)
(* map_spans: the spans of one request, or all stored spans of a trace,    *)
(* become runs and the edges between them.                                 *)
(*                                                                         *)
(* A span is a record, with None, NoNum or 0 for what it does not carry:   *)
(*   trace, id, parent   numbers; parent 0 for a root                      *)
(*   kind      "AGENT", "TOOL" or "other" (openinference.span.kind)        *)
(*   agent     gen_ai.agent.name      role   the role in a CrewAI task name *)
(*   header    x-execution-graph-id, a number like the trace ids           *)
(*   status    "ok", "error" or "error_text"                               *)
(*   start     a number, 0 when it is missing (it sorts first)             *)
(*   end       a number; it grows from version to version of a span        *)
(*   cost      the tokens and the price follow the same rule               *)
(*   tool, args, target  of a tool call; target names the agent called     *)
(*   peer, server        of an A2A message, and whether it is its server   *)
(*   output    how the output of an agent looks to tier 1                  *)
(* "error_text" is a status sent as a string and not as an object.         *)
(* A run is known by its key <<trace, id of the AGENT span>>.              *)
(***************************************************************************)
EXTENDS Integers, Sequences, FiniteSets, FiniteSetsExt, SequencesExt

None == "none"
NoNum == -1
NoRun == <<0, 0>>

Ident(s) == <<s.trace, s.id>>
ParentOf(s) == IF s.parent = 0 THEN NoRun ELSE <<s.trace, s.parent>>

\* by_id: of two spans with one identity the first counts.
by_id(spans, key) == spans[SelectInSeq(spans, LAMBDA s : Ident(s) = key)]
Known(spans) == {Ident(spans[i]) : i \in DOMAIN spans}
opener_run(spans) == {Ident(spans[i]) : i \in {j \in DOMAIN spans : spans[j].kind = "AGENT"}}

\* The nearest AGENT ancestor in the trace, or the span itself.  A cycle of
\* parents has no more members than there are spans.
owner_run_key(spans, s) ==
  LET up[n \in 0 .. Len(spans)] ==
        CASE n = 0 -> Ident(s)
          [] n = 1 -> ParentOf(s)
          [] OTHER -> IF up[n - 1] \in Known(spans) THEN ParentOf(by_id(spans, up[n - 1]))
                                                    ELSE NoRun
      found == {n \in 0 .. Len(spans) : up[n] \in opener_run(spans)}
  IN  IF found = {} THEN NoRun ELSE up[Min(found)]

Opener(spans, key) == spans[SelectInSeq(spans, LAMBDA s : Ident(s) = key /\ s.kind = "AGENT")]

\* The opener first; a span listed twice is a member twice.
Members(spans, key) ==
  <<Opener(spans, key)>> \o
    SelectSeq(spans, LAMBDA s : Ident(s) \notin opener_run(spans) /\ owner_run_key(spans, s) = key)

InOrder(seq) ==
  SortSeq(seq, LAMBDA a, b : a.start < b.start \/ (a.start = b.start /\ a.id < b.id))

(***************************************************************************)
(* _build_run                                                              *)
(***************************************************************************)
\* What the agent's own span says wins over the sum of its members.
metric(members) ==
  LET said == SelectSeq(Tail(members), LAMBDA m : m.cost # NoNum)
  IN  CASE Head(members).cost # NoNum -> Head(members).cost
        [] Head(members).cost = NoNum /\ said = << >> -> NoNum
        [] OTHER -> FoldLeft(LAMBDA sum, m : sum + m.cost, 0, said)

tool_calls_digest(members) ==
  LET tools == InOrder(SelectSeq(members, LAMBDA m : m.kind = "TOOL"))
  IN  [i \in DOMAIN tools |->
         [name   |-> tools[i].tool,
          sha    |-> IF tools[i].args = None THEN "" ELSE tools[i].args,
          status |-> IF tools[i].status = "ok" THEN "ok" ELSE "error"]]

\* When the agent's own span does not say it, the earliest that a member does.
start_time(members) ==
  LET said == {m.start : m \in ToSet(members)} \ {0}
  IN  CASE Head(members).start # 0 -> Head(members).start
        [] Head(members).start = 0 /\ said # {} -> Min(said)
        [] OTHER -> 0

header_graph_id(members) ==
  LET carrying == SelectSeq(members, LAMBDA m : m.header # 0)
  IN  IF carrying = << >> THEN Head(members).trace ELSE Head(carrying).header

build_run(spans, key) ==
  LET members == Members(spans, key)
      opener == Head(members)
  IN  [key        |-> key,
       graph      |-> header_graph_id(members),
       agent      |-> IF opener.agent # None THEN opener.agent ELSE opener.role,
       tool_calls |-> tool_calls_digest(members),
       cost       |-> metric(members),
       status     |-> IF \E i \in DOMAIN members : members[i].status # "ok"
                      THEN "failed" ELSE "ok",
       output     |-> opener.output,
       start      |-> start_time(members)]

Runs(spans) == {build_run(spans, key) : key \in opener_run(spans)}

(***************************************************************************)
(* _detect_edges                                                           *)
(***************************************************************************)
Edge(from, to, type) == [from |-> from, to |-> to, type |-> type]

Before(a, b, trace) ==
  LET rank(r) == <<IF r.key[1] = trace THEN 0 ELSE 1, r.start, r.key[1], r.key[2]>>
  IN  \E i \in 1 .. 4 : /\ rank(a)[i] < rank(b)[i]
                        /\ \A j \in 1 .. i - 1 : rank(a)[j] = rank(b)[j]

\* The same trace first, then the earliest; NoRun when no run has the name.
resolve_by_name(runs, name, trace) ==
  LET named == {r \in runs : r.agent = name}
  IN  IF named = {} THEN NoRun
      ELSE (CHOOSE r \in named : \A o \in named \ {r} : Before(r, o, trace)).key

\* A run spawned inside the run of another agent.
spawn_edges(spans, runs) ==
  LET AgentOf(key) == (CHOOSE r \in runs : r.key = key).agent
      parent(s) == owner_run_key(spans, by_id(spans, ParentOf(s)))
      children == {s \in ToSet(spans) : /\ Ident(s) \in opener_run(spans)
                                        /\ ParentOf(s) \in Known(spans)
                                        /\ parent(s) \notin {NoRun, Ident(s)}}
  IN  {Edge(parent(s), Ident(s), "SPAWN") :
         s \in {c \in children : \/ AgentOf(parent(c)) = None
                                 \/ AgentOf(parent(c)) # AgentOf(Ident(c))}}

\* What a delegation asked for flows back to the run that asked.
delegations(spans) ==
  {[owner |-> owner_run_key(spans, s), target |-> s.target, trace |-> s.trace] :
     s \in {t \in ToSet(spans) : /\ t.kind = "TOOL" /\ t.target # None
                                 /\ owner_run_key(spans, t) # NoRun}}

delegation_edges(asked, runs) ==
  {e \in {Edge(resolve_by_name(runs, d.target, d.trace), d.owner, "TOOL_DELEGATION") : d \in asked} :
     e.from \notin {NoRun, e.to}}

unresolved(asked, runs) == {d \in asked : resolve_by_name(runs, d.target, d.trace) = NoRun}

\* CrewAI runs the tasks of one kickoff one after the other.
crewai_edges(spans) ==
  LET tasks(kickoff) == InOrder(SelectSeq(spans, LAMBDA s :
                          Ident(s) \in opener_run(spans) /\ s.role # None /\ ParentOf(s) = kickoff))
      kickoffs == {ParentOf(s) : s \in ToSet(spans)} \ {NoRun}
  IN  UNION {{Edge(Ident(tasks(k)[i]), Ident(tasks(k)[i + 1]), "A2A_MESSAGE") :
                i \in 1 .. Len(tasks(k)) - 1} : k \in kickoffs}

\* A span with an A2A task, or that fetches an agent card, and names its peer.
IsA2A(s) == s.peer # None

a2a_edges(spans, runs) ==
  LET met == {s \in ToSet(spans) : /\ IsA2A(s)
                                   /\ owner_run_key(spans, s) # NoRun
                                   /\ resolve_by_name(runs, s.peer, s.trace)
                                        \notin {NoRun, owner_run_key(spans, s)}}
      other(s) == resolve_by_name(runs, s.peer, s.trace)
      own(s) == owner_run_key(spans, s)
  IN  {IF s.server THEN Edge(own(s), other(s), "A2A_MESSAGE")
                   ELSE Edge(other(s), own(s), "A2A_MESSAGE") : s \in met}

map_spans(spans, a2a_detection) ==
  LET runs == Runs(spans)
      asked == delegations(spans)
  IN  [runs       |-> runs,
       edges      |-> spawn_edges(spans, runs) \cup delegation_edges(asked, runs)
                        \cup crewai_edges(spans)
                        \cup (IF a2a_detection THEN a2a_edges(spans, runs) ELSE {}),
       unresolved |-> unresolved(asked, runs)]

=============================================================================
