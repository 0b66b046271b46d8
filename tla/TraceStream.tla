----------------------------- MODULE TraceStream -----------------------------
(***************************************************************************)
(* The reasoning trace (agent/tracing.py) and the event bus                *)
(* (events/bus.py) behind the admin's live stream (api/routes/admin.py).   *)
(*                                                                         *)
(* A step is flushed, which gives it an id, and published at once; it      *)
(* becomes durable only when the session of its turn commits, in a tool    *)
(* that refunds or escalates or at the end of the turn.                    *)
(***************************************************************************)
EXTENDS Integers, SequencesExt

CONSTANTS
  Cases,      \* conversations
  Tracers,    \* turns that may run at one time
  Streams,    \* the subscribers of the event bus
  MaxRuns,    \* bound on the turns ever begun
  MaxStepNo,  \* bound on the steps of a turn
  None

ASSUME TraceAssumption == MaxRuns \in Nat /\ MaxStepNo \in Nat /\ None \notin Cases

VARIABLES
  agentSteps,  \* the committed rows of agent_steps
  lastId,      \* the sequence behind agent_steps.id
  tracer,      \* the turn of each tracer
  queue,       \* the queue of each subscriber
  connected,   \* the subscribers
  runs,        \* history: how many turns have begun
  failed       \* history: the turns that failed

traceVars == <<agentSteps, lastId, tracer, queue, connected, runs, failed>>
-----------------------------------------------------------------------------
\* "other" stands for llm_call, retry, error and decision.
Step == [id : Nat, conversation_id : Cases, step_no : Nat, turn : Nat,
         type : {"tool_call", "tool_result", "other"}]

Tracer == [conversation_id : Cases \cup {None},
           turn : Nat, steps : Seq(Step),   \* all steps of the turn
           kept : Nat]                      \* how many of them are committed

Off == [conversation_id |-> None, turn |-> 0, steps |-> <<>>, kept |-> 0]

LastStep(w) == tracer[w].steps[Len(tracer[w].steps)]

\* The loop reports the result of a tool right after the call of it.
NextTypes(w) ==
  IF tracer[w].steps = <<>> THEN {"other"}
  ELSE IF LastStep(w).type = "tool_call" THEN {"tool_result"}
  ELSE {"tool_call", "other"}

Running == {tracer[w].turn : w \in {v \in Tracers : tracer[v] # Off}}
-----------------------------------------------------------------------------
TraceInit ==
  /\ agentSteps = {} /\ lastId = 0
  /\ tracer = [w \in Tracers |-> Off]
  /\ queue = [s \in Streams |-> <<>>] /\ connected = {}
  /\ runs = 0 /\ failed = {}

\* A Tracer is made for each turn: step_no starts over.
StartRun(w, c) ==
  /\ tracer[w] = Off /\ runs < MaxRuns
  /\ runs' = runs + 1
  /\ tracer' = [tracer EXCEPT ![w] =
       [Off EXCEPT !.conversation_id = c, !.turn = runs + 1]]
  /\ UNCHANGED <<agentSteps, lastId, queue, connected, failed>>

\* EventBus.publish: the step is put into the queue of every subscriber.
Publish(step) ==
  queue' = [s \in Streams |-> IF s \in connected THEN Append(queue[s], step) ELSE queue[s]]

\* Tracer.record: the flush gives the step its id, and it is published with no await
\* in between.
Record(w) ==
  /\ tracer[w].turn # 0 /\ Len(tracer[w].steps) < MaxStepNo
  /\ lastId' = lastId + 1
  /\ \E type \in NextTypes(w) :
       LET step == [id |-> lastId + 1, conversation_id |-> tracer[w].conversation_id,
                    step_no |-> Len(tracer[w].steps) + 1, turn |-> tracer[w].turn,
                    type |-> type]
       IN /\ tracer' = [tracer EXCEPT ![w].steps = Append(tracer[w].steps, step)]
          /\ Publish(step)
  /\ UNCHANGED <<agentSteps, connected, runs, failed>>

\* Mutant: only the steps of tools are stored, the others are just streamed.
CommitToolSteps(w) ==
  agentSteps' = agentSteps \cup {r \in ToSet(tracer[w].steps) : r.type # "other"}

\* A commit makes all steps of the turn so far durable.
Commit(w) ==
  agentSteps' = agentSteps \cup ToSet(tracer[w].steps)

\* Within issue_refund or escalate_to_manager.
CommitInTool(w) ==
  /\ tracer[w].kept < Len(tracer[w].steps)
  /\ LastStep(w).type = "tool_call"
  /\ Commit(w)
  /\ tracer' = [tracer EXCEPT ![w].kept = Len(tracer[w].steps)]
  /\ UNCHANGED <<lastId, queue, connected, runs, failed>>

\* Mutant: the session is closed and not committed.
FinishRunUncommitted(w) ==
  /\ tracer[w].steps # <<>> /\ LastStep(w).type = "other"
  /\ tracer' = [tracer EXCEPT ![w] = Off]
  /\ UNCHANGED <<agentSteps, lastId, queue, connected, runs, failed>>

\* The last commit of the turn, with the verdict and the reply.
FinishRun(w) ==
  /\ tracer[w].steps # <<>> /\ LastStep(w).type = "other"
  /\ Commit(w)
  /\ tracer' = [tracer EXCEPT ![w] = Off]
  /\ UNCHANGED <<lastId, queue, connected, runs, failed>>

\* The turn fails: what it has not committed is rolled back, what it has published
\* is not called back.
FailRun(w) ==
  /\ tracer[w] # Off
  /\ tracer' = [tracer EXCEPT ![w] = Off]
  /\ failed' = failed \cup {tracer[w].turn}
  /\ UNCHANGED <<agentSteps, lastId, queue, connected, runs>>

\* GET /admin/stream subscribes, without a filter as the page asks for it.
Subscribe(s) ==
  /\ s \notin connected
  /\ connected' = connected \cup {s}
  /\ UNCHANGED <<agentSteps, lastId, tracer, queue, runs, failed>>

\* The generator takes the next event and yields it.
Take(s) ==
  /\ s \in connected /\ queue[s] # <<>>
  /\ queue' = [queue EXCEPT ![s] = Tail(queue[s])]
  /\ UNCHANGED <<agentSteps, lastId, tracer, connected, runs, failed>>

\* The client goes away: the queue is dropped with what is in it.
Unsubscribe(s) ==
  /\ s \in connected
  /\ connected' = connected \ {s}
  /\ queue' = [queue EXCEPT ![s] = <<>>]
  /\ UNCHANGED <<agentSteps, lastId, tracer, runs, failed>>

RunStep(w) ==
  \/ \E c \in Cases : StartRun(w, c)
  \/ Record(w) \/ CommitInTool(w) \/ FinishRun(w) \/ FailRun(w)
-----------------------------------------------------------------------------
TraceTypeOK ==
  /\ agentSteps \subseteq Step
  /\ tracer \in [Tracers -> Tracer]
  /\ queue \in [Streams -> Seq(Step)] /\ connected \subseteq Streams
  /\ \A s \in Streams \ connected : queue[s] = <<>>
  /\ lastId \in Nat /\ runs \in Nat /\ failed \subseteq 1..runs

\* The durable trace has no holes: what is stored of a turn is its first steps, and
\* a turn that did not fail is stored to its end, each call with its result.
DurableTraceIsWhole ==
  \A r \in agentSteps :
    /\ \A k \in 1..r.step_no : \E q \in agentSteps : q.turn = r.turn /\ q.step_no = k
    /\ r.type = "tool_call" =>
         \/ r.turn \in failed \cup Running
         \/ \E q \in agentSteps : q.turn = r.turn /\ q.step_no = r.step_no + 1
=============================================================================
