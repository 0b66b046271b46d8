--------------------------- MODULE AdminPageProofs ---------------------------
(***************************************************************************)
(* The stored trace is whole, and the admin's page shows what is stored    *)
(* and what was streamed: theorems about AdminPage, for any number of      *)
(* turns, streams, cases, reads and summaries.                             *)
(*                                                                         *)
(* TraceInv relates the durable steps, the turns that run and the queues;  *)
(* PageInv adds what the page awaits and what its answers hold.            *)
(***************************************************************************)
EXTENDS AdminPage, TLAPS

\* Step e was recorded by a turn that still runs.
Fresh(e) == \E w \in Tracers : e \in ToSet(tracer[w].steps)

\* The turn of tracer w has numbered its steps, and each call is followed by its result.
GoodTurn(w) ==
  /\ tracer[w].conversation_id \in Cases /\ tracer[w].turn \in 1..runs
  /\ \A i \in 1..Len(tracer[w].steps) :
       LET step == tracer[w].steps[i]
       IN  /\ step.step_no = i /\ step.turn = tracer[w].turn /\ step.id \in 1..lastId
           /\ step.type = "tool_call" /\ i < Len(tracer[w].steps) =>
                tracer[w].steps[i + 1].type = "tool_result"

TurnsGood ==
  /\ \A w \in Tracers : IF tracer[w].turn = 0 THEN tracer[w] = Off ELSE GoodTurn(w)
  /\ \A v, w \in Tracers : tracer[v].turn = tracer[w].turn /\ tracer[w].turn # 0 => v = w

\* What is durable of a turn that runs is among its steps.
DurableGood ==
  \A r \in agentSteps :
    /\ r.id \in 1..lastId /\ r.turn \in 1..runs
    /\ \A w \in Tracers : tracer[w].turn = r.turn => r \in ToSet(tracer[w].steps)

Recorded(e) == e \in agentSteps \/ Fresh(e)
IdsUnique == \A q, r : Recorded(q) /\ Recorded(r) /\ q.id = r.id => q = r

\* What was published is durable, or of a turn that runs or has failed.
Published(e) == Recorded(e) \/ e.turn \in failed

QueuesGood ==
  \A s \in Streams : \A e \in ToSet(queue[s]) : Published(e) /\ e.id \in 1..lastId

TraceInv ==
  TraceTypeOK /\ TurnsGood /\ DurableGood /\ IdsUnique /\ QueuesGood /\ DurableTraceIsWhole
-----------------------------------------------------------------------------
Fetching(f) == fetch[f].at # "none"
Summing(r) == request[r].at # "none"

\* What is awaited is of a case, and what was read of it is durable.
AwaitedGood ==
  /\ \A f \in Fetches :
       /\ ~Fetching(f) => ~fetch[f].selecting
       /\ Fetching(f) => fetch[f].of \in Cases /\ selected # None
       /\ fetch[f].at = "read" =>
            /\ fetch[f].detail \in Detail /\ fetch[f].detail.conversation_id = fetch[f].of
            /\ fetch[f].detail.steps \subseteq agentSteps
  /\ \A r \in Requests : Summing(r) => request[r].of \in Cases
  /\ deciding # None => selected # None

ShownGood ==
  /\ detail # None => detail.steps \subseteq agentSteps
  /\ \A e \in events : Published(e)

\* One thing at a time is awaited by a page that is not astray.
OneAwaited ==
  ~astray =>
    /\ \A f, g \in Fetches : Fetching(f) /\ Fetching(g) => f = g
    /\ \A q, r \in Requests : Summing(q) /\ Summing(r) => q = r
    /\ \A f \in Fetches, r \in Requests : ~(Fetching(f) /\ Summing(r))
    /\ deciding # None => /\ \A f \in Fetches : ~Fetching(f)
                          /\ \A r \in Requests : ~Summing(r)

Current(d) == d.conversation_id = selected /\ d.ai_summary = stored[selected]
ShowsCurrent == detail # None => Current(detail)

\* The one answer it awaits leaves the page current, whichever way it turns out.
AnswersCurrent ==
  ~astray =>
    /\ \A f \in Fetches : Fetching(f) =>
         /\ fetch[f].of = selected
         /\ fetch[f].at = "read" => Current(fetch[f].detail)
         /\ ~fetch[f].selecting => ShowsCurrent
    /\ \A r \in Requests : Summing(r) =>
         /\ request[r].of = selected
         /\ detail # None => detail.conversation_id = selected
         /\ IF request[r].at = "done" THEN request[r].summary = stored[selected]
                                      ELSE ShowsCurrent
    /\ deciding # None => deciding = selected
    /\ (\A f \in Fetches : ~Fetching(f)) /\ (\A r \in Requests : ~Summing(r)) => ShowsCurrent

\* A step comes over the stream, is in its queue, or is missed ...
Streamed(r) == r \in events \/ r \in ToSet(queue[Page]) \/ r.id \in missed

\* ... unless it was read, and then every later read has it, too.
StepsFollowed ==
  /\ \A r : Fresh(r) /\ r \notin agentSteps => Streamed(r)
  /\ ~astray => \A r \in agentSteps : r.conversation_id = selected /\ ~Streamed(r) =>
       /\ \A f \in Fetches : fetch[f].at = "read" => r \in fetch[f].detail.steps
       /\ (/\ \A f \in Fetches : ~fetch[f].selecting
           /\ detail # None /\ detail.conversation_id = selected) => r \in detail.steps

PageInv ==
  AdminTypeOK /\ AwaitedGood /\ ShownGood /\ OneAwaited /\ AnswersCurrent /\ StepsFollowed
-----------------------------------------------------------------------------
LEMMA ToSetAppend ==
  ASSUME NEW S, NEW s \in Seq(S), NEW e \in S
  PROVE  ToSet(Append(s, e)) = ToSet(s) \cup {e}
<1>1. /\ DOMAIN s = 1..Len(s) /\ DOMAIN Append(s, e) = 1..(Len(s) + 1)
      /\ \A i \in 1..Len(s) : Append(s, e)[i] = s[i]
      /\ Append(s, e)[Len(s) + 1] = e
  OBVIOUS
<1> QED
  BY <1>1 DEF ToSet

LEMMA ToSetTail ==
  ASSUME NEW S, NEW s \in Seq(S), s # <<>>
  PROVE  Head(s) \in ToSet(s) /\ ToSet(Tail(s)) \cup {Head(s)} = ToSet(s)
<1>1. /\ Len(s) \in Nat \ {0} /\ DOMAIN s = 1..Len(s) /\ Head(s) = s[1]
      /\ DOMAIN Tail(s) = 1..(Len(s) - 1)
      /\ \A i \in 1..(Len(s) - 1) : Tail(s)[i] = s[i + 1]
  OBVIOUS
<1>2. Head(s) \in ToSet(s)
  BY <1>1 DEF ToSet
<1>3. ASSUME NEW e \in ToSet(Tail(s)) PROVE e \in ToSet(s)
  <2>1. PICK i \in 1..(Len(s) - 1) : e = Tail(s)[i]
    BY <1>1 DEF ToSet
  <2>2. e = s[i + 1] /\ i + 1 \in DOMAIN s
    BY <1>1, <2>1
  <2> QED
    BY <2>2 DEF ToSet
<1>4. ASSUME NEW e \in ToSet(s), e # Head(s) PROVE e \in ToSet(Tail(s))
  <2>1. PICK i \in 1..Len(s) : e = s[i]
    BY <1>1 DEF ToSet
  <2>2. i - 1 \in 1..(Len(s) - 1) /\ (i - 1) + 1 = i
    BY <1>1, <1>4, <2>1
  <2>3. e = Tail(s)[i - 1] /\ i - 1 \in DOMAIN Tail(s)
    BY <1>1, <2>1, <2>2
  <2> QED
    BY <2>3 DEF ToSet
<1> QED
  BY <1>2, <1>3, <1>4

LEMMA ToSetEmpty == ToSet(<<>>) = {}
BY DEF ToSet

\* A step of tracer w changes what is known of its turn only.
LEMMA TracerUpdate ==
  ASSUME TraceTypeOK, NEW w \in Tracers, NEW t \in Tracer, tracer' = [tracer EXCEPT ![w] = t]
  PROVE  /\ tracer' \in [Tracers -> Tracer]
         /\ \A v \in Tracers : tracer'[v] = IF v = w THEN t ELSE tracer[v]
BY DEF TraceTypeOK

LEMMA OffIsTracer ==
  Off \in Tracer /\ Off.turn = 0 /\ Off.steps = <<>> /\ ToSet(Off.steps) = {}
BY ToSetEmpty DEF Off, Tracer

\* The steps of a turn that is on.
LEMMA TurnOn ==
  ASSUME TraceTypeOK, TurnsGood, NEW w \in Tracers, tracer[w] # Off
  PROVE  /\ GoodTurn(w) /\ tracer[w].turn # 0 /\ tracer[w].turn \in Running
         /\ tracer[w] \in Tracer /\ tracer[w].steps \in Seq(Step)
         /\ \A e \in ToSet(tracer[w].steps) :
              /\ Fresh(e) /\ e \in Step /\ e.turn = tracer[w].turn /\ e.id \in 1..lastId
              /\ e.step_no \in 1..Len(tracer[w].steps) /\ e = tracer[w].steps[e.step_no]
         /\ \A i \in 1..Len(tracer[w].steps) :
              tracer[w].steps[i] \in ToSet(tracer[w].steps) /\ tracer[w].steps[i].step_no = i
<1>1. tracer[w].turn # 0 /\ GoodTurn(w)
  BY DEF TurnsGood
<1>2. tracer[w].turn \in Running
  BY DEF Running
<1>3. tracer[w] \in Tracer /\ tracer[w].steps \in Seq(Step)
  BY DEF TraceTypeOK, Tracer
<1>4. ToSet(tracer[w].steps) = {tracer[w].steps[i] : i \in 1..Len(tracer[w].steps)}
  BY <1>3 DEF ToSet
<1>5. \A i \in 1..Len(tracer[w].steps) : tracer[w].steps[i] \in Step
  BY <1>3
<1> QED
  BY <1>1, <1>2, <1>3, <1>4, <1>5 DEF GoodTurn, Fresh

\* Turns are told apart by their numbers.
LEMMA RunningIs ==
  ASSUME TurnsGood, NEW n
  PROVE  n \in Running <=> \E w \in Tracers : tracer[w] # Off /\ tracer[w].turn = n
BY DEF Running
-----------------------------------------------------------------------------
LEMMA StartRunKeeps ==
  ASSUME TraceInv, NEW w \in Tracers, NEW c \in Cases, StartRun(w, c)
  PROVE  TraceInv' /\ \A e : Fresh(e)' <=> Fresh(e)
<1> DEFINE t == [Off EXCEPT !.conversation_id = c, !.turn = runs + 1]
<1>1. /\ t \in Tracer /\ t.steps = <<>> /\ t.turn = runs + 1 /\ t.conversation_id = c
      /\ t.turn # 0 /\ runs \in Nat
  <2>1. runs \in Nat
    BY DEF TraceInv, TraceTypeOK
  <2> DEFINE u == [Off EXCEPT !.conversation_id = c]
  <2>2. u \in Tracer /\ u.steps = <<>> /\ u.conversation_id = c
    BY OffIsTracer DEF Tracer
  <2> HIDE DEF u
  <2>3. /\ [u EXCEPT !.turn = runs + 1] \in Tracer
        /\ [u EXCEPT !.turn = runs + 1].turn = runs + 1
        /\ [u EXCEPT !.turn = runs + 1].steps = u.steps
        /\ [u EXCEPT !.turn = runs + 1].conversation_id = u.conversation_id
    BY <2>1, <2>2 DEF Tracer
  <2>4. t = [u EXCEPT !.turn = runs + 1]
    BY DEF u
  <2> HIDE DEF t
  <2> QED
    BY <2>1, <2>2, <2>3, <2>4
<1>2. /\ tracer' \in [Tracers -> Tracer]
      /\ \A v \in Tracers : tracer'[v] = IF v = w THEN t ELSE tracer[v]
  <2> HIDE DEF t
  <2>1. tracer' = [tracer EXCEPT ![w] = t]
    BY DEF StartRun, t
  <2> QED
    BY <1>1, <2>1, TracerUpdate DEF TraceInv
<1> HIDE DEF t
<1>3. /\ tracer[w] = Off /\ runs' = runs + 1
      /\ UNCHANGED <<agentSteps, lastId, queue, connected, failed>>
  BY DEF StartRun
<1>4. ASSUME NEW e PROVE Fresh(e)' <=> Fresh(e)
  BY <1>1, <1>2, <1>3, OffIsTracer, ToSetEmpty DEF Fresh
<1>5. TraceTypeOK'
  BY <1>1, <1>2, <1>3 DEF TraceTypeOK, TraceInv
<1>6. TurnsGood'
  <2>1. \A v \in Tracers : tracer[v].turn # 0 => GoodTurn(v) /\ tracer[v].turn # t.turn
    BY <1>1 DEF TraceInv, TurnsGood, GoodTurn
  <2>2. GoodTurn(w)'
    BY <1>1, <1>2, <1>3 DEF GoodTurn
  <2>3. \A v \in Tracers \ {w} : tracer[v].turn # 0 => GoodTurn(v)'
    BY <1>1, <1>2, <1>3, <2>1 DEF GoodTurn
  <2> QED
    BY <1>1, <1>2, <2>1, <2>2, <2>3 DEF TraceInv, TurnsGood
<1>7. DurableGood'
  BY <1>1, <1>2, <1>3 DEF TraceInv, DurableGood
<1>8. IdsUnique' /\ QueuesGood'
  BY <1>3, <1>4 DEF TraceInv, IdsUnique, QueuesGood, Published, Recorded
<1>9. Running \subseteq Running'
  BY <1>2, <1>3 DEF Running
<1>10. DurableTraceIsWhole'
  BY <1>3, <1>9 DEF TraceInv, DurableTraceIsWhole
<1> QED
  BY <1>4, <1>5, <1>6, <1>7, <1>8, <1>10 DEF TraceInv

LEMMA RecordedIs ==
  ASSUME TraceInv, NEW e, Recorded(e)
  PROVE  e \in Step /\ e.id \in 1..lastId
<1>1. CASE e \in agentSteps
  BY <1>1 DEF TraceInv, TraceTypeOK, DurableGood
<1>2. CASE Fresh(e)
  <2>1. PICK w \in Tracers : e \in ToSet(tracer[w].steps)
    BY <1>2 DEF Fresh
  <2>2. tracer[w] # Off
    BY <2>1, OffIsTracer
  <2> QED
    BY <2>1, <2>2, TurnOn DEF TraceInv
<1> QED
  BY <1>1, <1>2 DEF Recorded

LEMMA RecordKeeps ==
  ASSUME TraceInv, NEW w \in Tracers, Record(w)
  PROVE  /\ TraceInv' /\ lastId' = lastId + 1
         /\ \E step : /\ step.id = lastId'
                      /\ \A e : Fresh(e)' <=> Fresh(e) \/ e = step
                      /\ \A s \in connected : ToSet(queue'[s]) = ToSet(queue[s]) \cup {step}
<1> DEFINE old == tracer[w].steps
           n == Len(old) + 1
<1>1. /\ tracer[w] # Off /\ lastId' = lastId + 1
      /\ UNCHANGED <<agentSteps, connected, runs, failed>>
  BY OffIsTracer DEF Record
<1>2. /\ GoodTurn(w) /\ tracer[w].turn # 0 /\ tracer[w].turn \in Running
      /\ tracer[w] \in Tracer /\ old \in Seq(Step) /\ lastId \in Nat /\ runs \in Nat
      /\ tracer[w].conversation_id \in Cases /\ tracer[w].turn \in Nat /\ n \in Nat
  BY <1>1, TurnOn DEF TraceInv, TraceTypeOK, GoodTurn
<1>3. \A i \in 1..lastId : i \in 1..lastId'
  BY <1>1, <1>2
<1>4. PICK type \in NextTypes(w) :
        LET step == [id |-> lastId + 1, conversation_id |-> tracer[w].conversation_id,
                     step_no |-> n, turn |-> tracer[w].turn, type |-> type]
        IN  tracer' = [tracer EXCEPT ![w].steps = Append(old, step)] /\ Publish(step)
  BY DEF Record
<1>5. type \in {"tool_call", "tool_result", "other"}
  BY DEF NextTypes
<1>6. PICK step \in Step :
        /\ step.id = lastId + 1 /\ step.step_no = n /\ step.turn = tracer[w].turn
        /\ step.type = type
        /\ tracer' = [tracer EXCEPT ![w].steps = Append(old, step)] /\ Publish(step)
  <2> DEFINE k == [id |-> lastId + 1, conversation_id |-> tracer[w].conversation_id,
                   step_no |-> n, turn |-> tracer[w].turn, type |-> type]
  <2>1. /\ k \in Step /\ k.id = lastId + 1 /\ k.step_no = n /\ k.turn = tracer[w].turn
        /\ k.type = type
    BY <1>2, <1>5 DEF Step
  <2>2. tracer' = [tracer EXCEPT ![w].steps = Append(old, k)] /\ Publish(k)
    BY <1>4
  <2> HIDE DEF k
  <2> QED
    BY <2>1, <2>2
<1> DEFINE t == [tracer[w] EXCEPT !.steps = Append(old, step)]
<1>7. /\ Append(old, step) \in Seq(Step) /\ Len(Append(old, step)) = n
      /\ \A i \in 1..Len(old) : Append(old, step)[i] = old[i]
      /\ Append(old, step)[n] = step
      /\ ToSet(Append(old, step)) = ToSet(old) \cup {step}
  BY <1>2, <1>6, ToSetAppend
<1>8. /\ t \in Tracer /\ t.steps = Append(old, step) /\ t.turn = tracer[w].turn
      /\ t.conversation_id = tracer[w].conversation_id
  BY <1>2, <1>7 DEF Tracer
<1>9. tracer' = [tracer EXCEPT ![w] = t]
  BY <1>6
<1> HIDE DEF t
<1>10. /\ tracer' \in [Tracers -> Tracer]
      /\ \A v \in Tracers : tracer'[v] = IF v = w THEN t ELSE tracer[v]
  BY <1>8, <1>9, TracerUpdate DEF TraceInv
<1>11. ASSUME NEW v \in Tracers
       PROVE  /\ ToSet(tracer'[v].steps) = IF v = w THEN ToSet(tracer[v].steps) \cup {step}
                                                   ELSE ToSet(tracer[v].steps)
              /\ tracer'[v].turn = tracer[v].turn
  <2>1. CASE v = w
    BY <1>7, <1>8, <1>10, <2>1
  <2>2. CASE v # w
    BY <1>10, <2>2
  <2> QED
    BY <2>1, <2>2
<1>12. ASSUME NEW e PROVE Fresh(e)' <=> Fresh(e) \/ e = step
  BY <1>11 DEF Fresh
<1>13. ASSUME NEW s \in Streams
       PROVE  /\ queue'[s] \in Seq(Step) /\ ToSet(queue'[s]) \subseteq ToSet(queue[s]) \cup {step}
              /\ s \in connected => ToSet(queue'[s]) = ToSet(queue[s]) \cup {step}
              /\ s \notin connected => queue'[s] = queue[s]
  <2>1. queue[s] \in Seq(Step)
    BY DEF TraceInv, TraceTypeOK
  <2>2. queue'[s] = IF s \in connected THEN Append(queue[s], step) ELSE queue[s]
    BY <1>6 DEF Publish
  <2> QED
    BY <1>6, <2>1, <2>2, ToSetAppend
<1>14. TraceTypeOK'
  <2>1. queue' \in [Streams -> Seq(Step)]
    BY <1>6, <1>13 DEF Publish
  <2> QED
    BY <1>1, <1>2, <1>10, <1>13, <2>1 DEF TraceInv, TraceTypeOK
<1>15. TurnsGood'
  <2>1. /\ tracer'[w].turn = tracer[w].turn /\ tracer'[w].steps[n] = step
        /\ \A i \in 1..Len(old) : tracer'[w].steps[i] = old[i]
    BY <1>7, <1>8, <1>10
  <2>2. Len(old) \in Nat /\ lastId \in Nat
    BY <1>2
  <2>3. ASSUME NEW i \in 1..Len(old)
        PROVE  /\ old[i].step_no = i /\ old[i].turn = tracer[w].turn /\ old[i].id \in 1..lastId
               /\ old[i].type = "tool_call" /\ i < Len(old) => old[i + 1].type = "tool_result"
    BY <1>2 DEF GoodTurn
  <2>4. ASSUME NEW i \in 1..n
        PROVE  LET k == tracer'[w].steps[i]
               IN  /\ k.step_no = i /\ k.turn = tracer'[w].turn /\ k.id \in 1..(lastId + 1)
                   /\ k.type = "tool_call" /\ i < n => tracer'[w].steps[i + 1].type = "tool_result"
    <3>1. CASE i = n
      <4>1. tracer'[w].steps[i] = step /\ step.step_no = i /\ step.id = lastId + 1
        BY <1>6, <2>1, <3>1
      <4>2. step.turn = tracer'[w].turn /\ step.id \in 1..(lastId + 1) /\ ~(i < n)
        BY <1>6, <2>1, <2>2, <3>1
      <4> QED
        BY <4>1, <4>2
    <3>2. CASE i < n
      <4>1. i \in 1..Len(old)
        BY <2>2, <3>2
      <4>2. /\ tracer'[w].steps[i] = old[i] /\ old[i].step_no = i
            /\ old[i].turn = tracer[w].turn /\ old[i].id \in 1..(lastId + 1)
        BY <2>1, <2>2, <2>3, <4>1
      <4>3. old[i].type = "tool_call" => tracer'[w].steps[i + 1].type = "tool_result"
        <5>1. CASE i < Len(old)
          <6>1. i + 1 \in 1..Len(old)
            BY <2>2, <4>1, <5>1
          <6> QED
            BY <2>1, <2>3, <4>1, <5>1, <6>1
        <5>2. CASE i = Len(old)
          <6>1. LastStep(w) = old[i] /\ old # <<>>
            BY <1>2, <4>1, <5>2 DEF LastStep
          <6>2. old[i].type = "tool_call" => type = "tool_result"
            BY <6>1 DEF NextTypes
          <6>3. tracer'[w].steps[i + 1] = step /\ step.type = type
            BY <1>6, <2>1, <5>2
          <6> QED
            BY <6>2, <6>3
        <5> QED
          BY <2>2, <4>1, <5>1, <5>2
      <4> QED
        BY <2>1, <4>2, <4>3
    <3> QED
      BY <2>2, <3>1, <3>2
  <2>5. GoodTurn(w)'
    BY <1>1, <1>2, <1>7, <1>8, <1>10, <2>4 DEF GoodTurn
  <2>6. ASSUME NEW v \in Tracers, v # w, tracer[v].turn # 0 PROVE GoodTurn(v)'
    <3>1. GoodTurn(v) /\ tracer'[v] = tracer[v]
      BY <1>10, <2>6 DEF TraceInv, TurnsGood
    <3> QED
      BY <1>1, <1>2, <3>1 DEF GoodTurn
  <2> QED
    BY <1>2, <1>8, <1>10, <2>5, <2>6 DEF TraceInv, TurnsGood
<1>16. DurableGood'
  <2>1. ASSUME NEW q \in agentSteps
        PROVE  /\ q.id \in 1..lastId' /\ q.turn \in 1..runs
               /\ \A v \in Tracers : tracer[v].turn = q.turn => q \in ToSet(tracer[v].steps)
    BY <1>3 DEF TraceInv, DurableGood
  <2>2. \A v \in Tracers : /\ tracer'[v].turn = tracer[v].turn
                           /\ ToSet(tracer[v].steps) \subseteq ToSet(tracer'[v].steps)
    BY <1>11
  <2> QED
    BY <1>1, <2>1, <2>2 DEF DurableGood
<1>17. IdsUnique'
  <2>1. \A e : Recorded(e)' <=> Recorded(e) \/ e = step
    BY <1>1, <1>12 DEF Recorded
  <2>2. \A e : Recorded(e) => e.id # step.id
    BY <1>2, <1>6, RecordedIs
  <2> QED
    BY <2>1, <2>2 DEF TraceInv, IdsUnique
<1>18. QueuesGood'
  <2>1. Published(step)' /\ step.id \in 1..lastId'
    BY <1>1, <1>2, <1>6, <1>12 DEF Published, Recorded
  <2>2. \A e : Published(e) => Published(e)'
    BY <1>1, <1>12 DEF Published, Recorded
  <2>3. ASSUME NEW s \in Streams, NEW e \in ToSet(queue'[s])
        PROVE  Published(e)' /\ e.id \in 1..lastId'
    <3>1. CASE e = step
      BY <2>1, <3>1
    <3>2. CASE e \in ToSet(queue[s])
      BY <1>3, <2>2, <3>2 DEF TraceInv, QueuesGood
    <3> QED
      BY <1>13, <2>3, <3>1, <3>2
  <2> QED
    BY <2>3 DEF QueuesGood
<1>19. Running' = Running
  BY <1>1, <1>2, <1>8, <1>10, OffIsTracer DEF Running
<1>20. DurableTraceIsWhole'
  BY <1>1, <1>19 DEF TraceInv, DurableTraceIsWhole
<1>21. TraceInv'
  BY <1>14, <1>15, <1>16, <1>17, <1>18, <1>20 DEF TraceInv
<1>22. \A s \in connected : s \in Streams
  BY DEF TraceInv, TraceTypeOK
<1> QED
  BY <1>1, <1>6, <1>12, <1>13, <1>21, <1>22

LEMMA CommitKeeps ==
  ASSUME TraceInv, NEW w \in Tracers, CommitInTool(w)
  PROVE  /\ TraceInv' /\ \A e : Recorded(e)' <=> Recorded(e)
         /\ agentSteps' = agentSteps \cup ToSet(tracer[w].steps)
         /\ \A e : Fresh(e)' <=> Fresh(e)
<1> DEFINE steps == tracer[w].steps
           t == [tracer[w] EXCEPT !.kept = Len(steps)]
<1>1. tracer[w] # Off
  BY OffIsTracer, TurnOn DEF CommitInTool, TraceInv, Off
<1>2. /\ GoodTurn(w) /\ tracer[w].turn # 0 /\ tracer[w].turn \in Running
      /\ tracer[w] \in Tracer /\ steps \in Seq(Step) /\ Len(steps) \in Nat
      /\ \A e \in ToSet(steps) :
           /\ Fresh(e) /\ e \in Step /\ e.turn = tracer[w].turn /\ e.id \in 1..lastId
           /\ e.step_no \in 1..Len(steps) /\ e = steps[e.step_no]
      /\ \A i \in 1..Len(steps) : steps[i] \in ToSet(steps) /\ steps[i].step_no = i
  BY <1>1, TurnOn DEF TraceInv
<1>3. /\ agentSteps' = agentSteps \cup ToSet(steps) /\ tracer' = [tracer EXCEPT ![w] = t]
      /\ UNCHANGED <<lastId, queue, connected, runs, failed>>
  BY DEF CommitInTool, Commit
<1>4. /\ t \in Tracer /\ t.steps = steps /\ t.turn = tracer[w].turn
      /\ t.conversation_id = tracer[w].conversation_id
  BY <1>2 DEF Tracer
<1> HIDE DEF t
<1>5. /\ tracer' \in [Tracers -> Tracer]
      /\ \A v \in Tracers : tracer'[v] = IF v = w THEN t ELSE tracer[v]
  BY <1>3, <1>4, TracerUpdate DEF TraceInv
<1>6. \A v \in Tracers : /\ tracer'[v].steps = tracer[v].steps
                         /\ tracer'[v].turn = tracer[v].turn
                         /\ tracer'[v].conversation_id = tracer[v].conversation_id
  BY <1>4, <1>5
<1>7. ASSUME NEW e PROVE Fresh(e)' <=> Fresh(e)
  BY <1>6 DEF Fresh
<1>8. ASSUME NEW e PROVE Recorded(e)' <=> Recorded(e)
  BY <1>2, <1>3, <1>7 DEF Recorded
<1>9. TraceTypeOK'
  BY <1>2, <1>3, <1>5 DEF TraceInv, TraceTypeOK
<1>10. TurnsGood'
  <2>1. \A v \in Tracers : GoodTurn(v) => GoodTurn(v)'
    BY <1>3, <1>6 DEF GoodTurn
  <2> QED
    BY <1>2, <1>4, <1>5, <1>6, <2>1 DEF TraceInv, TurnsGood
<1>11. DurableGood'
  <2>1. \A r \in agentSteps' : r.id \in 1..lastId' /\ r.turn \in 1..runs'
    BY <1>2, <1>3 DEF TraceInv, DurableGood, GoodTurn
  <2>2. ASSUME NEW r \in agentSteps', NEW v \in Tracers, tracer'[v].turn = r.turn
        PROVE  r \in ToSet(tracer'[v].steps)
    <3>1. CASE r \in agentSteps
      BY <1>6, <2>2, <3>1 DEF TraceInv, DurableGood
    <3>2. CASE r \in ToSet(steps)
      <4>1. v = w
        BY <1>2, <1>6, <2>2, <3>2 DEF TraceInv, TurnsGood
      <4> QED
        BY <1>6, <3>2, <4>1
    <3> QED
      BY <1>3, <2>2, <3>1, <3>2
  <2> QED
    BY <2>1, <2>2 DEF DurableGood
<1>12. IdsUnique' /\ QueuesGood'
  BY <1>3, <1>8 DEF TraceInv, IdsUnique, QueuesGood, Published
<1>13. Running' = Running
  <2>1. \A v \in Tracers : tracer'[v] = Off <=> tracer[v] = Off
    BY <1>1, <1>2, <1>4, <1>5, OffIsTracer
  <2> QED
    BY <1>6, <2>1 DEF Running
<1>14. DurableTraceIsWhole'
  <2>1. ASSUME NEW r \in agentSteps
        PROVE  /\ \A k \in 1..r.step_no : \E q \in agentSteps' : q.turn = r.turn /\ q.step_no = k
               /\ r.type = "tool_call" =>
                    \/ r.turn \in failed' \cup Running'
                    \/ \E q \in agentSteps' : q.turn = r.turn /\ q.step_no = r.step_no + 1
    BY <1>3, <1>13 DEF TraceInv, DurableTraceIsWhole
  <2>2. ASSUME NEW r \in ToSet(steps)
        PROVE  /\ \A k \in 1..r.step_no : \E q \in agentSteps' : q.turn = r.turn /\ q.step_no = k
               /\ r.turn \in failed' \cup Running'
    <3>1. ASSUME NEW k \in 1..r.step_no
          PROVE  steps[k] \in agentSteps' /\ steps[k].turn = r.turn /\ steps[k].step_no = k
      BY <1>2, <1>3
    <3> QED
      BY <1>2, <1>13, <3>1
  <2> QED
    BY <1>3, <2>1, <2>2 DEF DurableTraceIsWhole
<1> QED
  BY <1>3, <1>7, <1>8, <1>9, <1>10, <1>11, <1>12, <1>14 DEF TraceInv

\* A turn ends, one way or the other.
LEMMA TurnEnds ==
  ASSUME TraceInv, NEW w \in Tracers, tracer[w] # Off, tracer' = [tracer EXCEPT ![w] = Off],
         UNCHANGED <<lastId, runs>>
  PROVE  /\ tracer' \in [Tracers -> Tracer] /\ TurnsGood'
         /\ tracer'[w] = Off /\ \A v \in Tracers \ {w} : tracer'[v] = tracer[v]
         /\ \A e : Fresh(e) <=> Fresh(e)' \/ e \in ToSet(tracer[w].steps)
         /\ Running = Running' \cup {tracer[w].turn}
<1>1. GoodTurn(w) /\ tracer[w].turn # 0 /\ \A e \in ToSet(tracer[w].steps) : Fresh(e)
  BY TurnOn DEF TraceInv
<1>2. /\ tracer' \in [Tracers -> Tracer]
      /\ \A v \in Tracers : tracer'[v] = IF v = w THEN Off ELSE tracer[v]
  BY OffIsTracer, TracerUpdate DEF TraceInv
<1>3. TurnsGood'
  <2>1. ASSUME NEW v \in Tracers, v # w, tracer[v].turn # 0 PROVE GoodTurn(v)'
    <3>1. GoodTurn(v) /\ tracer'[v] = tracer[v]
      BY <1>2, <2>1 DEF TraceInv, TurnsGood
    <3> QED
      BY <3>1 DEF GoodTurn
  <2> QED
    BY <1>2, <2>1, OffIsTracer DEF TraceInv, TurnsGood
<1>4. ASSUME NEW e PROVE Fresh(e) <=> Fresh(e)' \/ e \in ToSet(tracer[w].steps)
  BY <1>2, OffIsTracer DEF Fresh
<1>5. Running = Running' \cup {tracer[w].turn}
  BY <1>2 DEF Running
<1> QED
  BY <1>2, <1>3, <1>4, <1>5

LEMMA FinishKeeps ==
  ASSUME TraceInv, NEW w \in Tracers, FinishRun(w)
  PROVE  /\ TraceInv' /\ \A e : Recorded(e)' <=> Recorded(e)
         /\ agentSteps' = agentSteps \cup ToSet(tracer[w].steps)
         /\ \A e : Fresh(e)' => Fresh(e)
<1> DEFINE steps == tracer[w].steps
<1>1. tracer[w] # Off /\ LastStep(w).type = "other" /\ steps # <<>>
  BY OffIsTracer DEF FinishRun
<1>2. /\ GoodTurn(w) /\ tracer[w].turn # 0 /\ steps \in Seq(Step) /\ Len(steps) \in Nat
      /\ \A e \in ToSet(steps) :
           /\ Fresh(e) /\ e \in Step /\ e.turn = tracer[w].turn /\ e.id \in 1..lastId
           /\ e.step_no \in 1..Len(steps) /\ e = steps[e.step_no]
      /\ \A i \in 1..Len(steps) : steps[i] \in ToSet(steps) /\ steps[i].step_no = i
  BY <1>1, TurnOn DEF TraceInv
<1>3. /\ agentSteps' = agentSteps \cup ToSet(steps) /\ tracer' = [tracer EXCEPT ![w] = Off]
      /\ UNCHANGED <<lastId, queue, connected, runs, failed>>
  BY DEF FinishRun, Commit
<1>4. /\ tracer' \in [Tracers -> Tracer] /\ TurnsGood'
      /\ tracer'[w] = Off /\ \A v \in Tracers \ {w} : tracer'[v] = tracer[v]
      /\ \A e : Fresh(e) <=> Fresh(e)' \/ e \in ToSet(steps)
      /\ Running = Running' \cup {tracer[w].turn}
  BY <1>1, <1>3, TurnEnds
<1>5. ASSUME NEW e PROVE Recorded(e)' <=> Recorded(e)
  BY <1>3, <1>4 DEF Recorded
<1>6. TraceTypeOK'
  BY <1>2, <1>3, <1>4 DEF TraceInv, TraceTypeOK
<1>7. DurableGood'
  <2>1. \A r \in agentSteps' : r.id \in 1..lastId' /\ r.turn \in 1..runs'
    BY <1>2, <1>3 DEF TraceInv, DurableGood, GoodTurn
  <2>2. ASSUME NEW r \in agentSteps', NEW v \in Tracers, tracer'[v].turn = r.turn
        PROVE  r \in ToSet(tracer'[v].steps)
    <3>1. v # w
      <4>1. r.turn # 0
        BY <2>1 DEF TraceInv, TraceTypeOK
      <4> QED
        BY <1>4, <2>2, <4>1, OffIsTracer
    <3>2. tracer'[v] = tracer[v]
      BY <1>4, <3>1
    <3>3. r \notin ToSet(steps)
      BY <1>2, <2>2, <3>1, <3>2 DEF TraceInv, TurnsGood
    <3> QED
      BY <1>3, <2>2, <3>2, <3>3 DEF TraceInv, DurableGood
  <2> QED
    BY <2>1, <2>2 DEF DurableGood
<1>8. IdsUnique' /\ QueuesGood'
  BY <1>3, <1>5 DEF TraceInv, IdsUnique, QueuesGood, Published
<1>9. DurableTraceIsWhole'
  <2>1. ASSUME NEW r \in ToSet(steps)
        PROVE  /\ \A k \in 1..r.step_no : \E q \in agentSteps' : q.turn = r.turn /\ q.step_no = k
               /\ r.type = "tool_call" =>
                    \E q \in agentSteps' : q.turn = r.turn /\ q.step_no = r.step_no + 1
    <3>1. ASSUME NEW k \in 1..r.step_no
          PROVE  steps[k] \in agentSteps' /\ steps[k].turn = r.turn /\ steps[k].step_no = k
      BY <1>2, <1>3
    <3>2. ASSUME r.type = "tool_call"
          PROVE  LET q == steps[r.step_no + 1]
                 IN  q \in agentSteps' /\ q.turn = r.turn /\ q.step_no = r.step_no + 1
      <4>1. r.step_no # Len(steps)
        BY <1>1, <1>2, <3>2 DEF LastStep
      <4>2. r.step_no + 1 \in 1..Len(steps)
        BY <1>2, <4>1
      <4> QED
        BY <1>2, <1>3, <4>2
    <3> QED
      BY <3>1, <3>2
  <2>2. ASSUME NEW r \in agentSteps, r \notin ToSet(steps)
        PROVE  /\ \A k \in 1..r.step_no : \E q \in agentSteps' : q.turn = r.turn /\ q.step_no = k
               /\ r.type = "tool_call" =>
                    \/ r.turn \in failed' \cup Running'
                    \/ \E q \in agentSteps' : q.turn = r.turn /\ q.step_no = r.step_no + 1
    <3>1. r.turn # tracer[w].turn
      BY <2>2 DEF TraceInv, DurableGood
    <3> QED
      BY <1>3, <1>4, <2>2, <3>1 DEF TraceInv, DurableTraceIsWhole
  <2> QED
    BY <1>3, <2>1, <2>2 DEF DurableTraceIsWhole
<1> QED
  BY <1>3, <1>4, <1>5, <1>6, <1>7, <1>8, <1>9 DEF TraceInv

LEMMA FailKeeps ==
  ASSUME TraceInv, NEW w \in Tracers, FailRun(w)
  PROVE  /\ TraceInv' /\ \A e : Recorded(e)' => Recorded(e)
         /\ \A e : Published(e) => Published(e)'
         /\ \A e : Fresh(e)' => Fresh(e)
<1> DEFINE steps == tracer[w].steps
<1>1. /\ tracer[w] # Off /\ tracer' = [tracer EXCEPT ![w] = Off]
      /\ failed' = failed \cup {tracer[w].turn}
      /\ UNCHANGED <<agentSteps, lastId, queue, connected, runs>>
  BY DEF FailRun
<1>2. /\ GoodTurn(w) /\ tracer[w].turn # 0
      /\ \A e \in ToSet(steps) : e.turn = tracer[w].turn
  BY <1>1, TurnOn DEF TraceInv
<1>3. /\ tracer' \in [Tracers -> Tracer] /\ TurnsGood'
      /\ tracer'[w] = Off /\ \A v \in Tracers \ {w} : tracer'[v] = tracer[v]
      /\ \A e : Fresh(e) <=> Fresh(e)' \/ e \in ToSet(steps)
      /\ Running = Running' \cup {tracer[w].turn}
  BY <1>1, TurnEnds
<1>4. ASSUME NEW e PROVE (Recorded(e)' => Recorded(e)) /\ (Published(e) => Published(e)')
  BY <1>1, <1>2, <1>3 DEF Recorded, Published
<1>5. TraceTypeOK'
  BY <1>1, <1>2, <1>3 DEF TraceInv, TraceTypeOK, GoodTurn
<1>6. DurableGood'
  <2>1. ASSUME NEW r \in agentSteps, NEW v \in Tracers, tracer'[v].turn = r.turn
        PROVE  r \in ToSet(tracer'[v].steps)
    <3>1. r.turn # 0
      BY DEF TraceInv, TraceTypeOK, DurableGood
    <3>2. tracer'[v] = tracer[v]
      BY <1>3, <2>1, <3>1, OffIsTracer
    <3> QED
      BY <2>1, <3>2 DEF TraceInv, DurableGood
  <2> QED
    BY <1>1, <2>1 DEF TraceInv, DurableGood
<1>7. IdsUnique'
  BY <1>4 DEF TraceInv, IdsUnique
<1>8. QueuesGood'
  BY <1>1, <1>4 DEF TraceInv, QueuesGood
<1>9. DurableTraceIsWhole'
  BY <1>1, <1>3 DEF TraceInv, DurableTraceIsWhole
<1> QED
  BY <1>3, <1>4, <1>5, <1>6, <1>7, <1>8, <1>9 DEF TraceInv

\* What only the queues take part in.
LEMMA StreamKeeps ==
  ASSUME TraceInv, NEW s \in Streams, Subscribe(s) \/ Take(s) \/ Unsubscribe(s)
  PROVE  /\ TraceInv' /\ UNCHANGED <<agentSteps, lastId, tracer, runs, failed>>
         /\ \A e : Fresh(e)' <=> Fresh(e)
<1>1. UNCHANGED <<agentSteps, lastId, tracer, runs, failed>>
  BY DEF Subscribe, Take, Unsubscribe
<1>2. ASSUME NEW z \in Streams
      PROVE  queue'[z] \in Seq(Step) /\ ToSet(queue'[z]) \subseteq ToSet(queue[z])
  <2>1. queue[z] \in Seq(Step) /\ queue \in [Streams -> Seq(Step)]
    BY DEF TraceInv, TraceTypeOK
  <2>2. CASE Subscribe(s)
    BY <2>1, <2>2 DEF Subscribe
  <2>3. CASE Take(s)
    <3>1. queue'[z] = IF z = s THEN Tail(queue[z]) ELSE queue[z]
      BY <2>1, <2>3 DEF Take
    <3>2. z = s => Tail(queue[z]) \in Seq(Step) /\ ToSet(Tail(queue[z])) \subseteq ToSet(queue[z])
      BY <2>1, <2>3, ToSetTail DEF Take
    <3> QED
      BY <2>1, <3>1, <3>2
  <2>4. CASE Unsubscribe(s)
    BY <2>1, <2>4, ToSetEmpty DEF Unsubscribe
  <2> QED
    BY <2>2, <2>3, <2>4
<1>3. TraceTypeOK'
  <2>1. queue' = [z \in Streams |-> queue'[z]]
    BY DEF TraceInv, TraceTypeOK, Subscribe, Take, Unsubscribe
  <2>2. connected' \subseteq Streams
    BY DEF TraceInv, TraceTypeOK, Subscribe, Take, Unsubscribe
  <2>3. \A z \in Streams \ connected' : queue'[z] = <<>>
    BY DEF TraceInv, TraceTypeOK, Subscribe, Take, Unsubscribe
  <2> QED
    BY <1>1, <1>2, <2>1, <2>2, <2>3 DEF TraceInv, TraceTypeOK
<1>4. ASSUME NEW e PROVE (Fresh(e)' <=> Fresh(e)) /\ (Published(e)' <=> Published(e))
  BY <1>1 DEF Fresh, Published, Recorded
<1>5. TurnsGood' /\ DurableGood' /\ DurableTraceIsWhole' /\ IdsUnique'
  BY <1>1, <1>4 DEF TraceInv, TurnsGood, GoodTurn, DurableGood, DurableTraceIsWhole, Running,
                    IdsUnique, Recorded
<1>6. QueuesGood'
  BY <1>1, <1>2, <1>4 DEF TraceInv, QueuesGood
<1> QED
  BY <1>1, <1>3, <1>4, <1>5, <1>6 DEF TraceInv

LEMMA TraceInitInv == TraceInit => TraceInv /\ \A e : ~Recorded(e)
<1> SUFFICES ASSUME TraceInit PROVE TraceInv /\ \A e : ~Recorded(e)
  OBVIOUS
<1>1. \A w \in Tracers : tracer[w] = Off
  BY DEF TraceInit
<1>2. ASSUME NEW e PROVE ~Recorded(e)
  BY <1>1, OffIsTracer DEF Recorded, Fresh, TraceInit
<1>3. TraceTypeOK
  BY OffIsTracer DEF TraceInit, TraceTypeOK
<1>4. TurnsGood /\ QueuesGood
  BY <1>1, OffIsTracer, ToSetEmpty DEF TurnsGood, QueuesGood, TraceInit
<1>5. DurableGood /\ DurableTraceIsWhole /\ IdsUnique
  BY <1>2 DEF DurableGood, DurableTraceIsWhole, IdsUnique, TraceInit
<1> QED
  BY <1>2, <1>3, <1>4, <1>5 DEF TraceInv
-----------------------------------------------------------------------------
\* A step of a turn, as the page sees it.
LEMMA RunStepKeeps ==
  ASSUME TraceInv, NEW w \in Tracers, RunStep(w), NEW s \in Streams
  PROVE  /\ TraceInv' /\ agentSteps \subseteq agentSteps' /\ UNCHANGED connected
         /\ lastId \in Nat /\ lastId' \in {lastId, lastId + 1}
         /\ \A e : Published(e) => Published(e)'
         /\ ToSet(queue[s]) \subseteq ToSet(queue'[s])
         /\ \A e : Recorded(e)' => \/ Recorded(e)
                                   \/ /\ e.id = lastId' /\ lastId' = lastId + 1
                                      /\ s \in connected => e \in ToSet(queue'[s])
<1>1. lastId \in Nat /\ connected \subseteq Streams /\ queue \in [Streams -> Seq(Step)]
  BY DEF TraceInv, TraceTypeOK
<1>2. CASE \E c \in Cases : StartRun(w, c)
  <2>1. UNCHANGED <<agentSteps, lastId, queue, connected, failed>>
    BY <1>2 DEF StartRun
  <2>2. TraceInv' /\ \A e : Fresh(e)' <=> Fresh(e)
    BY <1>2, StartRunKeeps
  <2> QED
    BY <1>1, <2>1, <2>2 DEF Recorded, Published
<1>3. CASE Record(w)
  <2>1. UNCHANGED <<agentSteps, connected, failed>>
    BY <1>3 DEF Record
  <2>2. /\ TraceInv' /\ lastId' = lastId + 1
        /\ \E step : /\ step.id = lastId'
                     /\ \A e : Fresh(e)' <=> Fresh(e) \/ e = step
                     /\ \A z \in connected : ToSet(queue'[z]) = ToSet(queue[z]) \cup {step}
    BY <1>3, RecordKeeps
  <2>3. PICK step : /\ step.id = lastId'
                    /\ \A e : Fresh(e)' <=> Fresh(e) \/ e = step
                    /\ \A z \in connected : ToSet(queue'[z]) = ToSet(queue[z]) \cup {step}
    BY <2>2
  <2>4. s \notin connected => queue'[s] = queue[s]
    BY <1>3 DEF Record, Publish
  <2>5. ToSet(queue[s]) \subseteq ToSet(queue'[s])
    BY <2>3, <2>4
  <2>6. \A e : Published(e) => Published(e)'
    BY <2>1, <2>3 DEF Recorded, Published
  <2>7. \A e : Recorded(e)' => Recorded(e) \/ e = step
    BY <2>1, <2>3 DEF Recorded
  <2> QED
    BY <1>1, <2>1, <2>2, <2>3, <2>5, <2>6, <2>7
<1>4. CASE CommitInTool(w)
  <2>1. UNCHANGED <<lastId, queue, connected, failed>>
    BY <1>4 DEF CommitInTool
  <2>2. TraceInv' /\ agentSteps \subseteq agentSteps' /\ \A e : Recorded(e)' <=> Recorded(e)
    BY <1>4, CommitKeeps
  <2> QED
    BY <1>1, <2>1, <2>2 DEF Published
<1>5. CASE FinishRun(w)
  <2>1. UNCHANGED <<lastId, queue, connected, failed>>
    BY <1>5 DEF FinishRun
  <2>2. TraceInv' /\ agentSteps \subseteq agentSteps' /\ \A e : Recorded(e)' <=> Recorded(e)
    BY <1>5, FinishKeeps
  <2> QED
    BY <1>1, <2>1, <2>2 DEF Published
<1>6. CASE FailRun(w)
  <2>1. UNCHANGED <<agentSteps, lastId, queue, connected>>
    BY <1>6 DEF FailRun
  <2>2. /\ TraceInv' /\ \A e : Recorded(e)' => Recorded(e)
        /\ \A e : Published(e) => Published(e)'
    BY <1>6, FailKeeps
  <2> QED
    BY <1>1, <2>1, <2>2
<1> QED
  BY <1>2, <1>3, <1>4, <1>5, <1>6 DEF RunStep

LEMMA TraceStays ==
  ASSUME TraceInv, UNCHANGED traceVars
  PROVE  /\ TraceInv'
         /\ \A e : /\ Fresh(e)' <=> Fresh(e)
                   /\ Recorded(e)' <=> Recorded(e)
                   /\ Published(e)' <=> Published(e)
<1>1. ASSUME NEW e
      PROVE  /\ Fresh(e)' <=> Fresh(e)
             /\ Recorded(e)' <=> Recorded(e)
             /\ Published(e)' <=> Published(e)
  BY DEF traceVars, Fresh, Recorded, Published
<1>2. TraceTypeOK' /\ TurnsGood' /\ DurableGood' /\ DurableTraceIsWhole'
  BY DEF TraceInv, TraceTypeOK, TurnsGood, GoodTurn, DurableGood, DurableTraceIsWhole, Running,
         traceVars
<1>3. IdsUnique'
  BY <1>1 DEF TraceInv, IdsUnique
<1>4. QueuesGood'
  BY <1>1 DEF TraceInv, QueuesGood, traceVars
<1> QED
  BY <1>1, <1>2, <1>3, <1>4 DEF TraceInv

\* What a step of a turn or of the stream leaves alone on the page.
LEMMA PageStays ==
  ASSUME PageInv, agentSteps \subseteq agentSteps', \A e : Published(e) => Published(e)',
         UNCHANGED <<selected, detail, summarizing, fetch, request, deciding, stored,
                     summaries, clicks, astray>>,
         \A e \in events' : Published(e)'
  PROVE  AwaitedGood' /\ ShownGood' /\ OneAwaited' /\ AnswersCurrent'
<1>1. AwaitedGood'
  BY DEF PageInv, AwaitedGood, Fetching, Summing
<1>2. ShownGood'
  BY DEF PageInv, ShownGood
<1>3. OneAwaited'
  BY DEF PageInv, OneAwaited, Fetching, Summing
<1>4. AnswersCurrent'
  BY DEF PageInv, AnswersCurrent, Fetching, Summing, ShowsCurrent, Current
<1> QED
  BY <1>1, <1>2, <1>3, <1>4

\* No step is lost sight of.
LEMMA NoneLost ==
  ASSUME PageInv, agentSteps \subseteq agentSteps',
         UNCHANGED <<selected, detail, fetch, astray>>,
         \A e : Recorded(e)' => Recorded(e) \/ Streamed(e)',
         \A e : Recorded(e) /\ Streamed(e) => Streamed(e)'
  PROVE  StepsFollowed'
<1>1. ASSUME NEW r, Fresh(r)', r \notin agentSteps' PROVE Streamed(r)'
  <2>1. Recorded(r)' /\ r \notin agentSteps
    BY <1>1 DEF Recorded
  <2>2. Recorded(r) => Fresh(r)
    BY <2>1 DEF Recorded
  <2> QED
    BY <2>1, <2>2 DEF PageInv, StepsFollowed
<1>2. ASSUME NEW r \in agentSteps', ~Streamed(r)' PROVE r \in agentSteps /\ ~Streamed(r)
  <2>1. Recorded(r)
    BY <1>2 DEF Recorded
  <2> QED
    BY <1>2, <2>1 DEF PageInv, StepsFollowed, Recorded
<1> QED
  BY <1>1, <1>2 DEF PageInv, StepsFollowed

LEMMA TurnStep ==
  ASSUME TraceInv, PageInv, NEW w \in Tracers, TurnGoesOn(w)
  PROVE  TraceInv' /\ PageInv'
<1>1. /\ TraceInv' /\ agentSteps \subseteq agentSteps' /\ UNCHANGED connected
      /\ lastId \in Nat /\ lastId' \in {lastId, lastId + 1}
      /\ \A e : Published(e) => Published(e)'
      /\ ToSet(queue[Page]) \subseteq ToSet(queue'[Page])
      /\ \A e : Recorded(e)' => \/ Recorded(e)
                                \/ /\ e.id = lastId' /\ lastId' = lastId + 1
                                   /\ Page \in connected => e \in ToSet(queue'[Page])
  BY RunStepKeeps, PageAssumption DEF TurnGoesOn
<1>2. /\ missed' = IF Page \in connected THEN missed ELSE missed \cup (lastId + 1 .. lastId')
      /\ UNCHANGED <<selected, detail, events, summarizing, fetch, request, deciding, stored,
                     summaries, clicks, astray>>
  BY DEF TurnGoesOn
<1>3. missed \subseteq missed' /\ missed' \subseteq 1..lastId'
  BY <1>1, <1>2 DEF PageInv, AdminTypeOK
<1>4. AdminTypeOK'
  BY <1>1, <1>2, <1>3 DEF PageInv, AdminTypeOK, TraceInv
<1>5. AwaitedGood' /\ ShownGood' /\ OneAwaited' /\ AnswersCurrent'
  BY <1>1, <1>2, PageStays DEF PageInv, ShownGood
<1>6. StepsFollowed'
  <2>1. ASSUME NEW e, Recorded(e)' PROVE Recorded(e) \/ Streamed(e)'
    <3>1. CASE e.id = lastId' /\ lastId' = lastId + 1 /\ Page \notin connected
      BY <1>1, <1>2, <3>1 DEF Streamed
    <3> QED
      BY <1>1, <2>1, <3>1 DEF Streamed
  <2>2. \A e : Streamed(e) => Streamed(e)'
    BY <1>1, <1>2, <1>3 DEF Streamed
  <2> QED
    BY <1>1, <1>2, <2>1, <2>2, NoneLost
<1> QED
  BY <1>1, <1>4, <1>5, <1>6 DEF PageInv

LEMMA StreamStep ==
  ASSUME TraceInv, PageInv, Connect \/ Deliver \/ Disconnect
  PROVE  TraceInv' /\ PageInv'
<1>1. /\ TraceInv' /\ UNCHANGED <<agentSteps, lastId, tracer, runs, failed>>
      /\ \A e : Fresh(e)' <=> Fresh(e)
  BY StreamKeeps, PageAssumption DEF Connect, Deliver, Disconnect
<1>2. /\ UNCHANGED <<selected, detail, summarizing, fetch, request, deciding, stored,
                     summaries, clicks, astray>>
  BY DEF Connect, Deliver, Disconnect, pageVars
<1>3. queue \in [Streams -> Seq(Step)] /\ Page \in Streams
  BY PageAssumption DEF TraceInv, TraceTypeOK
<1>4. ASSUME NEW e
      PROVE  /\ Recorded(e)' <=> Recorded(e)
             /\ Published(e)' <=> Published(e)
  BY <1>1 DEF Recorded, Published
<1>5. /\ \A e \in events' : e \in events \/ e \in ToSet(queue[Page])
      /\ \A i \in missed' : i \in missed \/ \E e \in ToSet(queue[Page]) : i = e.id
      /\ \A e : Streamed(e) => Streamed(e)'
  <2>1. CASE Connect
    BY <2>1 DEF Connect, Subscribe, pageVars, Streamed
  <2>2. CASE Deliver
    <3>1. /\ queue[Page] # <<>> /\ events' = events \cup {Head(queue[Page])}
          /\ queue'[Page] = Tail(queue[Page]) /\ UNCHANGED missed
      BY <1>3, <2>2 DEF Deliver, Take
    <3>2. /\ Head(queue[Page]) \in ToSet(queue[Page])
          /\ ToSet(Tail(queue[Page])) \cup {Head(queue[Page])} = ToSet(queue[Page])
      BY <1>3, <3>1, ToSetTail
    <3> QED
      BY <3>1, <3>2 DEF Streamed
  <2>3. CASE Disconnect
    BY <2>3 DEF Disconnect, Streamed
  <2> QED
    BY <2>1, <2>2, <2>3
<1>6. \A e \in ToSet(queue[Page]) : Published(e) /\ e.id \in 1..lastId /\ e \in Step
  BY <1>3 DEF TraceInv, QueuesGood, ToSet
<1>7. AdminTypeOK'
  <2>1. missed' \subseteq 1..lastId' /\ events' \subseteq Step
    BY <1>1, <1>5, <1>6 DEF PageInv, AdminTypeOK
  <2> QED
    BY <1>1, <1>2, <2>1 DEF PageInv, AdminTypeOK, TraceInv
<1>8. AwaitedGood' /\ ShownGood' /\ OneAwaited' /\ AnswersCurrent'
  BY <1>1, <1>2, <1>4, <1>5, <1>6, PageStays DEF PageInv, ShownGood
<1>9. StepsFollowed'
  BY <1>1, <1>2, <1>4, <1>5, NoneLost
<1> QED
  BY <1>1, <1>7, <1>8, <1>9 DEF PageInv
-----------------------------------------------------------------------------
\* What the page awaits.
LEMMA FetchUpdate ==
  ASSUME AdminTypeOK, NEW f \in Fetches, NEW d \in Fetch, fetch' = [fetch EXCEPT ![f] = d]
  PROVE  /\ fetch' \in [Fetches -> Fetch]
         /\ \A g \in Fetches : fetch'[g] = IF g = f THEN d ELSE fetch[g]
BY DEF AdminTypeOK

LEMMA RequestUpdate ==
  ASSUME AdminTypeOK, NEW r \in Requests, NEW d \in Request, request' = [request EXCEPT ![r] = d]
  PROVE  /\ request' \in [Requests -> Request]
         /\ \A q \in Requests : request'[q] = IF q = r THEN d ELSE request[q]
BY DEF AdminTypeOK

LEMMA NothingAwaited ==
  /\ NoFetch \in Fetch /\ NoFetch.at = "none" /\ NoFetch.selecting = FALSE
  /\ NoRequest \in Request /\ NoRequest.at = "none"
BY DEF NoFetch, Fetch, NoRequest, Request

LEMMA AskKeeps ==
  ASSUME AdminTypeOK, NEW f \in Fetches, NEW c \in Cases, NEW b \in BOOLEAN, Ask(f, c, b)
  PROVE  /\ ~Fetching(f) /\ fetch' \in [Fetches -> Fetch]
         /\ fetch'[f].at = "asked" /\ fetch'[f].of = c /\ fetch'[f].selecting = b
         /\ \A g \in Fetches \ {f} : fetch'[g] = fetch[g]
<1> DEFINE u == [NoFetch EXCEPT !.at = "asked"]
           v == [u EXCEPT !.of = c]
           d == [v EXCEPT !.selecting = b]
<1>1. u \in Fetch /\ u.at = "asked"
  BY NothingAwaited DEF Fetch
<1>2. ~Fetching(f) /\ fetch' = [fetch EXCEPT ![f] = d]
  BY DEF Ask, Fetching
<1> HIDE DEF u
<1>3. v \in Fetch /\ v.at = "asked" /\ v.of = c
  BY <1>1 DEF Fetch
<1> HIDE DEF v
<1>4. d \in Fetch /\ d.at = "asked" /\ d.of = c /\ d.selecting = b
  BY <1>3 DEF Fetch
<1> HIDE DEF d
<1> QED
  BY <1>2, <1>4, FetchUpdate

\* The trace, for a step of the page.
LEMMA PageOnly ==
  ASSUME TraceInv, UNCHANGED traceVars
  PROVE  /\ TraceInv' /\ TraceTypeOK'
         /\ UNCHANGED <<agentSteps, lastId, queue>>
         /\ \A e : /\ Fresh(e)' <=> Fresh(e)
                   /\ Published(e)' <=> Published(e)
BY TraceStays DEF TraceInv, traceVars

LEMMA SelectKeeps ==
  ASSUME TraceInv, PageInv, NEW c \in Cases, Select(c)
  PROVE  TraceInv' /\ PageInv'
<1>1. /\ TraceInv' /\ TraceTypeOK' /\ UNCHANGED <<agentSteps, lastId, queue>>
      /\ \A e : /\ Fresh(e)' <=> Fresh(e)
                /\ Published(e)' <=> Published(e)
  BY PageOnly DEF Select
<1>2. /\ selected' = c /\ summarizing' = FALSE /\ clicks' = clicks + 1 /\ astray' = OnItsWay
      /\ UNCHANGED <<detail, events, request, deciding, stored, summaries, missed>>
      /\ c # None
  BY TraceAssumption DEF Select, Click
<1>3. PICK g \in Fetches :
        /\ ~Fetching(g) /\ fetch' \in [Fetches -> Fetch]
        /\ fetch'[g].at = "asked" /\ fetch'[g].of = c /\ fetch'[g].selecting = TRUE
        /\ \A f \in Fetches \ {g} : fetch'[f] = fetch[f]
  BY AskKeeps DEF Select, PageInv
<1>4. ~astray' => /\ \A f \in Fetches : ~Fetching(f)
                  /\ \A r \in Requests : ~Summing(r)
                  /\ deciding = None
  BY <1>2 DEF OnItsWay, Fetching, Summing
<1>5. AdminTypeOK'
  <2>1. astray' \in BOOLEAN /\ summarizing' \in BOOLEAN /\ ~summarizing'
    BY <1>2 DEF OnItsWay
  <2>2. selected' \in Cases \cup {None} /\ selected' # None /\ clicks' \in Nat
    BY <1>2 DEF PageInv, AdminTypeOK
  <2>3. /\ detail' \in Detail \cup {None} /\ events' \subseteq Step
        /\ fetch' \in [Fetches -> Fetch] /\ request' \in [Requests -> Request]
        /\ deciding' \in Cases \cup {None} /\ stored' \in [Cases -> 0..summaries']
        /\ summaries' \in Nat /\ missed' \subseteq 1..lastId'
    BY <1>1, <1>2, <1>3 DEF PageInv, AdminTypeOK
  <2> QED
    BY <1>1, <2>1, <2>2, <2>3 DEF AdminTypeOK
<1>6. AwaitedGood' /\ ShownGood'
  BY <1>1, <1>2, <1>3 DEF PageInv, AwaitedGood, ShownGood, Fetching, Summing
<1>7. OneAwaited'
  BY <1>2, <1>3, <1>4 DEF OneAwaited, Fetching, Summing
<1>8. AnswersCurrent'
  BY <1>2, <1>3, <1>4 DEF AnswersCurrent, Fetching, Summing
<1>9. StepsFollowed'
  <2>1. \A r : Streamed(r)' <=> Streamed(r)
    BY <1>1, <1>2 DEF Streamed
  <2>2. ~astray' => \A f \in Fetches : fetch'[f].at # "read"
    BY <1>3, <1>4 DEF Fetching
  <2> QED
    BY <1>1, <1>3, <2>1, <2>2 DEF PageInv, StepsFollowed
<1> QED
  BY <1>1, <1>5, <1>6, <1>7, <1>8, <1>9 DEF PageInv

LEMMA DecidedKeeps ==
  ASSUME TraceInv, PageInv, Decided
  PROVE  TraceInv' /\ PageInv'
<1>1. /\ TraceInv' /\ TraceTypeOK' /\ UNCHANGED <<agentSteps, lastId, queue>>
      /\ \A e : /\ Fresh(e)' <=> Fresh(e)
                /\ Published(e)' <=> Published(e)
  BY PageOnly DEF Decided
<1>2. /\ deciding # None /\ deciding \in Cases /\ deciding' = None
      /\ UNCHANGED <<selected, detail, events, summarizing, request, stored, summaries,
                     clicks, missed, astray>>
  BY DEF Decided, PageInv, AdminTypeOK
<1>3. PICK g \in Fetches :
        /\ ~Fetching(g) /\ fetch' \in [Fetches -> Fetch]
        /\ fetch'[g].at = "asked" /\ fetch'[g].of = deciding /\ fetch'[g].selecting = FALSE
        /\ \A f \in Fetches \ {g} : fetch'[f] = fetch[f]
  BY <1>2, AskKeeps DEF Decided, PageInv
<1>4. ~astray => /\ \A f \in Fetches : ~Fetching(f)
                 /\ \A r \in Requests : ~Summing(r)
                 /\ deciding = selected /\ ShowsCurrent
  BY <1>2 DEF PageInv, OneAwaited, AnswersCurrent
<1>5. AdminTypeOK'
  BY <1>1, <1>2, <1>3 DEF PageInv, AdminTypeOK
<1>6. AwaitedGood' /\ ShownGood'
  BY <1>1, <1>2, <1>3 DEF PageInv, AwaitedGood, ShownGood, Fetching, Summing
<1>7. OneAwaited'
  BY <1>2, <1>3, <1>4 DEF OneAwaited, Fetching, Summing
<1>8. AnswersCurrent'
  <2>1. ShowsCurrent => ShowsCurrent'
    BY <1>2 DEF ShowsCurrent, Current
  <2> QED
    BY <1>2, <1>3, <1>4, <2>1 DEF AnswersCurrent, Fetching, Summing
<1>9. StepsFollowed'
  <2>1. \A r : Streamed(r)' <=> Streamed(r)
    BY <1>1, <1>2 DEF Streamed
  <2>2. ~astray => \A f \in Fetches : fetch'[f].at # "read" /\ ~fetch[f].selecting
    BY <1>3, <1>4 DEF Fetching, PageInv, AwaitedGood
  <2> QED
    BY <1>1, <1>2, <2>1, <2>2 DEF PageInv, StepsFollowed
<1> QED
  BY <1>1, <1>5, <1>6, <1>7, <1>8, <1>9 DEF PageInv

LEMMA ReadCaseKeeps ==
  ASSUME TraceInv, PageInv, NEW f \in Fetches, ReadCase(f)
  PROVE  TraceInv' /\ PageInv'
<1> DEFINE d == [conversation_id |-> fetch[f].of,
                 steps |-> {r \in agentSteps : r.conversation_id = fetch[f].of},
                 ai_summary |-> stored[fetch[f].of]]
           u == [fetch[f] EXCEPT !.at = "read"]
           v == [u EXCEPT !.detail = d]
<1>1. /\ TraceInv' /\ TraceTypeOK' /\ UNCHANGED <<agentSteps, lastId, queue>>
      /\ \A e : /\ Fresh(e)' <=> Fresh(e)
                /\ Published(e)' <=> Published(e)
  BY PageOnly DEF ReadCase
<1>2. /\ Fetching(f) /\ fetch[f].of \in Cases /\ fetch[f] \in Fetch
      /\ UNCHANGED <<selected, detail, events, summarizing, request, deciding, stored,
                     summaries, clicks, missed, astray>>
  BY DEF ReadCase, Fetching, PageInv, AwaitedGood, AdminTypeOK
<1>3. /\ d \in Detail /\ d.conversation_id = fetch[f].of
      /\ d.steps = {r \in agentSteps : r.conversation_id = fetch[f].of}
      /\ d.ai_summary = stored[fetch[f].of]
  <2>1. stored[fetch[f].of] \in Nat
    BY <1>2 DEF PageInv, AdminTypeOK
  <2>2. {r \in agentSteps : r.conversation_id = fetch[f].of} \in SUBSET Step
    BY DEF TraceInv, TraceTypeOK
  <2> QED
    BY <1>2, <2>1, <2>2 DEF Detail
<1>4. fetch' = [fetch EXCEPT ![f] = v]
  BY DEF ReadCase
<1> HIDE DEF d
<1>5. u \in Fetch /\ u.at = "read" /\ u.of = fetch[f].of /\ u.selecting = fetch[f].selecting
  BY <1>2 DEF Fetch
<1> HIDE DEF u
<1>6. /\ v \in Fetch /\ v.at = "read" /\ v.of = fetch[f].of /\ v.detail = d
      /\ v.selecting = fetch[f].selecting
  BY <1>3, <1>5 DEF Fetch
<1> HIDE DEF v
<1>7. /\ fetch' \in [Fetches -> Fetch]
      /\ \A g \in Fetches : fetch'[g] = IF g = f THEN v ELSE fetch[g]
  BY <1>4, <1>6, FetchUpdate DEF PageInv
<1>8. \A g \in Fetches : /\ fetch'[g].of = fetch[g].of
                         /\ fetch'[g].selecting = fetch[g].selecting
                         /\ Fetching(g)' <=> Fetching(g)
  BY <1>2, <1>6, <1>7 DEF Fetching
<1>9. AdminTypeOK'
  BY <1>1, <1>2, <1>7 DEF PageInv, AdminTypeOK
<1>10. AwaitedGood' /\ ShownGood'
  BY <1>1, <1>2, <1>3, <1>6, <1>7, <1>8 DEF PageInv, AwaitedGood, ShownGood, Summing
<1>11. OneAwaited'
  BY <1>2, <1>8 DEF PageInv, OneAwaited, Summing
<1>12. AnswersCurrent'
  <2>1. ShowsCurrent' <=> ShowsCurrent
    BY <1>2 DEF ShowsCurrent, Current
  <2>2. ~astray => Current(d)
    BY <1>2, <1>3 DEF PageInv, AnswersCurrent, Current
  <2>3. ASSUME ~astray, NEW g \in Fetches, Fetching(g)'
        PROVE  /\ fetch'[g].of = selected /\ (~fetch'[g].selecting => ShowsCurrent')
               /\ fetch'[g].at = "read" => Current(fetch[g].detail)'
    <3>1. Fetching(g) /\ fetch[g].of = selected /\ (~fetch[g].selecting => ShowsCurrent)
      BY <1>8, <2>3 DEF PageInv, AnswersCurrent
    <3>2. CASE g = f
      BY <1>2, <1>6, <1>7, <1>8, <2>1, <2>2, <2>3, <3>1, <3>2 DEF Current
    <3>3. CASE g # f
      BY <1>2, <1>7, <1>8, <2>1, <2>3, <3>1, <3>3 DEF PageInv, AnswersCurrent, Current
    <3> QED
      BY <3>2, <3>3
  <2> QED
    BY <1>2, <1>8, <2>1, <2>3 DEF PageInv, AnswersCurrent, Summing
<1>13. StepsFollowed'
  <2>1. \A r : Streamed(r)' <=> Streamed(r)
    BY <1>1, <1>2 DEF Streamed
  <2>2. ~astray => fetch[f].of = selected
    BY <1>2 DEF PageInv, AnswersCurrent
  <2> QED
    BY <1>1, <1>2, <1>3, <1>6, <1>7, <1>8, <2>1, <2>2 DEF PageInv, StepsFollowed
<1> QED
  BY <1>1, <1>9, <1>10, <1>11, <1>12, <1>13 DEF PageInv

LEMMA ShowCaseKeeps ==
  ASSUME TraceInv, PageInv, NEW f \in Fetches, ShowCase(f)
  PROVE  TraceInv' /\ PageInv'
<1>1. /\ TraceInv' /\ TraceTypeOK' /\ UNCHANGED <<agentSteps, lastId, queue>>
      /\ \A e : /\ Fresh(e)' <=> Fresh(e)
                /\ Published(e)' <=> Published(e)
  BY PageOnly DEF ShowCase
<1>2. /\ Fetching(f) /\ fetch[f].at = "read" /\ detail' = fetch[f].detail
      /\ missed' = missed \ {r.id : r \in fetch[f].detail.steps}
      /\ UNCHANGED <<selected, events, summarizing, request, deciding, stored, summaries,
                     clicks, astray>>
  BY DEF ShowCase, Fetching
<1>3. /\ detail' \in Detail /\ selected # None /\ detail'.steps \subseteq agentSteps
  BY <1>2 DEF PageInv, AwaitedGood
<1>4. /\ fetch' \in [Fetches -> Fetch]
      /\ \A g \in Fetches : fetch'[g] = IF g = f THEN NoFetch ELSE fetch[g]
  BY NothingAwaited, FetchUpdate DEF ShowCase, PageInv
<1>5. \A g \in Fetches : /\ Fetching(g)' => Fetching(g) /\ g # f
                         /\ fetch'[g].selecting => fetch[g].selecting
  BY <1>4, NothingAwaited DEF Fetching
<1>6. ~astray => /\ \A g \in Fetches : ~Fetching(g)'
                 /\ \A r \in Requests : ~Summing(r)
                 /\ deciding = None
  BY <1>2, <1>5 DEF PageInv, OneAwaited
<1>7. AdminTypeOK'
  BY <1>1, <1>2, <1>3, <1>4 DEF PageInv, AdminTypeOK
<1>8. AwaitedGood' /\ ShownGood'
  BY <1>1, <1>2, <1>3, <1>4, <1>5, NothingAwaited
  DEF PageInv, AwaitedGood, ShownGood, Fetching, Summing
<1>9. OneAwaited'
  BY <1>2, <1>6 DEF OneAwaited, Summing
<1>10. AnswersCurrent'
  <2>1. ~astray => Current(fetch[f].detail)
    BY <1>2 DEF PageInv, AnswersCurrent
  <2>2. ~astray => ShowsCurrent'
    BY <1>2, <2>1 DEF ShowsCurrent, Current
  <2> QED
    BY <1>2, <1>6, <2>2 DEF AnswersCurrent, Summing
<1>11. StepsFollowed'
  <2>1. ASSUME NEW r, Recorded(r), Streamed(r)
        PROVE  Streamed(r)' \/ r \in detail'.steps
    <3>1. CASE r.id \in missed /\ r.id \notin missed'
      <4>1. PICK q \in detail'.steps : q.id = r.id
        BY <1>2, <3>1
      <4>2. Recorded(q)
        BY <1>3, <4>1 DEF Recorded
      <4> QED
        BY <2>1, <4>1, <4>2 DEF TraceInv, IdsUnique
    <3> QED
      BY <1>1, <1>2, <2>1, <3>1 DEF Streamed
  <2>2. ASSUME NEW r, Fresh(r)', r \notin agentSteps' PROVE Streamed(r)'
    BY <1>1, <1>3, <2>1, <2>2 DEF PageInv, StepsFollowed, Recorded
  <2>3. ASSUME ~astray, NEW r \in agentSteps, r.conversation_id = selected, ~Streamed(r)'
        PROVE  r \in detail'.steps
    <3>1. CASE Streamed(r)
      BY <2>1, <2>3, <3>1 DEF Recorded
    <3>2. CASE ~Streamed(r)
      BY <1>2, <2>3, <3>2 DEF PageInv, StepsFollowed
    <3> QED
      BY <3>1, <3>2
  <2> QED
    BY <1>1, <1>2, <1>6, <2>2, <2>3 DEF StepsFollowed, Fetching
<1> QED
  BY <1>1, <1>7, <1>8, <1>9, <1>10, <1>11 DEF PageInv

LEMMA FetchFailsKeeps ==
  ASSUME TraceInv, PageInv, NEW f \in Fetches, FetchFails(f)
  PROVE  TraceInv' /\ PageInv'
<1>1. /\ TraceInv' /\ TraceTypeOK' /\ UNCHANGED <<agentSteps, lastId, queue>>
      /\ \A e : /\ Fresh(e)' <=> Fresh(e)
                /\ Published(e)' <=> Published(e)
  BY PageOnly DEF FetchFails
<1>2. /\ Fetching(f) /\ detail' = IF fetch[f].selecting THEN None ELSE detail
      /\ UNCHANGED <<selected, events, summarizing, request, deciding, stored, summaries,
                     clicks, missed, astray>>
  BY DEF FetchFails, Fetching
<1>3. /\ fetch' \in [Fetches -> Fetch]
      /\ \A g \in Fetches : fetch'[g] = IF g = f THEN NoFetch ELSE fetch[g]
  BY NothingAwaited, FetchUpdate DEF FetchFails, PageInv
<1>4. \A g \in Fetches : Fetching(g)' => Fetching(g) /\ g # f
  BY <1>3, NothingAwaited DEF Fetching
<1>5. ~astray => /\ \A g \in Fetches : ~Fetching(g)' /\ (g # f => ~fetch[g].selecting)
                 /\ \A r \in Requests : ~Summing(r)
                 /\ deciding = None
  BY <1>2, <1>4 DEF PageInv, OneAwaited, AwaitedGood
<1>6. AdminTypeOK'
  BY <1>1, <1>2, <1>3 DEF PageInv, AdminTypeOK
<1>7. AwaitedGood' /\ ShownGood'
  BY <1>1, <1>2, <1>3, <1>4, NothingAwaited
  DEF PageInv, AwaitedGood, ShownGood, Fetching, Summing
<1>8. OneAwaited'
  BY <1>2, <1>5 DEF OneAwaited, Summing
<1>9. AnswersCurrent'
  <2>1. ~astray => fetch[f].selecting \/ ShowsCurrent
    BY <1>2 DEF PageInv, AnswersCurrent
  <2>2. ~astray => ShowsCurrent'
    BY <1>2, <2>1 DEF ShowsCurrent, Current
  <2> QED
    BY <1>2, <1>5, <2>2 DEF AnswersCurrent, Summing
<1>10. StepsFollowed'
  <2>1. \A r : Streamed(r)' <=> Streamed(r)
    BY <1>1, <1>2 DEF Streamed
  <2>2. ~astray /\ detail' # None => detail' = detail /\ \A g \in Fetches : ~fetch[g].selecting
    BY <1>2, <1>5
  <2> QED
    BY <1>1, <1>2, <1>5, <2>1, <2>2 DEF PageInv, StepsFollowed, Fetching
<1> QED
  BY <1>1, <1>6, <1>7, <1>8, <1>9, <1>10 DEF PageInv
-----------------------------------------------------------------------------
\* A step about a summary or a decision leaves the case reads and the stream alone.
LEMMA ReadsStay ==
  ASSUME TraceInv, PageInv, UNCHANGED <<traceVars, selected, events, fetch, missed>>,
         astray => astray',
         detail # None => detail' # None /\ detail'.steps = detail.steps
                          /\ detail'.conversation_id = detail.conversation_id,
         detail = None => detail' = None
  PROVE  /\ ShownGood' /\ StepsFollowed'
         /\ \A f \in Fetches : Fetching(f)' <=> Fetching(f)
<1>1. /\ UNCHANGED <<agentSteps, lastId, queue>>
      /\ \A e : /\ Fresh(e)' <=> Fresh(e)
                /\ Published(e)' <=> Published(e)
  BY PageOnly
<1>2. ShownGood'
  BY <1>1 DEF PageInv, ShownGood
<1>3. StepsFollowed'
  <2>1. \A r : Streamed(r)' <=> Streamed(r)
    BY <1>1 DEF Streamed
  <2> QED
    BY <1>1, <2>1 DEF PageInv, StepsFollowed
<1> QED
  BY <1>2, <1>3 DEF Fetching

LEMMA SummarizeKeeps ==
  ASSUME TraceInv, PageInv, NEW r \in Requests, Summarize(r)
  PROVE  TraceInv' /\ PageInv'
<1> DEFINE u == [NoRequest EXCEPT !.at = "thinking"]
           v == [u EXCEPT !.of = selected]
<1>1. TraceInv' /\ TraceTypeOK' /\ UNCHANGED <<agentSteps, lastId, queue>>
  BY PageOnly DEF Summarize
<1>2. /\ detail # None /\ selected \in Cases /\ request' = [request EXCEPT ![r] = v]
      /\ summarizing' = TRUE /\ clicks' = clicks + 1 /\ astray' = (astray \/ OnItsWay)
      /\ UNCHANGED <<selected, detail, events, fetch, deciding, stored, summaries, missed>>
  BY DEF Summarize, Click, PageInv, AdminTypeOK
<1>3. u \in Request /\ u.at = "thinking"
  BY NothingAwaited DEF Request
<1> HIDE DEF u
<1>4. v \in Request /\ v.at = "thinking" /\ v.of = selected
  BY <1>2, <1>3 DEF Request
<1> HIDE DEF v
<1>5. /\ request' \in [Requests -> Request]
      /\ \A q \in Requests : request'[q] = IF q = r THEN v ELSE request[q]
  BY <1>2, <1>4, RequestUpdate DEF PageInv
<1>6. ~astray' => /\ ~astray /\ \A f \in Fetches : ~Fetching(f)
                  /\ \A q \in Requests : ~Summing(q)
                  /\ deciding = None
  BY <1>2 DEF OnItsWay, Fetching, Summing
<1>7. ShownGood' /\ StepsFollowed' /\ \A f \in Fetches : Fetching(f)' <=> Fetching(f)
  BY <1>2, ReadsStay DEF Summarize
<1>8. AdminTypeOK'
  <2>1. astray' \in BOOLEAN /\ summarizing' \in BOOLEAN
    BY <1>2 DEF OnItsWay, PageInv, AdminTypeOK
  <2>2. clicks' \in Nat /\ request'[r].at # "none"
    BY <1>2, <1>4, <1>5 DEF PageInv, AdminTypeOK
  <2> QED
    BY <1>1, <1>2, <1>5, <2>1, <2>2 DEF PageInv, AdminTypeOK
<1>9. AwaitedGood'
  BY <1>1, <1>2, <1>4, <1>5, <1>7 DEF PageInv, AwaitedGood, Summing
<1>10. OneAwaited'
  BY <1>2, <1>5, <1>6, <1>7 DEF OneAwaited, Summing
<1>11. AnswersCurrent'
  <2>1. ~astray' => ShowsCurrent /\ detail.conversation_id = selected
    BY <1>2, <1>6 DEF PageInv, AnswersCurrent, ShowsCurrent, Current
  <2>2. ~astray' => ShowsCurrent'
    BY <1>2, <2>1 DEF ShowsCurrent, Current
  <2>3. ~astray' => \A q \in Requests : Summing(q)' => q = r
    BY <1>5, <1>6 DEF Summing
  <2>4. request'[r].at # "done" /\ request'[r].of = selected
    BY <1>4, <1>5
  <2> QED
    BY <1>2, <1>6, <1>7, <2>1, <2>2, <2>3, <2>4 DEF AnswersCurrent
<1> QED
  BY <1>1, <1>7, <1>8, <1>9, <1>10, <1>11 DEF PageInv

LEMMA WriteSummaryKeeps ==
  ASSUME TraceInv, PageInv, NEW r \in Requests, WriteSummary(r)
  PROVE  TraceInv' /\ PageInv'
<1> DEFINE c == request[r].of
           u == [request[r] EXCEPT !.at = "done"]
           v == [u EXCEPT !.summary = summaries + 1]
<1>1. TraceInv' /\ TraceTypeOK' /\ UNCHANGED <<agentSteps, lastId, queue>>
  BY PageOnly DEF WriteSummary
<1>2. /\ Summing(r) /\ c \in Cases /\ request[r] \in Request /\ summaries \in Nat
      /\ summaries' = summaries + 1 /\ stored' = [stored EXCEPT ![c] = summaries + 1]
      /\ request' = [request EXCEPT ![r] = v]
      /\ UNCHANGED <<selected, detail, events, summarizing, fetch, deciding, clicks, missed,
                     astray>>
  BY DEF WriteSummary, Summing, PageInv, AwaitedGood, AdminTypeOK
<1>3. u \in Request /\ u.at = "done" /\ u.of = c
  BY <1>2 DEF Request
<1> HIDE DEF u
<1>4. v \in Request /\ v.at = "done" /\ v.of = c /\ v.summary = summaries + 1
  BY <1>2, <1>3 DEF Request
<1> HIDE DEF v
<1>5. /\ request' \in [Requests -> Request]
      /\ \A q \in Requests : request'[q] = IF q = r THEN v ELSE request[q]
  BY <1>2, <1>4, RequestUpdate DEF PageInv
<1>6. ~astray => /\ \A f \in Fetches : ~Fetching(f)
                 /\ \A q \in Requests : Summing(q) => q = r
                 /\ deciding = None /\ c = selected
                 /\ detail # None => detail.conversation_id = selected
  BY <1>2 DEF PageInv, OneAwaited, AnswersCurrent
<1>7. ShownGood' /\ StepsFollowed' /\ \A f \in Fetches : Fetching(f)' <=> Fetching(f)
  BY <1>2, ReadsStay DEF WriteSummary
<1>8. \A q \in Requests : Summing(q)' <=> Summing(q)
  BY <1>2, <1>4, <1>5 DEF Summing
<1>9. stored' \in [Cases -> 0..summaries'] /\ stored'[c] = summaries + 1
  <2>1. stored \in [Cases -> 0..summaries]
    BY DEF PageInv, AdminTypeOK
  <2> QED
    BY <1>2, <2>1
<1>10. AdminTypeOK'
  BY <1>1, <1>2, <1>5, <1>8, <1>9 DEF PageInv, AdminTypeOK, Summing
<1>11. AwaitedGood'
  BY <1>1, <1>2, <1>4, <1>5, <1>7, <1>8 DEF PageInv, AwaitedGood
<1>12. OneAwaited'
  BY <1>2, <1>7, <1>8 DEF PageInv, OneAwaited
<1>13. AnswersCurrent'
  BY <1>2, <1>4, <1>5, <1>6, <1>7, <1>8, <1>9 DEF AnswersCurrent
<1> QED
  BY <1>1, <1>7, <1>10, <1>11, <1>12, <1>13 DEF PageInv

\* The wait for a summary ends, with the summary on the case that is shown or without.
LEMMA SummaryEnds ==
  ASSUME TraceInv, PageInv, NEW r \in Requests, ShowSummary(r) \/ SummaryFails(r)
  PROVE  TraceInv' /\ PageInv'
<1>1. TraceInv' /\ TraceTypeOK' /\ UNCHANGED <<agentSteps, lastId, queue>>
  BY PageOnly DEF ShowSummary, SummaryFails
<1>2. /\ Summing(r) /\ request' = [request EXCEPT ![r] = NoRequest] /\ ~summarizing'
      /\ UNCHANGED <<selected, events, fetch, deciding, stored, summaries, clicks, missed>>
      /\ summarizing' \in BOOLEAN
  BY DEF ShowSummary, SummaryFails, Summing
<1>3. /\ detail' \in Detail \cup {None}
      /\ \/ detail' = detail
         \/ /\ request[r].at = "done" /\ detail # None /\ detail' # None
            /\ detail'.ai_summary = request[r].summary /\ detail'.steps = detail.steps
            /\ detail'.conversation_id = detail.conversation_id
  <2>1. request[r] \in Request /\ detail \in Detail \cup {None}
    BY DEF PageInv, AdminTypeOK
  <2>2. CASE detail' = detail
    BY <2>1, <2>2
  <2>3. CASE detail' # detail
    <3>1. /\ request[r].at = "done" /\ detail \in Detail /\ detail # None
          /\ detail' = [detail EXCEPT !.ai_summary = request[r].summary]
      BY <2>1, <2>3 DEF ShowSummary, SummaryFails
    <3>2. request[r].summary \in Nat
      BY <2>1 DEF Request
    <3>3. /\ detail' \in Detail
          /\ detail'.ai_summary = request[r].summary /\ detail'.steps = detail.steps
          /\ detail'.conversation_id = detail.conversation_id
      BY <3>1, <3>2 DEF Detail
    <3>4. detail' # None
      BY <3>3, DetailAssumption
    <3> QED
      BY <3>1, <3>3, <3>4
  <2> QED
    BY <2>2, <2>3
<1>4. /\ request' \in [Requests -> Request]
      /\ \A q \in Requests : request'[q] = IF q = r THEN NoRequest ELSE request[q]
  BY <1>2, NothingAwaited, RequestUpdate DEF PageInv
<1>5. \A q \in Requests : Summing(q)' => Summing(q) /\ q # r
  BY <1>4, NothingAwaited DEF Summing
<1>6. /\ astray' \in BOOLEAN /\ (astray => astray')
      /\ ~astray' => \/ request[r].at # "done"
                     \/ detail # None => detail'.ai_summary = request[r].summary
  <2>1. CASE ShowSummary(r)
    BY <2>1 DEF ShowSummary, PageInv, AdminTypeOK
  <2>2. CASE SummaryFails(r)
    BY <2>2 DEF SummaryFails, PageInv, AdminTypeOK
  <2> QED
    BY <2>1, <2>2
<1>7. ShownGood' /\ StepsFollowed' /\ \A f \in Fetches : Fetching(f)' <=> Fetching(f)
  BY <1>2, <1>3, <1>6, ReadsStay DEF ShowSummary, SummaryFails
<1>8. ~astray' => /\ \A f \in Fetches : ~Fetching(f)'
                  /\ \A q \in Requests : ~Summing(q)'
                  /\ deciding = None
  BY <1>2, <1>5, <1>6, <1>7 DEF PageInv, OneAwaited
<1>9. AdminTypeOK'
  BY <1>1, <1>2, <1>3, <1>4, <1>6 DEF PageInv, AdminTypeOK
<1>10. AwaitedGood'
  BY <1>1, <1>2, <1>4, <1>5, <1>7 DEF PageInv, AwaitedGood
<1>11. OneAwaited'
  BY <1>2, <1>8 DEF OneAwaited
<1>12. AnswersCurrent'
  <2>1. ASSUME ~astray' PROVE ShowsCurrent'
    <3>1. /\ detail # None => detail.conversation_id = selected
          /\ IF request[r].at = "done" THEN request[r].summary = stored[selected]
                                       ELSE ShowsCurrent
      BY <1>2, <1>6, <2>1 DEF PageInv, AnswersCurrent
    <3> QED
      BY <1>2, <1>3, <1>6, <2>1, <3>1 DEF ShowsCurrent, Current
  <2> QED
    BY <1>2, <1>8, <2>1 DEF AnswersCurrent
<1> QED
  BY <1>1, <1>7, <1>9, <1>10, <1>11, <1>12 DEF PageInv

LEMMA DecideKeeps ==
  ASSUME TraceInv, PageInv, Decide \/ NotDecided
  PROVE  TraceInv' /\ PageInv'
<1>1. TraceInv' /\ TraceTypeOK' /\ UNCHANGED <<agentSteps, lastId, queue>>
  BY PageOnly DEF Decide, NotDecided
<1>2. UNCHANGED <<selected, detail, events, summarizing, fetch, request, stored, summaries,
                  missed>>
  BY DEF Decide, NotDecided
<1>3. /\ deciding' \in Cases \cup {None} /\ clicks' \in Nat /\ (astray => astray')
      /\ (deciding' # None => selected # None)
  BY DEF Decide, NotDecided, Click, PageInv, AdminTypeOK
<1>4. astray' \in BOOLEAN
  BY DEF Decide, NotDecided, OnItsWay, PageInv, AdminTypeOK
<1>5. ~astray' /\ deciding' # None => /\ \A f \in Fetches : ~Fetching(f)
                                      /\ \A r \in Requests : ~Summing(r)
                                      /\ deciding' = selected
  BY DEF Decide, NotDecided, OnItsWay, Fetching, Summing
<1>6. /\ \A r \in Requests : Summing(r)' <=> Summing(r)
      /\ ShowsCurrent' <=> ShowsCurrent
  BY <1>2 DEF Summing, ShowsCurrent, Current
<1>7. ShownGood' /\ StepsFollowed' /\ \A f \in Fetches : Fetching(f)' <=> Fetching(f)
  BY <1>2, <1>3, ReadsStay DEF Decide, NotDecided
<1>8. AdminTypeOK'
  BY <1>1, <1>2, <1>3, <1>4 DEF PageInv, AdminTypeOK
<1>9. AwaitedGood'
  BY <1>1, <1>2, <1>3, <1>6, <1>7 DEF PageInv, AwaitedGood
<1>10. OneAwaited'
  BY <1>2, <1>3, <1>5, <1>6, <1>7 DEF PageInv, OneAwaited
<1>11. AnswersCurrent'
  <2>1. \A d : Current(d)' <=> Current(d)
    BY <1>2 DEF Current
  <2>2. \A f \in Fetches : Current(fetch[f].detail)' <=> Current(fetch[f].detail)
    BY <1>2 DEF Current
  <2>3. ~astray' => ~astray
    BY <1>3
  <2> QED
    BY <1>2, <1>5, <1>6, <1>7, <2>2, <2>3 DEF PageInv, AnswersCurrent
<1> QED
  BY <1>1, <1>7, <1>8, <1>9, <1>10, <1>11 DEF PageInv
-----------------------------------------------------------------------------
LEMMA PageInitInv ==
  ASSUME AdminInit PROVE TraceInv /\ PageInv
<1>1. TraceInv /\ TraceTypeOK
  BY TraceInitInv DEF AdminInit, TraceInv
<1>2. /\ \A f \in Fetches : fetch[f] = NoFetch
      /\ \A r \in Requests : request[r] = NoRequest
      /\ agentSteps = {} /\ detail = None /\ events = {} /\ deciding = None
  BY DEF AdminInit, TraceInit
<1>3. \A e : ~Fresh(e)
  BY OffIsTracer DEF AdminInit, TraceInit, Fresh
<1>4. AdminTypeOK
  <2>1. fetch \in [Fetches -> Fetch] /\ request \in [Requests -> Request]
    BY NothingAwaited DEF AdminInit
  <2>2. stored \in [Cases -> 0..summaries] /\ summaries \in Nat /\ clicks \in Nat
    BY DEF AdminInit
  <2>3. summarizing = FALSE /\ astray = FALSE /\ selected = None /\ missed = {}
    BY DEF AdminInit
  <2> QED
    BY <1>1, <1>2, <2>1, <2>2, <2>3 DEF AdminTypeOK
<1>5. AwaitedGood /\ ShownGood /\ OneAwaited /\ AnswersCurrent
  BY <1>2, NothingAwaited
  DEF AwaitedGood, ShownGood, OneAwaited, AnswersCurrent, ShowsCurrent, Fetching, Summing
<1>6. StepsFollowed
  BY <1>2, <1>3 DEF StepsFollowed
<1> QED
  BY <1>1, <1>4, <1>5, <1>6 DEF PageInv

LEMMA PageStutters ==
  ASSUME TraceInv, PageInv, UNCHANGED adminVars
  PROVE  TraceInv' /\ PageInv'
<1>1. UNCHANGED traceVars /\ UNCHANGED pageVars
  BY DEF adminVars
<1>2. /\ TraceInv' /\ TraceTypeOK' /\ UNCHANGED <<agentSteps, lastId, queue>>
      /\ \A e : /\ Fresh(e)' <=> Fresh(e)
                /\ Published(e)' <=> Published(e)
  BY <1>1, PageOnly
<1>3. UNCHANGED <<selected, detail, events, summarizing, fetch, request, deciding, stored,
                  summaries, clicks, missed, astray>>
  BY <1>1 DEF pageVars
<1>4. AdminTypeOK' /\ AwaitedGood' /\ OneAwaited'
  BY <1>2, <1>3 DEF PageInv, AdminTypeOK, AwaitedGood, OneAwaited, Fetching, Summing
<1>5. ShownGood' /\ StepsFollowed'
  BY <1>1, <1>3, ReadsStay
<1>6. AnswersCurrent'
  BY <1>3 DEF PageInv, AnswersCurrent, ShowsCurrent, Current, Fetching, Summing
<1> QED
  BY <1>2, <1>4, <1>5, <1>6 DEF PageInv

LEMMA PageInvariant == AdminSpec => [](TraceInv /\ PageInv)
<1>1. AdminInit => TraceInv /\ PageInv
  BY PageInitInv
<1>2. TraceInv /\ PageInv /\ [AdminNext]_adminVars => TraceInv' /\ PageInv'
  <2> SUFFICES ASSUME TraceInv, PageInv, [AdminNext]_adminVars PROVE TraceInv' /\ PageInv'
    OBVIOUS
  <2>1. CASE \E w \in Tracers : TurnGoesOn(w)
    BY <2>1, TurnStep
  <2>2. CASE Connect \/ Deliver \/ Disconnect
    BY <2>2, StreamStep
  <2>3. CASE \E c \in Cases : Select(c)
    BY <2>3, SelectKeeps
  <2>4. CASE \E f \in Fetches : ReadCase(f) \/ ShowCase(f) \/ FetchFails(f)
    BY <2>4, ReadCaseKeeps, ShowCaseKeeps, FetchFailsKeeps
  <2>5. CASE \E r \in Requests :
               Summarize(r) \/ WriteSummary(r) \/ ShowSummary(r) \/ SummaryFails(r)
    BY <2>5, SummarizeKeeps, WriteSummaryKeeps, SummaryEnds
  <2>6. CASE Decide \/ Decided \/ NotDecided
    BY <2>6, DecideKeeps, DecidedKeeps
  <2>7. CASE UNCHANGED adminVars
    BY <2>7, PageStutters
  <2> QED
    BY <2>1, <2>2, <2>3, <2>4, <2>5, <2>6, <2>7 DEF AdminNext
<1> QED
  BY <1>1, <1>2, PTL DEF AdminSpec
-----------------------------------------------------------------------------
\* The variables of the trace and of the page keep their types.
THEOREM AdminTypes == AdminSpec => []AdminTypeOK
BY PageInvariant, PTL DEF PageInv

\* What is stored of a turn is its first steps, without a hole, and a turn that has
\* ended without an error is stored to its end, wherever its tools committed.
THEOREM TraceIsWhole == AdminSpec => []DurableTraceIsWhole
BY PageInvariant, PTL DEF TraceInv

\* A page that never awaited two answers at a time, nor lost one, shows the selected
\* case with its stored summary whenever nothing is on its way.
THEOREM PageIsCurrent == AdminSpec => []SettledPageIsCurrent
<1>1. PageInv => SettledPageIsCurrent
  BY DEF PageInv, AnswersCurrent, ShowsCurrent, Current, SettledPageIsCurrent, OnItsWay,
         Fetching, Summing
<1> QED
  BY <1>1, PageInvariant, PTL

\* Whatever the order of reads, streamed steps and commits, each durable step of the
\* case that is shown is on the page, on the stream, or was published without one.
THEOREM DurableSeen == AdminSpec => []DurableStepsAreSeen
<1>1. PageInv => DurableStepsAreSeen
  <2> SUFFICES ASSUME PageInv, ~astray, \A f \in Fetches : ~fetch[f].selecting,
                      detail # None, detail.conversation_id = selected,
                      NEW r \in agentSteps, r.conversation_id = selected
               PROVE  r \in LiveSteps \/ r.id \in missed \/ r \in ToSet(queue[Page])
    BY DEF DurableStepsAreSeen
  <2>1. Streamed(r) \/ r \in detail.steps
    BY DEF PageInv, StepsFollowed
  <2> QED
    BY <2>1 DEF Streamed, LiveSteps
<1> QED
  BY <1>1, PageInvariant, PTL

\* A step that is shown and not durable is of a turn that runs, or that has failed and
\* was rolled back: no step of a turn that ended well is shown and then not stored.
THEOREM SeenDurable == AdminSpec => []SeenStepsBecomeDurable
<1>1. TraceInv /\ PageInv => SeenStepsBecomeDurable
  <2> SUFFICES ASSUME TraceInv, PageInv, NEW e \in LiveSteps, e \notin agentSteps
               PROVE  e.turn \in Running \cup failed
    BY DEF SeenStepsBecomeDurable
  <2>1. Published(e)
    BY DEF LiveSteps, PageInv, ShownGood
  <2>2. CASE Fresh(e)
    <3>1. PICK w \in Tracers : e \in ToSet(tracer[w].steps)
      BY <2>2 DEF Fresh
    <3>2. tracer[w] # Off
      BY <3>1, OffIsTracer
    <3> QED
      BY <3>1, <3>2, TurnOn DEF TraceInv
  <2> QED
    BY <2>1, <2>2 DEF Published, Recorded
<1> QED
  BY <1>1, PageInvariant, PTL
=============================================================================
