------------------------------ MODULE AdminPage ------------------------------
(***************************************************************************)
(* The admin's page (frontend/src/pages/AdminPage.tsx, hooks/useSSE.ts,    *)
(* lib/adminTrace.ts) over the live stream and the case service            *)
(* (cases/service.py).                                                     *)
(*                                                                         *)
(* The page shows one case: what a fetch of it returned, merged with the   *)
(* steps that came over the stream.  An answer is applied when it arrives, *)
(* whatever is selected by then.                                           *)
(***************************************************************************)
EXTENDS TraceStream, FiniteSets

CONSTANTS
  Page,          \* the subscriber that is this page
  Fetches,       \* the case reads that may be on their way at one time
  Requests,      \* the summaries that may be
  MaxJobs        \* bound on the turns begun and the clicks of the manager, together

ASSUME PageAssumption == Page \in Streams /\ MaxJobs \in Nat

VARIABLES
  selected,    \* selectedId
  detail,      \* detail
  events,      \* what came over the stream
  summarizing, \* the page waits for a summary
  fetch,       \* GET /admin/cases/{id}
  request,     \* POST /admin/cases/{id}/summary
  deciding,    \* POST /admin/escalations/{id}/resolve: what is fetched after it
  stored,      \* conversations.ai_summary
  summaries,   \* how many summaries were stored
  clicks,      \* how many times the manager has clicked
  missed,      \* history: the ids published without a stream and not read since
  astray       \* history: two answers were awaited at a time, or one was lost

pageVars == <<selected, detail, events, summarizing, fetch, request, deciding, stored,
              summaries, clicks, missed, astray>>
adminVars == <<traceVars, pageVars>>
-----------------------------------------------------------------------------
\* Summaries are told apart by their number; 0 is none.
Detail == [conversation_id : Cases, steps : SUBSET Step, ai_summary : Nat]
ASSUME DetailAssumption == None \notin Detail

Fetch == [at : {"none", "asked", "read"}, of : Cases \cup {None},
          selecting : BOOLEAN,    \* for a newly selected case
          detail : Detail \cup {None}]
Request == [at : {"none", "thinking", "done"}, of : Cases \cup {None}, summary : Nat]

NoFetch == [at |-> "none", of |-> None, selecting |-> FALSE, detail |-> None]
NoRequest == [at |-> "none", of |-> None, summary |-> 0]

OnItsWay ==
  \/ \E f \in Fetches : fetch[f].at # "none"
  \/ \E r \in Requests : request[r].at # "none"
  \/ deciding # None

\* liveSteps: mergeSteps of what was read and what was streamed.
LiveSteps ==
  IF detail = None THEN {}
  ELSE detail.steps \cup {e \in events : e.conversation_id = selected}

Click == runs + clicks < MaxJobs /\ clicks' = clicks + 1
-----------------------------------------------------------------------------
AdminInit ==
  /\ TraceInit
  /\ selected = None /\ detail = None /\ events = {} /\ summarizing = FALSE
  /\ fetch = [f \in Fetches |-> NoFetch] /\ request = [r \in Requests |-> NoRequest]
  /\ deciding = None /\ stored = [c \in Cases |-> 0]
  /\ summaries = 0 /\ clicks = 0 /\ missed = {} /\ astray = FALSE

\* A turn takes a step; what it publishes without a stream is missed.
TurnGoesOn(w) ==
  /\ RunStep(w) /\ runs' + clicks <= MaxJobs
  /\ missed' = IF Page \in connected THEN missed ELSE missed \cup (lastId + 1 .. lastId')
  /\ UNCHANGED <<selected, detail, events, summarizing, fetch, request, deciding, stored,
                 summaries, clicks, astray>>

\* Mutant: each connection starts with an empty list.
ConnectAfresh ==
  /\ Subscribe(Page)
  /\ events' = {}
  /\ UNCHANGED <<selected, detail, summarizing, fetch, request, deciding, stored,
                 summaries, clicks, missed, astray>>

\* The EventSource opens, for the first time or again.  What was streamed is kept.
Connect ==
  /\ Subscribe(Page)
  /\ UNCHANGED pageVars

Deliver ==
  /\ Take(Page)
  /\ events' = events \cup {Head(queue[Page])}
  /\ UNCHANGED <<selected, detail, summarizing, fetch, request, deciding, stored,
                 summaries, clicks, missed, astray>>

Disconnect ==
  /\ Unsubscribe(Page)
  /\ missed' = missed \cup {e.id : e \in ToSet(queue[Page])}
  /\ UNCHANGED <<selected, detail, events, summarizing, fetch, request, deciding, stored,
                 summaries, clicks, astray>>
-----------------------------------------------------------------------------
Ask(f, c, selecting) ==
  /\ fetch[f].at = "none"
  /\ fetch' = [fetch EXCEPT ![f] =
       [NoFetch EXCEPT !.at = "asked", !.of = c, !.selecting = selecting]]

\* A case is clicked, or the first of the list is taken.
Select(c) ==
  /\ c # selected /\ Click
  /\ selected' = c /\ summarizing' = FALSE
  /\ \E f \in Fetches : Ask(f, c, TRUE)
  /\ astray' = OnItsWay
  /\ UNCHANGED <<traceVars, detail, events, request, deciding, stored, summaries,
                 missed>>

\* get_case_detail: the rows that are committed.
ReadCase(f) ==
  /\ fetch[f].at = "asked"
  /\ fetch' = [fetch EXCEPT ![f].at = "read", ![f].detail =
       [conversation_id |-> fetch[f].of,
        steps |-> {r \in agentSteps : r.conversation_id = fetch[f].of},
        ai_summary |-> stored[fetch[f].of]]]
  /\ UNCHANGED <<traceVars, selected, detail, events, summarizing, request, deciding,
                 stored, summaries, clicks, missed, astray>>

\* The answer: it is shown, whichever case is selected.
ShowCase(f) ==
  /\ fetch[f].at = "read"
  /\ detail' = fetch[f].detail
  /\ missed' = missed \ {r.id : r \in fetch[f].detail.steps}
  /\ fetch' = [fetch EXCEPT ![f] = NoFetch]
  /\ UNCHANGED <<traceVars, selected, events, summarizing, request, deciding, stored,
                 summaries, clicks, astray>>

\* The read fails.  The fetch after a selection clears the page.
FetchFails(f) ==
  /\ fetch[f].at # "none"
  /\ detail' = IF fetch[f].selecting THEN None ELSE detail
  /\ fetch' = [fetch EXCEPT ![f] = NoFetch]
  /\ UNCHANGED <<traceVars, selected, events, summarizing, request, deciding, stored,
                 summaries, clicks, missed, astray>>
-----------------------------------------------------------------------------
\* handleSummarize up to its await.  The button is not there while one is written.
Summarize(r) ==
  /\ detail # None /\ ~summarizing /\ request[r].at = "none" /\ Click
  /\ summarizing' = TRUE
  /\ request' = [request EXCEPT ![r] = [NoRequest EXCEPT !.at = "thinking", !.of = selected]]
  /\ astray' = (astray \/ OnItsWay)
  /\ UNCHANGED <<traceVars, selected, detail, events, fetch, deciding, stored, summaries,
                 missed>>

\* Mutant: the summary is returned and not cached.
WriteNoSummary(r) ==
  /\ request[r].at = "thinking"
  /\ summaries' = summaries + 1
  /\ request' = [request EXCEPT ![r].at = "done", ![r].summary = summaries + 1]
  /\ UNCHANGED <<traceVars, selected, detail, events, summarizing, fetch, deciding,
                 stored, clicks, missed, astray>>

\* generate_case_summary: the model has answered, the summary is stored.
WriteSummary(r) ==
  /\ request[r].at = "thinking"
  /\ summaries' = summaries + 1
  /\ stored' = [stored EXCEPT ![request[r].of] = summaries + 1]
  /\ request' = [request EXCEPT ![r].at = "done", ![r].summary = summaries + 1]
  /\ UNCHANGED <<traceVars, selected, detail, events, summarizing, fetch, deciding,
                 clicks, missed, astray>>

\* The summary is put on the case that is shown.
ShowSummary(r) ==
  /\ request[r].at = "done"
  /\ detail' = IF detail = None THEN None
               ELSE [detail EXCEPT !.ai_summary = request[r].summary]
  /\ request' = [request EXCEPT ![r] = NoRequest]
  /\ summarizing' = FALSE
  /\ UNCHANGED <<traceVars, selected, events, fetch, deciding, stored, summaries,
                 clicks, missed, astray>>

\* Mutant: only a summary that came ends the waiting.
SummaryFailsWaiting(r) ==
  /\ request[r].at # "none"
  /\ astray' = (astray \/ request[r].at = "done")
  /\ request' = [request EXCEPT ![r] = NoRequest]
  /\ UNCHANGED <<traceVars, selected, detail, events, summarizing, fetch, deciding,
                 stored, summaries, clicks, missed>>

\* The model fails, or the answer is lost after the summary was stored.
SummaryFails(r) ==
  /\ request[r].at # "none"
  /\ astray' = (astray \/ request[r].at = "done")
  /\ request' = [request EXCEPT ![r] = NoRequest]
  /\ summarizing' = FALSE
  /\ UNCHANGED <<traceVars, selected, detail, events, fetch, deciding, stored, summaries,
                 clicks, missed>>
-----------------------------------------------------------------------------
\* handleResolve up to its await.
Decide ==
  /\ detail # None /\ deciding = None
  /\ Click
  /\ deciding' = selected
  /\ astray' = (astray \/ OnItsWay)
  /\ UNCHANGED <<traceVars, selected, detail, events, summarizing, fetch, request,
                 stored, summaries, missed>>

\* It was decided: the case that was selected at the click is fetched again.
Decided ==
  /\ deciding # None
  /\ \E f \in Fetches : Ask(f, deciding, FALSE)
  /\ deciding' = None
  /\ UNCHANGED <<traceVars, selected, detail, events, summarizing, request, stored,
                 summaries, clicks, missed, astray>>

\* 404: the ticket was resolved before.  Nothing is fetched.
NotDecided ==
  /\ deciding # None
  /\ deciding' = None
  /\ UNCHANGED <<traceVars, selected, detail, events, summarizing, fetch, request,
                 stored, summaries, clicks, missed, astray>>
-----------------------------------------------------------------------------
AdminNext ==
  \/ \E w \in Tracers : TurnGoesOn(w)
  \/ Connect \/ Deliver \/ Disconnect
  \/ \E c \in Cases : Select(c)
  \/ \E f \in Fetches : ReadCase(f) \/ ShowCase(f) \/ FetchFails(f)
  \/ \E r \in Requests :
       Summarize(r) \/ WriteSummary(r) \/ ShowSummary(r) \/ SummaryFails(r)
  \/ Decide \/ Decided \/ NotDecided

AdminSpec == AdminInit /\ [][AdminNext]_adminVars
-----------------------------------------------------------------------------
\* The variables of the page keep their types; a wait for a summary is of a request.
AdminTypeOK ==
  /\ TraceTypeOK
  /\ selected \in Cases \cup {None} /\ detail \in Detail \cup {None}
  /\ detail # None => selected # None
  /\ events \subseteq Step /\ summarizing \in BOOLEAN /\ astray \in BOOLEAN
  /\ fetch \in [Fetches -> Fetch] /\ request \in [Requests -> Request]
  /\ deciding \in Cases \cup {None}
  /\ stored \in [Cases -> 0..summaries] /\ summaries \in Nat /\ clicks \in Nat
  /\ missed \subseteq 1..lastId
  /\ summarizing => \E r \in Requests : request[r].at # "none"

\* When nothing is on its way, the page shows the case that is selected, with the
\* summary that is stored for it -- unless two answers were awaited at a time since
\* the last quiet selection, or one was lost (handleSummarize and handleResolve apply
\* their answers whatever is selected by then).
SettledPageIsCurrent ==
  ~astray /\ ~OnItsWay /\ detail # None =>
    /\ detail.conversation_id = selected
    /\ detail.ai_summary = stored[selected]

\* A step that is durable is seen on its case, in what was read or in what was
\* streamed, wherever the read fell among the steps and the commits of the turn.  All
\* but the steps published while the stream was down: they wait for the next read, and
\* what was shown before a selection stands until its own read is there.
DurableStepsAreSeen ==
  (/\ ~astray /\ \A f \in Fetches : ~fetch[f].selecting
   /\ detail # None /\ detail.conversation_id = selected) =>
    \A r \in agentSteps :
      r.conversation_id = selected =>
        r \in LiveSteps \/ r.id \in missed \/ r \in ToSet(queue[Page])

\* A step that is seen and not durable is of a turn that still runs or has failed.
SeenStepsBecomeDurable ==
  \A e \in LiveSteps \ agentSteps : e.turn \in Running \cup failed
-----------------------------------------------------------------------------
\* mergeSteps sorts by step_no; among equals the one stored first comes first.
SortedBefore(q, r) == q.step_no < r.step_no \/ (q.step_no = r.step_no /\ q.id < r.id)

\* deriveTrace: the arguments shown with a result are those of the last call before it.
\* All calls are of one tool.
PendingCalls(r) == {q \in LiveSteps : q.type = "tool_call" /\ SortedBefore(q, r)}
ShownWith(r) ==
  {q \in PendingCalls(r) : \A p \in PendingCalls(r) \ {q} : SortedBefore(p, q)}

\* adminTrace.ts:129: "Tool args live on the tool_call step; pair them with the
\* following tool_result."  For turns that did not fail.
ResultIsPairedWithItsCall ==
  \A r \in LiveSteps :
    r.type = "tool_result" /\ r.turn \notin failed =>
      \A q \in ShownWith(r) : q.turn = r.turn /\ q.step_no + 1 = r.step_no
=============================================================================
