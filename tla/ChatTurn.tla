------------------------------- MODULE ChatTurn -------------------------------
(***************************************************************************)
(* One chat turn end to end: POST /chat (api/routes/chat.py), the runner   *)
(* (agent/runner.py), the agent loop (agent/loop.py) and its tools         *)
(* (agent/tools.py), on top of the database and the service layer of       *)
(* RefundService.                                                          *)
(*                                                                         *)
(* The language model is unconstrained: it may fail, answer or ask for any *)
(* tools with any arguments whenever it is called.  What a turn may do     *)
(* besides is the code's.  An order id the model made up is None here: the *)
(* tools find no such order and neither does _focused_order.               *)
(*                                                                         *)
(* The transcript and the trace (tables messages and agent_steps) feed     *)
(* nothing but the model's prompt and the admin pages and are left out.    *)
(***************************************************************************)
EXTENDS RefundService

CONSTANTS
  Reasons,     \* conversations.refund_reason: what customers state
  MaxSteps,    \* settings.max_steps: model responses per turn
  MaxRetries,  \* max_retries: how often a failed model call is repeated
  MaxCalls     \* bound: tool calls in one response

ASSUME ChatAssumption ==
  /\ MaxSteps \in Nat \ {0} /\ MaxCalls \in Nat \ {0} /\ MaxRetries \in Nat
  /\ TurnVerdicts = Verdicts \cup {None}
  /\ None \notin Orders \cup Verdicts \cup Reasons

VARIABLES
  thread,  \* the other columns of table conversations
  draft,   \* each turn's instance of its row: as loaded, and as modified
  loop     \* the runner and the agent loop of each turn

chatVars == <<vars, thread, draft, loop>>
-----------------------------------------------------------------------------
Thread == [customer_id : CustomerIds \cup {None}, order_id : Orders \cup {None},
           refund_reason : Reasons \cup {None}, status : {"active", "closed"}]
Draft == [loaded : Thread, current : Thread]

Loop == [at : {"off", "asking", "calling", "finishing", "ticketing",
               "backstop", "replying"},
         step : 0..MaxSteps, attempt : 0..MaxRetries, calls : 0..MaxCalls,
         verdict : MaybeVerdict, focus : Orders \cup {None},
         ticket : Nat \cup {None},
         decided : Orders \cup {None},   \* history: the order verdict is about
         settled : SUBSET Nat]           \* history: tickets resolved before the turn

IdleLoop == [at |-> "off", step |-> 0, attempt |-> 0, calls |-> 0,
             verdict |-> None, focus |-> None, ticket |-> None,
             decided |-> None, settled |-> {}]

FreshThread == [customer_id |-> None, order_id |-> None, refund_reason |-> None,
                status |-> "active"]
NoDraft == [loaded |-> FreshThread, current |-> FreshThread]

TicketOrder(e) == requests[escalations[e].refund_request_id].order
TicketsOf(c) ==
  {e \in DOMAIN escalations : requests[escalations[e].refund_request_id].conversation = c}

Latest(tickets) == CHOOSE e \in tickets : \A f \in tickets : f <= e
Oldest(tickets) == CHOOSE e \in tickets : \A f \in tickets : e <= f

\* Mutant: a commit writes the whole row.
CommitsRow(t, d) ==
  /\ thread' = [thread EXCEPT ![session[t].conversation] = d.current]
  /\ draft' = [draft EXCEPT ![t] = [loaded |-> d.current, current |-> d.current]]

\* A commit of turn t writes the columns its instance d changed.
Commits(t, d) ==
  LET c == session[t].conversation
  IN  /\ thread' = [thread EXCEPT ![c] = [col \in DOMAIN @ |->
                      Written(d.loaded[col], d.current[col], @[col])]]
      /\ draft' = [draft EXCEPT ![t] = [loaded |-> d.current, current |-> d.current]]

\* A tool assigns a column of the turn's instance.  The trace of every call is flushed,
\* and the row with it: a value replaced later in the turn has been written already, and
\* changing back to it is a change that is written again.
Assigned(d, column, value) ==
  IF value = d.current[column] THEN d
  ELSE [loaded |-> [d.loaded EXCEPT ![column] = d.current[column]],
        current |-> [d.current EXCEPT ![column] = value]]

Stays(t, at) == pc[t] = "open" /\ loop[t].at = at

\* Mutant: the loop does not stop at MaxSteps.
ReturnedUncapped(l) ==
  IF l.calls > 1 THEN [l EXCEPT !.calls = @ - 1]
  ELSE [l EXCEPT !.calls = 0, !.attempt = 0, !.at = "asking"]

\* The loop once the current tool call has returned: the next call, the next
\* model response, or the end because MAX_STEPS responses are used up.
Returned(l) ==
  IF l.calls > 1 THEN [l EXCEPT !.calls = @ - 1]
  ELSE [l EXCEPT !.calls = 0, !.attempt = 0,
                 !.at = IF l.step = MaxSteps THEN "finishing" ELSE "asking"]

\* _next_verdict, for a result that settles order o one way.
NextVerdict(l, o, verdict) == [l EXCEPT !.verdict = verdict, !.decided = o]
-----------------------------------------------------------------------------
ChatInit ==
  /\ Init
  /\ thread = [c \in Conversations |-> FreshThread]
  /\ draft = [t \in Turns |-> NoDraft]
  /\ loop = [t \in Turns |-> IdleLoop]

\* POST /chat refuses a closed conversation before anything else; nothing else does.
AcceptsChat(c) == thread[c].status # "closed"

\* The signed-in customer counts only while the conversation has none on file.
KnownCustomer(c, signedIn) ==
  IF thread[c].customer_id = None THEN signedIn ELSE thread[c].customer_id

\* run_chat_turn up to the first model call.  A conversation not used before stands
\* for one that is created by this call.
StartTurn(t, c, signedIn) ==
  /\ OpenSession(t, c, KnownCustomer(c, signedIn))
  /\ draft' = [draft EXCEPT ![t] = [loaded |-> thread[c],
       current |-> [thread[c] EXCEPT !.customer_id = KnownCustomer(c, signedIn)]]]
  /\ loop' = [loop EXCEPT ![t] = [IdleLoop EXCEPT !.at = "asking",
       !.settled = {e \in DOMAIN escalations : escalations[e].status = "resolved"}]]
  /\ UNCHANGED thread

ChatRequest(t, c, signedIn) == AcceptsChat(c) /\ StartTurn(t, c, signedIn)

\* The agent bridge of a call runs its turns without asking whether the chat is closed.
VoiceTurn(t, c, signedIn) == StartTurn(t, c, signedIn)

\* The provider raises: the call is repeated after a pause, and after MaxRetries
\* repetitions the turn ends with the failure message and the verdict so far.
LlmFails(t) ==
  /\ Stays(t, "asking")
  /\ loop' = [loop EXCEPT ![t] =
       IF @.attempt < MaxRetries THEN [@ EXCEPT !.attempt = loop[t].attempt + 1]
                                 ELSE [@ EXCEPT !.at = "finishing"]]
  /\ UNCHANGED <<vars, thread, draft>>

\* Mutant: a response with tool calls does not count as a step.
LlmCallsUncounted(t, n) ==
  /\ Stays(t, "asking")
  /\ loop' = [loop EXCEPT ![t] = [@ EXCEPT !.at = "calling", !.calls = n]]
  /\ UNCHANGED <<vars, thread, draft>>

LlmCalls(t, n) ==
  /\ Stays(t, "asking")
  /\ loop' = [loop EXCEPT ![t] =
       [@ EXCEPT !.at = "calling", !.step = loop[t].step + 1, !.calls = n]]
  /\ UNCHANGED <<vars, thread, draft>>

LlmAnswers(t) ==
  /\ Stays(t, "asking")
  /\ loop' = [loop EXCEPT ![t].at = "finishing"]
  /\ UNCHANGED <<vars, thread, draft>>
-----------------------------------------------------------------------------
\* Mutant: lookup_customer does not put the customer on file.
LookupToolOffFile(t, customer) ==
  /\ Stays(t, "calling")
  /\ LookupCustomer(t, customer)
  /\ loop' = [loop EXCEPT ![t] = Returned(@)]
  /\ UNCHANGED <<thread, draft>>

\* lookup_customer, when it finds somebody.
LookupTool(t, customer) ==
  /\ Stays(t, "calling")
  /\ LookupCustomer(t, customer)
  /\ draft' = [draft EXCEPT ![t] = Assigned(@, "customer_id", customer)]
  /\ loop' = [loop EXCEPT ![t] = Returned(@)]
  /\ UNCHANGED thread

\* get_order, and every call whose only trace is the order it names last: an order
\* that does not exist, a tool that does not exist, wrong arguments.
GetOrderTool(t, o) ==
  /\ Stays(t, "calling")
  /\ loop' = [loop EXCEPT ![t] = Returned([@ EXCEPT !.focus = o])]
  /\ UNCHANGED <<vars, thread, draft>>

\* list_customer_orders, request_more_info, get_policy_section and a lookup that
\* finds nobody name no order and change nothing.
ReadOnlyTool(t) ==
  /\ Stays(t, "calling")
  /\ loop' = [loop EXCEPT ![t] = Returned(@)]
  /\ UNCHANGED <<vars, thread, draft>>

RecordReasonTool(t, reason) ==
  /\ Stays(t, "calling")
  /\ draft' = [draft EXCEPT ![t] = Assigned(@, "refund_reason", reason)]
  /\ loop' = [loop EXCEPT ![t] = Returned(@)]
  /\ UNCHANGED <<vars, thread>>

\* Without a customer the check answers with an error and no verdict.
CheckTool(t, o) ==
  /\ Stays(t, "calling")
  /\ LET named == [loop[t] EXCEPT !.focus = o]
     IN  loop' = [loop EXCEPT ![t] = Returned(
           IF session[t].customer = None THEN named
           ELSE NextVerdict(named, o, Answer(t, o).verdict))]
  /\ UNCHANGED <<vars, thread, draft>>

\* A refused refund does not touch the verdict.
IssueToolRefused(t, o) ==
  /\ Stays(t, "calling")
  /\ ~(session[t].customer # None /\ Approves(t, o, View(t, o).refunded_at))
  /\ loop' = [loop EXCEPT ![t] = Returned([@ EXCEPT !.focus = o])]
  /\ UNCHANGED <<vars, thread, draft>>

IssueTool(t, o) ==
  /\ Stays(t, "calling")
  /\ IssueRefund(t, o)
  /\ loop' = [loop EXCEPT ![t].focus = o]
  /\ UNCHANGED <<thread, draft>>

\* The commit inside the tool also makes the turn's other changes durable.
IssueToolCommit(t) ==
  /\ CommitRefund(t)
  /\ Commits(t, draft[t])
  /\ loop' = [loop EXCEPT ![t] = Returned(NextVerdict(@, call[t].order, "approve"))]

\* An order with an open ticket keeps it, whoever opened it.
EscalateToolReuses(t, o) ==
  /\ Stays(t, "calling")
  /\ OpenTickets(o) # {}
  /\ loop' = [loop EXCEPT ![t] = Returned(NextVerdict([@ EXCEPT !.focus = o], o, "escalate"))]
  /\ UNCHANGED <<vars, thread, draft>>

EscalateTool(t, o) ==
  /\ Stays(t, "calling")
  /\ Escalate(t, o)
  /\ loop' = [loop EXCEPT ![t].focus = o]
  /\ UNCHANGED <<thread, draft>>

EscalateToolCommit(t) ==
  /\ loop[t].at = "calling"
  /\ CommitEscalation(t)
  /\ Commits(t, draft[t])
  /\ loop' = [loop EXCEPT ![t] = Returned(NextVerdict(@, call[t].order, "escalate"))]
-----------------------------------------------------------------------------
\* The runner stores the answer, the verdict unless there is none, and the order
\* named last if there is such an order.
FinishTurn(t) ==
  /\ loop[t].at = "finishing"
  /\ CommitTurn(t, loop[t].verdict)
  /\ Commits(t, [draft[t] EXCEPT !.current.order_id =
       IF loop[t].focus = None THEN @ ELSE loop[t].focus])
  /\ loop' = [loop EXCEPT ![t].at = IF loop[t].verdict = "escalate"
                                   THEN "ticketing" ELSE "replying"]

\* Mutant: the runner trusts the model to have called escalate_to_manager.
TicketRefOnly(t) ==
  /\ Stays(t, "ticketing")
  /\ LET mine == TicketsOf(session[t].conversation)
     IN  loop' = [loop EXCEPT ![t].at = "replying",
           ![t].ticket = IF mine = {} THEN None ELSE Latest(mine)]
  /\ UNCHANGED <<vars, thread, draft>>

\* _ticket_ref: the newest ticket of the conversation, whatever order it is for and
\* whether or not it is still open.  Without one the backstop opens one, if it
\* knows the order and the customer.
TicketRef(t) ==
  /\ Stays(t, "ticketing")
  /\ LET mine == TicketsOf(session[t].conversation)
     IN  loop' = [loop EXCEPT ![t] =
           IF mine # {} THEN [@ EXCEPT !.ticket = Latest(mine), !.at = "replying"]
           ELSE IF @.focus # None /\ session[t].customer # None
                THEN [@ EXCEPT !.at = "backstop"] ELSE [@ EXCEPT !.at = "replying"]]
  /\ UNCHANGED <<vars, thread, draft>>

BackstopReuses(t) ==
  /\ Stays(t, "backstop")
  /\ OpenTickets(loop[t].focus) # {}
  /\ loop' = [loop EXCEPT ![t].ticket = Oldest(OpenTickets(loop[t].focus)),
                          ![t].at = "replying"]
  /\ UNCHANGED <<vars, thread, draft>>

Backstop(t) ==
  /\ Stays(t, "backstop")
  /\ Escalate(t, loop[t].focus)
  /\ UNCHANGED <<thread, draft, loop>>

BackstopCommit(t) ==
  /\ loop[t].at = "backstop"
  /\ CommitEscalation(t)
  /\ loop' = [loop EXCEPT ![t].ticket = Len(escalations'), ![t].at = "replying"]
  /\ UNCHANGED <<thread, draft>>

EndsTurn(t) ==
  /\ CloseSession(t)
  /\ loop' = [loop EXCEPT ![t] = IdleLoop]
  /\ draft' = [draft EXCEPT ![t] = NoDraft]
  /\ UNCHANGED thread

Reply(t) == Stays(t, "replying") /\ EndsTurn(t)

\* The request dies before its reply: the process is killed, the client is gone,
\* or the database refused a statement and the next one in the session raises.
Crash(t) == loop[t].at # "replying" /\ EndsTurn(t)

\* Mutant: closing the chat closes its tickets.
CloseConversationAndTickets(c) ==
  /\ thread[c].status = "active"
  /\ thread' = [thread EXCEPT ![c].status = "closed"]
  /\ escalations' = [e \in DOMAIN escalations |->
       IF e \in TicketsOf(c) THEN [escalations[e] EXCEPT !.status = "resolved"]
                             ELSE escalations[e]]
  /\ UNCHANGED <<clock, refundedAt, requests, convVerdict, turnVars, desk, history,
                 draft, loop>>

\* POST /conversations/{id}/close; closing twice changes nothing.
CloseConversation(c) ==
  /\ thread[c].status = "active"
  /\ thread' = [thread EXCEPT ![c].status = "closed"]
  /\ UNCHANGED <<vars, draft, loop>>
-----------------------------------------------------------------------------
ToolCall(t) ==
  \/ \E k \in CustomerIds : LookupTool(t, k)
  \/ \E o \in Orders \cup {None} : GetOrderTool(t, o)
  \/ ReadOnlyTool(t)
  \/ \E reason \in Reasons : RecordReasonTool(t, reason)
  \/ \E o \in Orders : \/ CheckTool(t, o)
                       \/ IssueToolRefused(t, o) \/ IssueTool(t, o)
                       \/ EscalateToolReuses(t, o) \/ EscalateTool(t, o)
  \/ IssueToolCommit(t) \/ EscalateToolCommit(t)

\* What a turn in progress does next, of its own accord.
TurnProgress(t) ==
  \/ LlmFails(t) \/ LlmAnswers(t) \/ \E n \in 1..MaxCalls : LlmCalls(t, n)
  \/ ToolCall(t)
  \/ FinishTurn(t) \/ TicketRef(t)
  \/ BackstopReuses(t) \/ Backstop(t) \/ BackstopCommit(t)
  \/ Reply(t)

ChatNext ==
  \/ Tick /\ UNCHANGED <<thread, draft, loop>>
  \/ \E t \in Turns :
       \/ \E c \in Conversations, k \in CustomerIds \cup {None} :
            ChatRequest(t, c, k) \/ VoiceTurn(t, c, k)
       \/ TurnProgress(t) \/ Crash(t)
  \/ \E m \in Managers : ManagerStep(m) /\ UNCHANGED <<thread, draft, loop>>
  \/ \E c \in Conversations : CloseConversation(c)

ChatSpec == ChatInit /\ [][ChatNext]_chatVars

\* A running turn is never starved: every await in it (model call, query, backoff)
\* returns or raises, and the event loop then resumes it.
FairChatSpec == ChatSpec /\ \A t \in Turns : WF_chatVars(TurnProgress(t))
-----------------------------------------------------------------------------
ChatTypeOK ==
  /\ thread \in [Conversations -> Thread]
  /\ draft \in [Turns -> Draft]
  /\ loop \in [Turns -> Loop]
  /\ \A t \in Turns : loop[t].at = "off" <=> pc[t] = "closed"

\* An ESCALATE reply of turn t whose verdict is about order o is backed when o had
\* an open ticket at some moment since the turn began.
HadTicket(t, o) == \E e \in DOMAIN escalations \ loop[t].settled : TicketOrder(e) = o

\* The runner is about to answer ESCALATE for an order it has at hand, to a
\* customer it knows.
Escalated(t) ==
  /\ loop[t].at = "replying" /\ loop[t].verdict = "escalate"
  /\ loop[t].focus = loop[t].decided /\ session[t].customer # None

\* The runner's backstop does its work for a conversation about a single order:
\* when the conversation has no ticket of another order or of the past, the reply
\* is backed by a ticket and names it -- whatever the model called or forgot, and
\* whatever managers and other turns did meanwhile.
BackstopCoversSoleOrder ==
  \A t \in Turns :
    (/\ Escalated(t)
     /\ \A e \in TicketsOf(session[t].conversation) :
          TicketOrder(e) = loop[t].focus /\ e \notin loop[t].settled)
    => /\ HadTicket(t, loop[t].focus)
       /\ loop[t].ticket \in DOMAIN escalations
       /\ TicketOrder(loop[t].ticket) = loop[t].focus

\* The same promise without that condition (runner.py: "An ESCALATE verdict MUST
\* produce a ticket").
EscalatedOrderHasTicket ==
  \A t \in Turns : Escalated(t) => HadTicket(t, loop[t].focus)

\* At every commit of a turn -- a refund, a ticket, the answer -- the case file names the
\* customer the turn serves and, if it refunds, pays: lookup_customer moves the tools'
\* customer and the conversation's together, and the commit carries both.  Except when
\* another turn replaced the customer since this one last read or wrote the file.  And
\* whenever the file changes hands, it is to somebody a turn is serving in that very
\* conversation.  (Whom the file names afterwards, another lookup decides.)
TurnCommits(t) ==
  \/ pc[t] \in {"refunding", "escalating"} /\ pc'[t] = "open"
  \/ pc[t] = "open" /\ pc'[t] = "open" /\ session'[t].answered # session[t].answered

FileFollows ==
  /\ \A t \in Turns : (TurnCommits(t) /\ session[t].customer # None) =>
       \/ thread'[session[t].conversation].customer_id = session[t].customer
       \/ draft[t].loaded.customer_id = session[t].customer
  /\ \A c \in Conversations : thread'[c].customer_id # thread[c].customer_id =>
       \E t \in Turns : /\ pc[t] # "closed" /\ session[t].conversation = c
                        /\ thread'[c].customer_id = session[t].customer
                        /\ session[t].customer # None

CaseNamesCustomer == [][FileFollows]_chatVars

\* Whatever the model asks for, run_chat_turn uses the service layer only as
\* RefundService says, so everything shown there holds of real chat turns.
RefundServiceSpec == Spec

\* Every turn ends: the model may fail or keep calling tools, and still the retry
\* limit and MAX_STEPS bring the turn to its reply, through the backstop if need be.
TurnTerminates == \A t \in Turns : pc[t] # "closed" ~> pc[t] = "closed"

\* The admin page says of a case that is not approved that issue_refund() was
\* never called, once no turn is at work in its conversation.
UnapprovedCaseUnpaid ==
  \A c \in Conversations :
    (/\ convVerdict[c] \in {"deny", "escalate"}
     /\ \A t \in Turns : pc[t] # "closed" => session[t].conversation # c)
    => \A i \in DOMAIN payouts :
         payouts[i].by = "agent" => requests[payouts[i].request].conversation # c
=============================================================================
