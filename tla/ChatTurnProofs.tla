---------------------------- MODULE ChatTurnProofs ----------------------------
(***************************************************************************)
(* ChatTurn implements RefundService: a chat turn, whatever the model asks *)
(* for, is one of the sessions RefundService describes.  A step of         *)
(* ChatTurn is a step of RefundService or leaves its variables alone once  *)
(* the values that reach the service layer are known to be of the right    *)
(* kind: the customer on file, the verdict a turn ends with and the order  *)
(* the backstop escalates.  LoopKnown and FileKnown say that much, and no  *)
(* more: counters and tickets of the loop do not matter here.              *)
(*                                                                         *)
(* The backstop: an ESCALATE reply about the only order of a conversation  *)
(* is backed by a ticket, whatever the model called or forgot, whatever    *)
(* other turns and managers did meanwhile.  TurnBacked follows one turn    *)
(* from its answer to its reply; it survives everybody else's steps        *)
(* because rows stay (RefundTicketProofs).                                 *)
(*                                                                         *)
(* The loop's types, and with them its limits (ChatTypeInv), and the       *)
(* customer of the case file: what a turn writes back names the customer   *)
(* it serves (FilesMatch), so every commit puts that customer on file      *)
(* unless the turn never changed it.                                       *)
(***************************************************************************)
EXTENDS ChatTurn, RefundTicketProofs, WellFoundedInduction

Known == CustomerIds \cup {None}

LoopFields == {"at", "step", "attempt", "calls", "verdict", "focus", "ticket",
               "decided", "settled"}
ThreadFields == {"customer_id", "order_id", "refund_reason", "status"}

GoodLoop(l) ==
  /\ DOMAIN l = LoopFields
  /\ l.verdict \in MaybeVerdict
  /\ l.focus \in Orders \cup {None}
  /\ l.at = "backstop" => l.focus # None

GoodThread(r) == DOMAIN r = ThreadFields /\ r.customer_id \in Known

GoodDraft(d) ==
  /\ DOMAIN d = {"loaded", "current"}
  /\ GoodThread(d.loaded) /\ GoodThread(d.current)

LoopKnown == DOMAIN loop = Turns /\ \A t \in Turns : GoodLoop(loop[t])

FileKnown ==
  /\ DOMAIN thread = Conversations /\ \A c \in Conversations : GoodThread(thread[c])
  /\ DOMAIN draft = Turns /\ \A t \in Turns : GoodDraft(draft[t])

ChatInv == LoopKnown /\ FileKnown
-----------------------------------------------------------------------------
LEMMA EngineVerdict ==
  ASSUME NEW order, NEW customer, NEW time
  PROVE  CheckRefundEligibility(order, customer, time).verdict \in Verdicts
BY DEF CheckRefundEligibility, Verdict, Verdicts

LEMMA AnswerVerdict ==
  ASSUME NEW t, NEW o
  PROVE  Answer(t, o).verdict \in Verdicts
BY EngineVerdict DEF Answer

LEMMA ReturnedGood ==
  ASSUME NEW l, GoodLoop(l)
  PROVE  GoodLoop(Returned(l))
BY DEF GoodLoop, Returned, LoopFields

LEMMA NextVerdictGood ==
  ASSUME NEW l, GoodLoop(l), NEW o, NEW v \in MaybeVerdict
  PROVE  GoodLoop(NextVerdict(l, o, v))
BY DEF GoodLoop, NextVerdict, LoopFields

LEMMA FocusGood ==
  ASSUME NEW l, GoodLoop(l), NEW o \in Orders \cup {None}, l.at # "backstop"
  PROVE  /\ GoodLoop([l EXCEPT !.focus = o])
         /\ [l EXCEPT !.focus = o].at # "backstop"
BY DEF GoodLoop, LoopFields

\* A step that gives one turn a good loop keeps all loops good.
LEMMA LoopUpdate ==
  ASSUME LoopKnown, NEW t \in Turns, NEW l, GoodLoop(l),
         loop' = [loop EXCEPT ![t] = l]
  PROVE  LoopKnown'
BY DEF LoopKnown, GoodLoop

LEMMA DraftUpdate ==
  ASSUME FileKnown, NEW t \in Turns, NEW d, GoodDraft(d),
         draft' = [draft EXCEPT ![t] = d], UNCHANGED thread
  PROVE  FileKnown'
BY DEF FileKnown, GoodDraft, GoodThread

LEMMA AssignedGood ==
  ASSUME NEW d, GoodDraft(d), NEW column \in ThreadFields, NEW value,
         column = "customer_id" => value \in Known
  PROVE  GoodDraft(Assigned(d, column, value))
BY DEF GoodDraft, GoodThread, Assigned

\* A commit merges two rows with a good customer into one.
LEMMA CommitsGood ==
  ASSUME FileKnown, NEW t \in Turns, NEW d, GoodDraft(d), Commits(t, d)
  PROVE  FileKnown'
<1> DEFINE c == session[t].conversation
           row == [col \in DOMAIN thread[c] |->
                     Written(d.loaded[col], d.current[col], thread[c][col])]
           copy == [loaded |-> d.current, current |-> d.current]
<1>1. thread' = [thread EXCEPT ![c] = row] /\ draft' = [draft EXCEPT ![t] = copy]
  BY DEF Commits
<1>2. GoodDraft(copy)
  BY DEF GoodDraft
<1>3. ASSUME c \in Conversations PROVE GoodThread(row)
  <2>1. GoodThread(thread[c])
    BY <1>3 DEF FileKnown
  <2>2. DOMAIN row = ThreadFields
    BY <2>1 DEF GoodThread
  <2>3. row["customer_id"] =
          Written(d.loaded["customer_id"], d.current["customer_id"], thread[c]["customer_id"])
    BY <2>1 DEF GoodThread, ThreadFields
  <2>4. row["customer_id"] \in Known
    BY <2>1, <2>3 DEF GoodDraft, GoodThread, Written
  <2> QED
    BY <2>2, <2>4 DEF GoodThread
<1>4. DOMAIN thread' = Conversations /\ \A k \in Conversations : GoodThread(thread'[k])
  <2> HIDE DEF row
  <2> QED
    BY <1>1, <1>3 DEF FileKnown
<1>5. DOMAIN draft' = Turns /\ \A u \in Turns : GoodDraft(draft'[u])
  <2> HIDE DEF copy
  <2> QED
    BY <1>1, <1>2 DEF FileKnown
<1> QED
  BY <1>4, <1>5 DEF FileKnown, GoodDraft, GoodThread
-----------------------------------------------------------------------------
LEMMA ChatInitGood == ChatInit => Init /\ ChatInv
BY DEF ChatInit, ChatInv, LoopKnown, GoodLoop, IdleLoop, LoopFields, MaybeVerdict,
   FileKnown, GoodThread, GoodDraft, FreshThread, NoDraft, ThreadFields, Known

LEMMA StartTurnStep ==
  ASSUME ChatInv, NEW t \in Turns, NEW c \in Conversations, NEW k \in Known,
         StartTurn(t, c, k)
  PROVE  ChatInv' /\ TurnStep(t)
<1> DEFINE customer == KnownCustomer(c, k)
           row == [thread[c] EXCEPT !.customer_id = customer]
           fresh == [IdleLoop EXCEPT !.at = "asking", !.settled =
                       {e \in DOMAIN escalations : escalations[e].status = "resolved"}]
<1>1. GoodThread(thread[c])
  BY DEF ChatInv, FileKnown
<1>2. customer \in Known
  BY <1>1 DEF KnownCustomer, GoodThread
<1>3. TurnStep(t)
  BY <1>2 DEF StartTurn, TurnStep, Known
<1>4. GoodDraft([loaded |-> thread[c], current |-> row])
  BY <1>1, <1>2 DEF GoodDraft, GoodThread, ThreadFields
<1>5. FileKnown'
  BY <1>4, DraftUpdate DEF StartTurn, ChatInv
<1>6. GoodLoop(fresh)
  BY DEF GoodLoop, IdleLoop, LoopFields, MaybeVerdict
<1>7. LoopKnown'
  BY <1>6, LoopUpdate DEF StartTurn, ChatInv
<1> QED
  BY <1>3, <1>5, <1>7 DEF ChatInv

\* Steps that change nothing but the loop.
LEMMA ModelStep ==
  ASSUME ChatInv, NEW t \in Turns,
         LlmFails(t) \/ LlmAnswers(t) \/ \E n \in 1..MaxCalls : LlmCalls(t, n)
  PROVE  ChatInv' /\ UNCHANGED vars
<1>1. GoodLoop(loop[t])
  BY DEF ChatInv, LoopKnown
<1>2. FileKnown' /\ UNCHANGED vars
  BY DEF LlmFails, LlmAnswers, LlmCalls, ChatInv, FileKnown, GoodThread, GoodDraft
<1>3. CASE LlmFails(t)
  <2>1. GoodLoop(IF loop[t].attempt < MaxRetries
                 THEN [loop[t] EXCEPT !.attempt = loop[t].attempt + 1]
                 ELSE [loop[t] EXCEPT !.at = "finishing"])
    <3>1. GoodLoop([loop[t] EXCEPT !.attempt = loop[t].attempt + 1])
      BY <1>1 DEF GoodLoop, LoopFields
    <3>2. GoodLoop([loop[t] EXCEPT !.at = "finishing"])
      BY <1>1 DEF GoodLoop, LoopFields
    <3> QED
      BY <3>1, <3>2
  <2> QED
    BY <1>2, <1>3, <2>1, LoopUpdate DEF LlmFails, ChatInv
<1>4. CASE LlmAnswers(t)
  <2>1. GoodLoop([loop[t] EXCEPT !.at = "finishing"])
    BY <1>1 DEF GoodLoop, LoopFields
  <2> QED
    BY <1>2, <1>4, <2>1, LoopUpdate DEF LlmAnswers, ChatInv
<1>5. ASSUME NEW n \in 1..MaxCalls, LlmCalls(t, n) PROVE LoopKnown'
  <2>1. GoodLoop([loop[t] EXCEPT !.at = "calling", !.step = loop[t].step + 1, !.calls = n])
    BY <1>1 DEF GoodLoop, LoopFields
  <2> QED
    BY <1>5, <2>1, LoopUpdate DEF LlmCalls, ChatInv
<1> QED
  BY <1>2, <1>3, <1>4, <1>5 DEF ChatInv

\* Tools that do not touch the service layer.
LEMMA QuietToolStep ==
  ASSUME ChatInv, NEW t \in Turns,
         \/ \E o \in Orders \cup {None} : GetOrderTool(t, o)
         \/ ReadOnlyTool(t) \/ \E reason \in Reasons : RecordReasonTool(t, reason)
         \/ \E o \in Orders : \/ CheckTool(t, o) \/ IssueToolRefused(t, o)
                              \/ EscalateToolReuses(t, o)
  PROVE  ChatInv' /\ UNCHANGED vars
<1>1. GoodLoop(loop[t]) /\ loop[t].at = "calling"
  BY DEF ChatInv, LoopKnown, GetOrderTool, ReadOnlyTool, RecordReasonTool, CheckTool,
     IssueToolRefused, EscalateToolReuses, Stays
<1>2. UNCHANGED vars
  BY DEF GetOrderTool, ReadOnlyTool, RecordReasonTool, CheckTool, IssueToolRefused,
     EscalateToolReuses
<1>3. FileKnown'
  <2>1. ASSUME NEW reason \in Reasons, RecordReasonTool(t, reason) PROVE FileKnown'
    <3>1. GoodDraft(Assigned(draft[t], "refund_reason", reason))
      BY AssignedGood DEF ChatInv, FileKnown, ThreadFields
    <3> QED
      BY <2>1, <3>1, DraftUpdate DEF RecordReasonTool, ChatInv
  <2>2. CASE ~ \E reason \in Reasons : RecordReasonTool(t, reason)
    BY <2>2 DEF GetOrderTool, ReadOnlyTool, CheckTool, IssueToolRefused,
       EscalateToolReuses, ChatInv, FileKnown, GoodThread, GoodDraft
  <2> QED
    BY <2>1, <2>2
<1>4. \A o \in Orders \cup {None} : GoodLoop(Returned([loop[t] EXCEPT !.focus = o]))
  BY <1>1, FocusGood, ReturnedGood
<1>5. \A o \in Orders, v \in MaybeVerdict :
        GoodLoop(Returned(NextVerdict([loop[t] EXCEPT !.focus = o], o, v)))
  BY <1>1, FocusGood, NextVerdictGood, ReturnedGood
<1>6. ASSUME NEW o \in Orders \cup {None}, GetOrderTool(t, o) PROVE LoopKnown'
  BY <1>4, <1>6, LoopUpdate DEF GetOrderTool, ChatInv
<1>7. ASSUME ReadOnlyTool(t) \/ \E reason \in Reasons : RecordReasonTool(t, reason)
      PROVE  LoopKnown'
  BY <1>1, <1>7, ReturnedGood, LoopUpdate DEF ReadOnlyTool, RecordReasonTool, ChatInv
<1>8. ASSUME NEW o \in Orders, CheckTool(t, o) PROVE LoopKnown'
  <2> DEFINE named == [loop[t] EXCEPT !.focus = o]
             verdict == Answer(t, o).verdict
             next == IF session[t].customer = None THEN named
                     ELSE NextVerdict(named, o, verdict)
  <2>1. verdict \in MaybeVerdict
    BY AnswerVerdict DEF MaybeVerdict
  <2>2. GoodLoop(Returned(next))
    BY <1>4, <1>5, <2>1
  <2>3. loop' = [loop EXCEPT ![t] = Returned(next)]
    BY <1>8 DEF CheckTool
  <2> QED
    BY <2>2, <2>3, LoopUpdate DEF ChatInv
<1>9. ASSUME NEW o \in Orders, IssueToolRefused(t, o) PROVE LoopKnown'
  BY <1>4, <1>9, LoopUpdate DEF IssueToolRefused, ChatInv
<1>10. ASSUME NEW o \in Orders, EscalateToolReuses(t, o) PROVE LoopKnown'
  <2>1. "escalate" \in MaybeVerdict
    BY DEF MaybeVerdict, Verdicts
  <2> QED
    BY <1>5, <1>10, <2>1, LoopUpdate DEF EscalateToolReuses, ChatInv
<1> QED
  BY <1>2, <1>3, <1>6, <1>7, <1>8, <1>9, <1>10 DEF ChatInv

\* Tools that go through the service layer, before and at their commit.
LEMMA ServiceToolStep ==
  ASSUME ChatInv, NEW t \in Turns,
         \/ \E k \in CustomerIds : LookupTool(t, k)
         \/ \E o \in Orders : IssueTool(t, o) \/ EscalateTool(t, o)
         \/ IssueToolCommit(t) \/ EscalateToolCommit(t)
  PROVE  ChatInv' /\ TurnStep(t)
<1>1. GoodLoop(loop[t]) /\ GoodDraft(draft[t])
  BY DEF ChatInv, LoopKnown, FileKnown
<1>2. TurnStep(t)
  BY DEF LookupTool, IssueTool, EscalateTool, IssueToolCommit, EscalateToolCommit, TurnStep
<1>3. "approve" \in MaybeVerdict /\ "escalate" \in MaybeVerdict
  BY DEF MaybeVerdict, Verdicts
<1>4. ASSUME NEW k \in CustomerIds, LookupTool(t, k) PROVE LoopKnown' /\ FileKnown'
  <2>1. GoodDraft(Assigned(draft[t], "customer_id", k))
    BY <1>1, AssignedGood DEF ThreadFields, Known
  <2>2. FileKnown'
    BY <1>4, <2>1, DraftUpdate DEF LookupTool, ChatInv
  <2>3. LoopKnown'
    BY <1>1, <1>4, ReturnedGood, LoopUpdate DEF LookupTool, ChatInv
  <2> QED
    BY <2>2, <2>3
<1>5. ASSUME NEW o \in Orders, IssueTool(t, o) \/ EscalateTool(t, o)
      PROVE  LoopKnown' /\ FileKnown'
  <2>1. GoodLoop([loop[t] EXCEPT !.focus = o])
    BY <1>1, <1>5, FocusGood DEF IssueTool, EscalateTool, Stays
  <2>2. LoopKnown'
    BY <1>5, <2>1, LoopUpdate DEF IssueTool, EscalateTool, ChatInv
  <2>3. FileKnown'
    BY <1>5 DEF IssueTool, EscalateTool, ChatInv, FileKnown, GoodDraft, GoodThread
  <2> QED
    BY <2>2, <2>3
<1>6. ASSUME IssueToolCommit(t) \/ EscalateToolCommit(t) PROVE LoopKnown' /\ FileKnown'
  <2>1. FileKnown'
    BY <1>1, <1>6, CommitsGood DEF IssueToolCommit, EscalateToolCommit, ChatInv
  <2>2. \A v \in {"approve", "escalate"} :
          GoodLoop(Returned(NextVerdict(loop[t], call[t].order, v)))
    BY <1>1, <1>3, NextVerdictGood, ReturnedGood
  <2>3. LoopKnown'
    BY <1>6, <2>2, LoopUpdate DEF IssueToolCommit, EscalateToolCommit, ChatInv
  <2> QED
    BY <2>1, <2>3
<1> QED
  BY <1>2, <1>4, <1>5, <1>6 DEF ChatInv

LEMMA FinishStep ==
  ASSUME ChatInv, NEW t \in Turns, FinishTurn(t)
  PROVE  ChatInv' /\ TurnStep(t)
<1> DEFINE at == IF loop[t].verdict = "escalate" THEN "ticketing" ELSE "replying"
           d == [draft[t] EXCEPT !.current.order_id =
                   IF loop[t].focus = None THEN draft[t].current.order_id
                                           ELSE loop[t].focus]
<1>1. GoodLoop(loop[t]) /\ GoodDraft(draft[t])
  BY DEF ChatInv, LoopKnown, FileKnown
<1>2. TurnStep(t)
  <2>1. loop[t].verdict \in TurnVerdicts
    BY <1>1, ChatAssumption DEF GoodLoop, MaybeVerdict
  <2> QED
    BY <2>1 DEF FinishTurn, TurnStep
<1>3. FileKnown'
  <2>1. GoodDraft(d)
    BY <1>1 DEF GoodDraft, GoodThread, ThreadFields
  <2>2. Commits(t, d)
    BY DEF FinishTurn
  <2> QED
    BY <2>1, <2>2, CommitsGood DEF ChatInv
<1>4. LoopKnown'
  <2>1. at \in {"ticketing", "replying"}
    OBVIOUS
  <2>2. GoodLoop([loop[t] EXCEPT !.at = at])
    <3> HIDE DEF at
    <3> QED
      BY <1>1, <2>1 DEF GoodLoop, LoopFields
  <2>3. loop' = [loop EXCEPT ![t] = [loop[t] EXCEPT !.at = at]]
    BY DEF FinishTurn
  <2> QED
    BY <2>2, <2>3, LoopUpdate DEF ChatInv
<1> QED
  BY <1>2, <1>3, <1>4 DEF ChatInv

LEMMA TicketStep ==
  ASSUME ChatInv, NEW t \in Turns,
         TicketRef(t) \/ BackstopReuses(t) \/ Backstop(t) \/ BackstopCommit(t)
  PROVE  ChatInv' /\ (TurnStep(t) \/ UNCHANGED vars)
<1>1. GoodLoop(loop[t])
  BY DEF ChatInv, LoopKnown
<1>2. FileKnown'
  BY DEF TicketRef, BackstopReuses, Backstop, BackstopCommit, ChatInv, FileKnown,
     GoodDraft, GoodThread
<1>3. \A e : GoodLoop([loop[t] EXCEPT !.ticket = e, !.at = "replying"])
  BY <1>1 DEF GoodLoop, LoopFields
<1>4. CASE TicketRef(t)
  <2> DEFINE mine == TicketsOf(session[t].conversation)
             next == IF mine # {}
                     THEN [loop[t] EXCEPT !.ticket = Latest(mine), !.at = "replying"]
                     ELSE IF loop[t].focus # None /\ session[t].customer # None
                     THEN [loop[t] EXCEPT !.at = "backstop"]
                     ELSE [loop[t] EXCEPT !.at = "replying"]
  <2>1. loop[t].focus # None => GoodLoop([loop[t] EXCEPT !.at = "backstop"])
    BY <1>1 DEF GoodLoop, LoopFields
  <2>2. GoodLoop([loop[t] EXCEPT !.at = "replying"])
    BY <1>1 DEF GoodLoop, LoopFields
  <2>3. GoodLoop(next)
    BY <1>3, <2>1, <2>2
  <2>4. loop' = [loop EXCEPT ![t] = next] /\ UNCHANGED vars
    BY <1>4 DEF TicketRef
  <2> QED
    BY <1>2, <2>3, <2>4, LoopUpdate DEF ChatInv
<1>5. CASE BackstopReuses(t)
  <2> DEFINE e == Oldest(OpenTickets(loop[t].focus))
  <2>1. loop' = [loop EXCEPT ![t] = [loop[t] EXCEPT !.ticket = e, !.at = "replying"]]
    BY <1>1, <1>5 DEF BackstopReuses, ChatInv, LoopKnown, GoodLoop, LoopFields
  <2>2. LoopKnown'
    BY <1>3, <2>1, LoopUpdate DEF ChatInv
  <2> QED
    BY <1>2, <1>5, <2>2 DEF BackstopReuses, ChatInv
<1>6. CASE Backstop(t)
  <2>1. loop[t].focus \in Orders
    BY <1>1, <1>6 DEF Backstop, Stays, GoodLoop
  <2>2. TurnStep(t)
    BY <1>6, <2>1 DEF Backstop, TurnStep
  <2>3. LoopKnown'
    BY <1>6 DEF Backstop, ChatInv, LoopKnown, GoodLoop
  <2> QED
    BY <1>2, <2>2, <2>3 DEF ChatInv
<1>7. CASE BackstopCommit(t)
  <2> DEFINE e == Len(escalations')
  <2>1. loop' = [loop EXCEPT ![t] = [loop[t] EXCEPT !.ticket = e, !.at = "replying"]]
    BY <1>1, <1>7 DEF BackstopCommit, ChatInv, LoopKnown, GoodLoop, LoopFields
  <2>2. LoopKnown'
    BY <1>3, <2>1, LoopUpdate DEF ChatInv
  <2> QED
    BY <1>2, <1>7, <2>2 DEF BackstopCommit, TurnStep, ChatInv
<1> QED
  BY <1>4, <1>5, <1>6, <1>7

LEMMA EndStep ==
  ASSUME ChatInv, NEW t \in Turns, EndsTurn(t)
  PROVE  ChatInv' /\ TurnStep(t)
<1>1. GoodLoop(IdleLoop) /\ GoodDraft(NoDraft)
  BY DEF GoodLoop, IdleLoop, LoopFields, MaybeVerdict, GoodDraft, GoodThread, NoDraft,
     FreshThread, ThreadFields, Known
<1>2. LoopKnown' /\ FileKnown'
  BY <1>1, LoopUpdate, DraftUpdate DEF EndsTurn, ChatInv
<1> QED
  BY <1>2 DEF EndsTurn, TurnStep, ChatInv

LEMMA CloseStep ==
  ASSUME ChatInv, NEW c \in Conversations, CloseConversation(c)
  PROVE  ChatInv' /\ UNCHANGED vars
<1>1. GoodThread([thread[c] EXCEPT !.status = "closed"])
  BY DEF ChatInv, FileKnown, GoodThread, ThreadFields
<1>2. thread' = [thread EXCEPT ![c] = [thread[c] EXCEPT !.status = "closed"]]
  BY DEF CloseConversation
<1>3. FileKnown'
  BY <1>1, <1>2 DEF CloseConversation, ChatInv, FileKnown, GoodDraft, GoodThread
<1> QED
  BY <1>3 DEF CloseConversation, ChatInv, LoopKnown, GoodLoop

LEMMA ChatStepRefines == ChatInv /\ [ChatNext]_chatVars => ChatInv' /\ [Next]_vars
<1> SUFFICES ASSUME ChatInv, [ChatNext]_chatVars PROVE ChatInv' /\ [Next]_vars
  OBVIOUS
<1>1. ASSUME UNCHANGED <<thread, draft, loop>> PROVE ChatInv'
  BY <1>1 DEF ChatInv, LoopKnown, FileKnown, GoodLoop, GoodDraft, GoodThread
<1>2. CASE Tick /\ UNCHANGED <<thread, draft, loop>>
  BY <1>1, <1>2 DEF Next
<1>3. ASSUME NEW t \in Turns, NEW c \in Conversations, NEW k \in CustomerIds \cup {None},
             StartTurn(t, c, k)
      PROVE  ChatInv' /\ Next
  BY <1>3, StartTurnStep DEF Next, Known
<1>4. ASSUME NEW t \in Turns, TurnProgress(t) PROVE ChatInv' /\ [Next]_vars
  <2>1. CASE LlmFails(t) \/ LlmAnswers(t) \/ \E n \in 1..MaxCalls : LlmCalls(t, n)
    BY <2>1, ModelStep
  <2>2. CASE ToolCall(t)
    BY <2>2, QuietToolStep, ServiceToolStep DEF ToolCall, Next
  <2>3. CASE FinishTurn(t)
    BY <2>3, FinishStep DEF Next
  <2>4. CASE TicketRef(t) \/ BackstopReuses(t) \/ Backstop(t) \/ BackstopCommit(t)
    BY <2>4, TicketStep DEF Next
  <2>5. CASE Reply(t)
    BY <2>5, EndStep DEF Reply, Next
  <2> QED
    BY <1>4, <2>1, <2>2, <2>3, <2>4, <2>5 DEF TurnProgress
<1>5. ASSUME NEW t \in Turns, Crash(t) PROVE ChatInv' /\ Next
  BY <1>5, EndStep DEF Crash, Next
<1>6. ASSUME NEW m \in Managers, ManagerStep(m), UNCHANGED <<thread, draft, loop>>
      PROVE  ChatInv' /\ Next
  BY <1>1, <1>6 DEF Next
<1>7. ASSUME NEW c \in Conversations, CloseConversation(c) PROVE ChatInv' /\ UNCHANGED vars
  BY <1>7, CloseStep
<1>8. CASE UNCHANGED chatVars
  BY <1>1, <1>8 DEF chatVars
<1> QED
  BY <1>2, <1>3, <1>4, <1>5, <1>6, <1>7, <1>8 DEF ChatNext, ChatRequest, VoiceTurn

\* The agent's turns are sessions of RefundService: route, runner, loop and tools
\* never use the database or the service layer in another way.
THEOREM TurnIsSession == ChatSpec => RefundServiceSpec
BY ChatInitGood, ChatStepRefines, PTL DEF ChatSpec, RefundServiceSpec, Spec

\* The policy boundary seen from the chat: whatever the model calls in whatever
\* order, with crashes anywhere and a manager at work, the agent pays only what
\* the policy approves.
THEOREM ChatPaysOnlyWithinPolicy == ChatSpec => []AgentPaysOnlyWithinPolicy
BY TurnIsSession, PolicyBoundary, PTL DEF RefundServiceSpec

\* And two refunds of one order come from turns that overlapped.
THEOREM ChatPaysTwiceOnlyInOverlap == ChatSpec => []DoublePayNeedsOverlap
BY TurnIsSession, OverlapOnly, PTL DEF RefundServiceSpec
-----------------------------------------------------------------------------

ConversationOf(e) == requests[escalations[e].refund_request_id].conversation

\* The ticket a turn is about to name.
Backed(t) ==
  \/ loop[t].focus = None \/ session[t].customer = None
  \/ /\ loop[t].ticket \in DOMAIN escalations
     /\ \/ ConversationOf(loop[t].ticket) = session[t].conversation
        \/ /\ TicketOrder(loop[t].ticket) = loop[t].focus
           /\ loop[t].ticket \notin loop[t].settled

TurnBacked(t) ==
  /\ \A e \in loop[t].settled :
       e \in DOMAIN escalations /\ escalations[e].status = "resolved"
  /\ loop[t].verdict = "escalate" => loop[t].decided \in Orders
  /\ pc[t] = "refunding" => loop[t].at = "calling"
  /\ (loop[t].at = "backstop" /\ pc[t] = "escalating") => call[t].order = loop[t].focus
  /\ (loop[t].at = "replying" /\ loop[t].verdict = "escalate") => Backed(t)

AllBacked == \A t \in Turns : TurnBacked(t)
-----------------------------------------------------------------------------
\* The ticket _ticket_ref and the dedupe query pick exists.
LEMMA HasLeast ==
  ASSUME NEW S, S \subseteq Nat, S # {}
  PROVE  \E x \in S : \A y \in S : x <= y
<1> DEFINE R == OpToRel(<, Nat)
<1>1. IsWellFoundedOn(R, Nat)
  BY NatLessThanWellFounded, Zenon
<1>2. PICK x \in S : \A y \in S : <<y, x>> \notin R
  <2> HIDE DEF R
  <2> QED
    BY <1>1, WFMin
<1>3. \A y \in S : ~(y < x)
  BY <1>2 DEF OpToRel
<1> QED
  BY <1>3

LEMMA HasGreatest ==
  ASSUME NEW n \in Nat, NEW S, S \subseteq 1..n, S # {}
  PROVE  \E x \in S : \A y \in S : y <= x
<1> DEFINE T == {k \in 0..n : n - k \in S}
<1>1. T \subseteq Nat
  OBVIOUS
<1>2. T # {}
  <2>1. PICK s \in S : TRUE
    OBVIOUS
  <2>2. n - s \in 0..n /\ n - (n - s) = s
    OBVIOUS
  <2>3. n - s \in T
    BY <2>1, <2>2
  <2> QED
    BY <2>3
<1>3. PICK z \in T : \A y \in T : z <= y
  BY <1>1, <1>2, HasLeast
<1>4. \A y \in S : y <= n - z
  <2> TAKE y \in S
  <2>1. n - y \in T
    OBVIOUS
  <2> QED
    BY <1>3, <2>1
<1> QED
  BY <1>3, <1>4

LEMMA LatestTicket ==
  ASSUME Core, NEW c, TicketsOf(c) # {}
  PROVE  Latest(TicketsOf(c)) \in TicketsOf(c) /\ Latest(TicketsOf(c)) \in Nat
<1> DEFINE mine == TicketsOf(c)
<1>1. mine \subseteq 1..Len(escalations) /\ Len(escalations) \in Nat /\ mine # {}
  BY DEF TicketsOf, Core, TypeOK
<1>2. \E e \in mine : \A f \in mine : f <= e
  <2> HIDE DEF mine
  <2> QED
    BY <1>1, HasGreatest
<1> HIDE DEF mine
<1>3. Latest(mine) \in mine
  BY <1>2 DEF Latest
<1>4. \A e \in mine : e \in Nat
  BY <1>1
<1> QED
  BY <1>3, <1>4 DEF mine

LEMMA OldestTicket ==
  ASSUME Core, NEW o, OpenTickets(o) # {}
  PROVE  Oldest(OpenTickets(o)) \in OpenTickets(o) /\ Oldest(OpenTickets(o)) \in Nat
<1> DEFINE open == OpenTickets(o)
<1>1. open \subseteq Nat /\ open # {}
  BY DEF OpenTickets, Core, TypeOK
<1>2. \E x \in open : \A f \in open : x <= f
  <2> HIDE DEF open
  <2> QED
    BY <1>1, HasLeast
<1>3. Oldest(open) \in open
  BY <1>2 DEF Oldest
<1> HIDE DEF open
<1>4. Oldest(open) \in Nat
  BY <1>1, <1>3
<1> QED
  BY <1>3, <1>4 DEF open
-----------------------------------------------------------------------------
\* Rows keep what Backed says of them.
LEMMA TicketKeeps ==
  ASSUME Core, RowsStay, NEW e \in DOMAIN escalations
  PROVE  /\ e \in DOMAIN escalations'
         /\ TicketOrder(e)' = TicketOrder(e)
         /\ ConversationOf(e)' = ConversationOf(e)
         /\ escalations[e].status = "resolved" => escalations'[e].status = "resolved"
BY DEF Core, References, RowsStay, TicketOrder, ConversationOf

\* Nobody else's step disturbs a turn.
LEMMA UntouchedBacked ==
  ASSUME Core, RowsStay, NEW t \in Turns, TurnBacked(t),
         loop'[t] = loop[t], session'[t] = session[t],
         pc'[t] = pc[t], call'[t] = call[t]
  PROVE  TurnBacked(t)'
BY TicketKeeps DEF TurnBacked, Backed

\* Nor does a step of its own before the reply is at hand.
LEMMA WorkingBacked ==
  ASSUME Core, RowsStay, NEW t \in Turns, TurnBacked(t),
         loop'[t].settled = loop[t].settled,
         loop'[t].verdict = "escalate" => loop'[t].decided \in Orders,
         pc'[t] = "refunding" => loop'[t].at = "calling",
         loop'[t].at = "backstop" => pc'[t] # "escalating",
         loop'[t].at = "replying" => loop'[t].verdict # "escalate"
  PROVE  TurnBacked(t)'
BY TicketKeeps DEF TurnBacked

LEMMA OthersBacked ==
  ASSUME Core, RowsStay, AllBacked, NEW t \in Turns, TurnStep(t) \/ UNCHANGED vars,
         \A u \in Turns \ {t} : loop'[u] = loop[u], TurnBacked(t)'
  PROVE  AllBacked'
<1> SUFFICES ASSUME NEW u \in Turns, u # t PROVE TurnBacked(u)'
  BY DEF AllBacked
<1>1. /\ pc \in [Turns -> Phases] /\ call \in [Turns -> Call \cup {None}]
      /\ session \in [Turns -> Session \cup {None}]
  BY DEF Core, TypeOK
<1>2. pc'[u] = pc[u] /\ call'[u] = call[u] /\ session'[u] = session[u]
  BY <1>1 DEF TurnStep, OpenSession, LookupCustomer, IssueRefund, CommitRefund, Escalate,
     CommitEscalation, CommitTurn, CloseSession, vars, turnVars
<1> QED
  BY <1>2, UntouchedBacked DEF AllBacked
-----------------------------------------------------------------------------
\* One lemma for each kind of step a turn takes; l is its loop afterwards.
LEMMA ReturnedFields ==
  ASSUME NEW l, GoodLoop(l)
  PROVE  /\ Returned(l).settled = l.settled /\ Returned(l).verdict = l.verdict
         /\ Returned(l).decided = l.decided
         /\ l.at = "calling" => Returned(l).at \in {"calling", "finishing", "asking"}
BY DEF Returned, GoodLoop, LoopFields

LEMMA NextVerdictFields ==
  ASSUME NEW l, GoodLoop(l), NEW o, NEW v
  PROVE  /\ NextVerdict(l, o, v).settled = l.settled
         /\ NextVerdict(l, o, v).decided = o /\ NextVerdict(l, o, v).at = l.at
BY DEF NextVerdict, GoodLoop, LoopFields

LEMMA FocusFields ==
  ASSUME NEW l, GoodLoop(l), NEW o
  PROVE  LET f == [l EXCEPT !.focus = o]
         IN  /\ f.settled = l.settled /\ f.verdict = l.verdict
             /\ f.decided = l.decided /\ f.at = l.at
BY DEF GoodLoop, LoopFields

LEMMA StartBacked ==
  ASSUME Core, RowsStay, ChatInv, NEW t \in Turns, NEW c \in Conversations, NEW k \in Known,
         StartTurn(t, c, k)
  PROVE  TurnBacked(t)'
<1> DEFINE resolved == {e \in DOMAIN escalations : escalations[e].status = "resolved"}
<1>1. /\ loop'[t].settled = resolved /\ loop'[t].verdict = None /\ loop'[t].at = "asking"
  BY DEF StartTurn, ChatInv, LoopKnown, IdleLoop
<1>2. None # "escalate"
  BY ChatAssumption DEF Verdicts
<1>3. pc'[t] = "open"
  BY DEF StartTurn, OpenSession, Core, TypeOK
<1> QED
  BY <1>1, <1>2, <1>3, TicketKeeps DEF TurnBacked

LEMMA ModelBacked ==
  ASSUME Core, RowsStay, ChatInv, NEW t \in Turns, TurnBacked(t),
         LlmFails(t) \/ LlmAnswers(t) \/ \E n \in 1..MaxCalls : LlmCalls(t, n)
  PROVE  TurnBacked(t)'
<1>1. /\ GoodLoop(loop[t]) /\ DOMAIN loop = Turns /\ loop[t].at = "asking"
  BY DEF ChatInv, LoopKnown, LlmFails, LlmAnswers, LlmCalls, Stays
<1>2. /\ loop'[t].settled = loop[t].settled /\ loop'[t].verdict = loop[t].verdict
      /\ loop'[t].decided = loop[t].decided
      /\ loop'[t].at \in {"asking", "calling", "finishing"}
  <2>1. CASE LlmFails(t)
    BY <1>1, <2>1 DEF LlmFails, GoodLoop, LoopFields
  <2>2. CASE LlmAnswers(t)
    BY <1>1, <2>2 DEF LlmAnswers, GoodLoop, LoopFields
  <2>3. CASE \E n \in 1..MaxCalls : LlmCalls(t, n)
    BY <1>1, <2>3 DEF LlmCalls, GoodLoop, LoopFields
  <2> QED
    BY <2>1, <2>2, <2>3
<1>3. pc'[t] = "open"
  BY DEF LlmFails, LlmAnswers, LlmCalls, Stays, vars, turnVars
<1> QED
  BY <1>2, <1>3, WorkingBacked DEF TurnBacked

LEMMA ToolBacked ==
  ASSUME Core, RowsStay, ChatInv, NEW t \in Turns, TurnBacked(t), ToolCall(t)
  PROVE  TurnBacked(t)'
<1>1. /\ GoodLoop(loop[t]) /\ DOMAIN loop = Turns
  BY DEF ChatInv, LoopKnown
<1>2. \A o \in Orders \cup {None} : GoodLoop([loop[t] EXCEPT !.focus = o])
                                    \/ loop[t].at = "backstop"
  BY <1>1, FocusGood
<1> DEFINE Worked(l) ==
      /\ l.settled = loop[t].settled /\ l.at \in {"calling", "finishing", "asking"}
      /\ \/ l.verdict = loop[t].verdict /\ l.decided = loop[t].decided
         \/ l.decided \in Orders
<1>3. ASSUME NEW l, Worked(l), loop' = [loop EXCEPT ![t] = l],
             pc'[t] = "refunding" => l.at = "calling"
      PROVE  TurnBacked(t)'
  BY <1>1, <1>3, WorkingBacked DEF TurnBacked
<1>4. ASSUME loop[t].at = "calling", NEW o \in Orders \cup {None}
      PROVE  /\ Worked(Returned([loop[t] EXCEPT !.focus = o]))
             /\ Worked([loop[t] EXCEPT !.focus = o]) /\ Worked(Returned(loop[t]))
  <2> DEFINE f == [loop[t] EXCEPT !.focus = o]
  <2>1. GoodLoop(f) /\ f.at = "calling"
    BY <1>1, <1>4, FocusGood, FocusFields
  <2>2. /\ f.settled = loop[t].settled /\ f.verdict = loop[t].verdict
        /\ f.decided = loop[t].decided
    BY <1>1, FocusFields
  <2> HIDE DEF f
  <2>3. Worked(f) /\ Worked(Returned(f))
    BY <2>1, <2>2, ReturnedFields
  <2>4. Worked(Returned(loop[t]))
    BY <1>1, <1>4, ReturnedFields
  <2> QED
    BY <2>3, <2>4 DEF f
<1>5. ASSUME loop[t].at = "calling", NEW o \in Orders, NEW v \in Verdicts
      PROVE  /\ Worked(Returned(NextVerdict([loop[t] EXCEPT !.focus = o], o, v)))
             /\ Worked(Returned(NextVerdict(loop[t], o, v)))
  <2> DEFINE f == [loop[t] EXCEPT !.focus = o]
  <2>1. GoodLoop(f) /\ f.at = "calling" /\ f.settled = loop[t].settled
    BY <1>1, <1>5, FocusGood, FocusFields
  <2> HIDE DEF f
  <2>2. v \in MaybeVerdict
    BY DEF MaybeVerdict
  <2>3. ASSUME NEW l, GoodLoop(l), l.at = "calling", l.settled = loop[t].settled
        PROVE  Worked(Returned(NextVerdict(l, o, v)))
    <3> DEFINE n == NextVerdict(l, o, v)
    <3>1. GoodLoop(n)
      BY <2>2, <2>3, NextVerdictGood
    <3>2. n.settled = loop[t].settled /\ n.decided = o /\ n.at = "calling"
      BY <2>3, NextVerdictFields
    <3> HIDE DEF n
    <3>3. Worked(Returned(n))
      BY <3>1, <3>2, ReturnedFields
    <3> QED
      BY <3>3 DEF n
  <2>4. Worked(Returned(NextVerdict(f, o, v)))
    BY <2>1, <2>3
  <2>5. Worked(Returned(NextVerdict(loop[t], o, v)))
    BY <1>1, <1>5, <2>3
  <2> QED
    BY <2>4, <2>5 DEF f
<1> HIDE DEF Worked
<1>6. ASSUME \/ \E k \in CustomerIds : LookupTool(t, k)
             \/ \E o \in Orders \cup {None} : GetOrderTool(t, o)
             \/ ReadOnlyTool(t) \/ \E reason \in Reasons : RecordReasonTool(t, reason)
      PROVE  TurnBacked(t)'
  <2>1. pc'[t] = "open"
    BY <1>6 DEF LookupTool, GetOrderTool, ReadOnlyTool, RecordReasonTool, LookupCustomer,
       Stays, vars, turnVars
  <2> QED
    BY <1>3, <1>4, <1>6, <2>1 DEF LookupTool, GetOrderTool, ReadOnlyTool, RecordReasonTool, Stays
<1>7. ASSUME NEW o \in Orders, CheckTool(t, o) PROVE TurnBacked(t)'
  <2> DEFINE verdict == Answer(t, o).verdict
  <2>1. verdict \in Verdicts
    BY AnswerVerdict
  <2>2. pc'[t] = "open"
    BY <1>7 DEF CheckTool, Stays, vars, turnVars
  <2>3. CASE session[t].customer = None
    <3>1. loop' = [loop EXCEPT ![t] = Returned([loop[t] EXCEPT !.focus = o])]
      BY <1>7, <2>3 DEF CheckTool
    <3> QED
      BY <1>3, <1>4, <1>7, <2>2, <3>1 DEF CheckTool, Stays
  <2>4. CASE session[t].customer # None
    <3>1. loop' = [loop EXCEPT ![t] =
                     Returned(NextVerdict([loop[t] EXCEPT !.focus = o], o, verdict))]
      BY <1>7, <2>4 DEF CheckTool
    <3> HIDE DEF verdict
    <3> QED
      BY <1>3, <1>5, <1>7, <2>1, <2>2, <3>1 DEF CheckTool, Stays
  <2> QED
    BY <2>3, <2>4
<1>8. "approve" \in Verdicts /\ "escalate" \in Verdicts
  BY DEF Verdicts
<1>9. ASSUME NEW o \in Orders,
             \/ IssueToolRefused(t, o) \/ IssueTool(t, o)
             \/ EscalateToolReuses(t, o) \/ EscalateTool(t, o)
      PROVE  TurnBacked(t)'
  <2>1. loop[t].at = "calling" /\ [loop[t] EXCEPT !.focus = o].at = "calling"
    BY <1>1, <1>9, FocusFields
    DEF IssueToolRefused, IssueTool, EscalateToolReuses, EscalateTool, Stays
  <2>2. CASE IssueToolRefused(t, o) \/ EscalateToolReuses(t, o)
    <3>1. pc'[t] = "open"
      BY <2>2 DEF IssueToolRefused, EscalateToolReuses, Stays, vars, turnVars
    <3> QED
      BY <1>3, <1>4, <1>5, <1>8, <2>1, <2>2, <3>1 DEF IssueToolRefused, EscalateToolReuses
  <2>3. CASE IssueTool(t, o) \/ EscalateTool(t, o)
    BY <1>3, <1>4, <2>1, <2>3 DEF IssueTool, EscalateTool
  <2> QED
    BY <1>9, <2>2, <2>3
<1>10. ASSUME IssueToolCommit(t) \/ EscalateToolCommit(t) PROVE TurnBacked(t)'
  <2>1. call[t] \in Call /\ pc \in [Turns -> Phases]
    BY <1>10 DEF IssueToolCommit, EscalateToolCommit, CommitRefund, CommitEscalation,
       Core, TypeOK
  <2>2. call[t].order \in Orders /\ pc'[t] = "open"
    BY <1>10, <2>1 DEF Call, IssueToolCommit, EscalateToolCommit, CommitRefund,
       CommitEscalation
  <2>3. loop[t].at = "calling"
    BY <1>10 DEF IssueToolCommit, EscalateToolCommit, CommitRefund, TurnBacked
  <2> QED
    BY <1>3, <1>5, <1>8, <1>10, <2>2, <2>3 DEF IssueToolCommit, EscalateToolCommit
<1> QED
  BY <1>6, <1>7, <1>9, <1>10 DEF ToolCall

\* From the answer to the reply.
LEMMA FinishBacked ==
  ASSUME Core, RowsStay, ChatInv, NEW t \in Turns, TurnBacked(t), FinishTurn(t)
  PROVE  TurnBacked(t)'
<1>1. GoodLoop(loop[t]) /\ DOMAIN loop = Turns
  BY DEF ChatInv, LoopKnown
<1>2. /\ loop'[t].settled = loop[t].settled /\ loop'[t].verdict = loop[t].verdict
      /\ loop'[t].decided = loop[t].decided
      /\ loop'[t].at = IF loop[t].verdict = "escalate" THEN "ticketing" ELSE "replying"
  BY <1>1 DEF FinishTurn, GoodLoop, LoopFields
<1>3. pc'[t] = "open"
  BY DEF FinishTurn, CommitTurn
<1> QED
  BY <1>2, <1>3, WorkingBacked DEF TurnBacked

LEMMA TicketRefBacked ==
  ASSUME Core, RowsStay, ChatInv, NEW t \in Turns, TurnBacked(t), TicketRef(t)
  PROVE  TurnBacked(t)'
<1> DEFINE mine == TicketsOf(session[t].conversation)
<1>1. GoodLoop(loop[t]) /\ DOMAIN loop = Turns /\ pc[t] = "open"
      /\ UNCHANGED <<pc, session, call, requests, escalations>>
  BY DEF ChatInv, LoopKnown, TicketRef, Stays, vars, database, turnVars
<1>2. /\ loop'[t].settled = loop[t].settled /\ loop'[t].verdict = loop[t].verdict
      /\ loop'[t].decided = loop[t].decided /\ loop'[t].focus = loop[t].focus
      /\ loop'[t].at \in {"backstop", "replying"}
      /\ loop'[t].at = "replying" =>
           \/ mine # {} /\ loop'[t].ticket = Latest(mine)
           \/ loop[t].focus = None \/ session[t].customer = None
  BY <1>1 DEF TicketRef, GoodLoop, LoopFields
<1>3. ASSUME mine # {}
      PROVE  /\ Latest(mine) \in DOMAIN escalations
             /\ ConversationOf(Latest(mine)) = session[t].conversation
  BY <1>3, LatestTicket DEF TicketsOf, ConversationOf
<1>4. loop'[t].at = "replying" => Backed(t)'
  <2> HIDE DEF mine
  <2> QED
    BY <1>1, <1>2, <1>3 DEF Backed, ConversationOf
<1> QED
  BY <1>1, <1>2, <1>4 DEF TurnBacked

LEMMA BackstopReusesBacked ==
  ASSUME Core, RowsStay, ChatInv, NEW t \in Turns, TurnBacked(t), BackstopReuses(t)
  PROVE  TurnBacked(t)'
<1> DEFINE open == OpenTickets(loop[t].focus)
           e == Oldest(open)
<1>1. GoodLoop(loop[t]) /\ DOMAIN loop = Turns /\ pc[t] = "open"
      /\ UNCHANGED <<pc, session, call, requests, escalations>>
  BY DEF ChatInv, LoopKnown, BackstopReuses, Stays, vars, database, turnVars
<1>2. /\ loop'[t].settled = loop[t].settled /\ loop'[t].verdict = loop[t].verdict
      /\ loop'[t].decided = loop[t].decided /\ loop'[t].focus = loop[t].focus
      /\ loop'[t].at = "replying" /\ loop'[t].ticket = e
  BY <1>1 DEF BackstopReuses, GoodLoop, LoopFields
<1>3. e \in open
  BY OldestTicket DEF BackstopReuses
<1>4. /\ e \in DOMAIN escalations /\ TicketOrder(e) = loop[t].focus
      /\ escalations[e].status = "open"
  BY <1>3 DEF OpenTickets, TicketOrder
<1> HIDE DEF e
<1>5. e \notin loop[t].settled
  BY <1>4 DEF TurnBacked
<1>6. Backed(t)'
  BY <1>1, <1>2, <1>4, <1>5 DEF Backed, TicketOrder
<1> QED
  BY <1>1, <1>2, <1>6 DEF TurnBacked

LEMMA BackstopOpensBacked ==
  ASSUME Core, RowsStay, ChatInv, NEW t \in Turns, TurnBacked(t),
         Backstop(t) \/ BackstopCommit(t)
  PROVE  TurnBacked(t)'
<1>1. /\ GoodLoop(loop[t]) /\ DOMAIN loop = Turns
      /\ pc \in [Turns -> Phases] /\ call \in [Turns -> Call \cup {None}]
      /\ requests \in Seq(Request) /\ escalations \in Seq(Escalation)
  BY DEF ChatInv, LoopKnown, Core, TypeOK
<1>2. CASE Backstop(t)
  <2>1. /\ UNCHANGED <<loop, session, requests, escalations>> /\ loop[t].at = "backstop"
        /\ call'[t].order = loop[t].focus /\ pc'[t] = "escalating"
    BY <1>1, <1>2 DEF Backstop, Escalate, Stays, database
  <2> QED
    BY <2>1 DEF TurnBacked
<1>3. CASE BackstopCommit(t)
  <2> DEFINE e == Len(escalations) + 1
  <2>1. /\ e \in DOMAIN escalations' /\ e \notin DOMAIN escalations
        /\ Len(escalations') = e
        /\ requests'[escalations'[e].refund_request_id].order = call[t].order
    <3> DEFINE row == [order |-> call[t].order, conversation |-> session[t].conversation,
                       status |-> "decided", verdict |-> "escalate", decided_by |-> "agent"]
               ticket == [refund_request_id |-> Len(requests) + 1, status |-> "open"]
    <3>1. requests' = Append(requests, row) /\ escalations' = Append(escalations, ticket)
      BY <1>3 DEF BackstopCommit, CommitEscalation
    <3>2. row.order = call[t].order /\ ticket.refund_request_id = Len(requests) + 1
      OBVIOUS
    <3> HIDE DEF row, ticket
    <3> QED
      BY <1>1, <3>1, <3>2
  <2>2. /\ pc'[t] = "open" /\ UNCHANGED session /\ call[t].order = loop[t].focus
    BY <1>1, <1>3 DEF BackstopCommit, CommitEscalation, TurnBacked
  <2> HIDE DEF e
  <2>3. /\ loop'[t].settled = loop[t].settled /\ loop'[t].verdict = loop[t].verdict
        /\ loop'[t].decided = loop[t].decided /\ loop'[t].focus = loop[t].focus
        /\ loop'[t].at = "replying" /\ loop'[t].ticket = e
    BY <1>1, <1>3, <2>1 DEF BackstopCommit, GoodLoop, LoopFields
  <2>4. e \notin loop[t].settled
    BY <2>1 DEF TurnBacked
  <2>5. Backed(t)'
    BY <2>1, <2>2, <2>3, <2>4 DEF Backed, TicketOrder
  <2> QED
    BY <2>2, <2>3, <2>5, TicketKeeps DEF TurnBacked
<1> QED
  BY <1>2, <1>3

LEMMA EndBacked ==
  ASSUME Core, RowsStay, ChatInv, NEW t \in Turns, EndsTurn(t)
  PROVE  TurnBacked(t)'
<1>1. DOMAIN loop = Turns /\ pc'[t] = "closed"
  BY DEF ChatInv, LoopKnown, EndsTurn, CloseSession, Core, TypeOK
<1>2. None # "escalate"
  BY ChatAssumption DEF Verdicts
<1> QED
  BY <1>1, <1>2 DEF EndsTurn, IdleLoop, TurnBacked
-----------------------------------------------------------------------------
LEMMA BackstopStep ==
  ASSUME Core, ChatInv, TicketInv, AllBacked, [ChatNext]_chatVars
  PROVE  AllBacked'
<1>1. [Next]_vars /\ RowsStay
  BY ChatStepRefines, RowsStayStep
<1>2. LoopKnown /\ \A t \in Turns : TurnBacked(t)
  BY DEF ChatInv, AllBacked
<1>3. ASSUME UNCHANGED <<loop, session, pc, call>> PROVE AllBacked'
  BY <1>1, <1>2, <1>3, UntouchedBacked DEF AllBacked
<1>4. ASSUME NEW t \in Turns, TurnStep(t) \/ UNCHANGED vars, TurnBacked(t)',
             UNCHANGED loop \/ \E l : loop' = [loop EXCEPT ![t] = l]
      PROVE  AllBacked'
  <2>1. \A u \in Turns \ {t} : loop'[u] = loop[u]
    BY <1>2, <1>4 DEF LoopKnown
  <2> QED
    BY <1>1, <1>4, <2>1, OthersBacked
<1>5. ASSUME NEW t \in Turns, NEW c \in Conversations, NEW k \in Known, StartTurn(t, c, k)
      PROVE  AllBacked'
  BY <1>1, <1>4, <1>5, StartBacked, StartTurnStep DEF StartTurn
<1>6. ASSUME NEW t \in Turns,
             LlmFails(t) \/ LlmAnswers(t) \/ \E n \in 1..MaxCalls : LlmCalls(t, n)
      PROVE  AllBacked'
  BY <1>1, <1>2, <1>4, <1>6, ModelBacked DEF LlmFails, LlmAnswers, LlmCalls
<1>7. ASSUME NEW t \in Turns, ToolCall(t) PROVE AllBacked'
  <2>1. TurnBacked(t)'
    BY <1>1, <1>2, <1>7, ToolBacked
  <2>2. TurnStep(t) \/ UNCHANGED vars
    BY <1>7, QuietToolStep, ServiceToolStep DEF ToolCall
  <2>3. \E l : loop' = [loop EXCEPT ![t] = l]
    BY <1>7, <1>2 DEF ToolCall, LookupTool, GetOrderTool, ReadOnlyTool, RecordReasonTool,
       CheckTool, IssueToolRefused, IssueTool, EscalateToolReuses, EscalateTool,
       IssueToolCommit, EscalateToolCommit
  <2> QED
    BY <1>4, <2>1, <2>2, <2>3
<1>8. ASSUME NEW t \in Turns, FinishTurn(t) PROVE AllBacked'
  BY <1>1, <1>2, <1>4, <1>8, FinishBacked, FinishStep DEF FinishTurn
<1>9. ASSUME NEW t \in Turns,
             TicketRef(t) \/ BackstopReuses(t) \/ Backstop(t) \/ BackstopCommit(t)
      PROVE  AllBacked'
  <2>1. TurnBacked(t)'
    BY <1>1, <1>2, <1>9, TicketRefBacked, BackstopReusesBacked, BackstopOpensBacked
  <2>2. TurnStep(t) \/ UNCHANGED vars
    BY <1>9, TicketStep
  <2>3. UNCHANGED loop \/ \E l : loop' = [loop EXCEPT ![t] = l]
    BY <1>9 DEF TicketRef, BackstopReuses, Backstop, BackstopCommit
  <2> QED
    BY <1>4, <2>1, <2>2, <2>3
<1>10. ASSUME NEW t \in Turns, EndsTurn(t) PROVE AllBacked'
  BY <1>1, <1>4, <1>10, EndBacked, EndStep DEF EndsTurn
<1>11. ASSUME \/ UNCHANGED chatVars
              \/ Tick /\ UNCHANGED loop
              \/ \E m \in Managers : ManagerStep(m) /\ UNCHANGED loop
              \/ \E c \in Conversations : CloseConversation(c)
       PROVE  AllBacked'
  <2>1. UNCHANGED <<loop, session, pc, call>>
    BY <1>11 DEF Tick, chatVars, vars, turnVars, CloseConversation, ManagerStep,
       ResolveTicket, LoadRequest, LoadOrder, LoadConversation, ResolveCommit, ResolveAbort
  <2> QED
    BY <1>3, <2>1
<1> QED
  BY <1>5, <1>6, <1>7, <1>8, <1>9, <1>10, <1>11
  DEF ChatNext, ChatRequest, VoiceTurn, TurnProgress, Reply, Crash, Known

LEMMA ChatInvariant == ChatSpec => [](Core /\ ChatInv /\ TicketInv /\ AllBacked)
<1>1. ChatInit => Core /\ ChatInv /\ TicketInv /\ AllBacked
  <2> SUFFICES ASSUME ChatInit PROVE Core /\ ChatInv /\ TicketInv /\ AllBacked
    OBVIOUS
  <2>1. Init /\ ChatInv
    BY ChatInitGood
  <2>2. Core /\ TicketInv
    BY <2>1, InitTypeOK DEF Core, References, Init, IdleDesk, TicketInv,
       TicketMatchesRequest, CopiesLag
  <2>3. None # "escalate"
    BY ChatAssumption DEF Verdicts
  <2>4. AllBacked
    BY <2>3 DEF ChatInit, Init, AllBacked, TurnBacked, IdleLoop
  <2> QED
    BY <2>1, <2>2, <2>4
<1>2. ASSUME Core, ChatInv, TicketInv, AllBacked, [ChatNext]_chatVars
      PROVE  Core' /\ ChatInv' /\ TicketInv' /\ AllBacked'
  BY <1>2, ChatStepRefines, CoreInductive, TicketInvStep, BackstopStep
<1> QED
  BY <1>1, <1>2, PTL DEF ChatSpec

\* The runner's backstop covers every conversation about one order, for any number
\* of turns, managers and conversations and whatever the model does.
THEOREM BackstopIsSound == ChatSpec => []BackstopCoversSoleOrder
<1>1. ASSUME AllBacked PROVE BackstopCoversSoleOrder
  <2> SUFFICES ASSUME NEW t \in Turns, Escalated(t),
                      \A e \in TicketsOf(session[t].conversation) :
                        TicketOrder(e) = loop[t].focus /\ e \notin loop[t].settled
               PROVE  /\ HadTicket(t, loop[t].focus)
                      /\ loop[t].ticket \in DOMAIN escalations
                      /\ TicketOrder(loop[t].ticket) = loop[t].focus
    BY DEF BackstopCoversSoleOrder
  <2>1. TurnBacked(t)
    BY <1>1 DEF AllBacked
  <2>2. loop[t].focus # None /\ session[t].customer # None
    BY <2>1, ChatAssumption DEF TurnBacked, Escalated
  <2>3. /\ loop[t].ticket \in DOMAIN escalations /\ loop[t].ticket \notin loop[t].settled
        /\ TicketOrder(loop[t].ticket) = loop[t].focus
    BY <2>1, <2>2 DEF TurnBacked, Escalated, Backed, TicketsOf, ConversationOf
  <2> QED
    BY <2>3 DEF HadTicket
<1> QED
  BY <1>1, ChatInvariant, PTL
-----------------------------------------------------------------------------
\* A loop of the right type that has a step left whenever it asks the model.
LoopTyped(l) == l \in Loop /\ (l.at = "asking" => l.step < MaxSteps)

ChatTypeInv == ChatTypeOK /\ \A t \in Turns : LoopTyped(loop[t])

LEMMA ReturnedTyped ==
  ASSUME NEW l \in Loop, l.at = "calling"
  PROVE  LoopTyped(Returned(l)) /\ Returned(l).at # "off"
<1>1. CASE l.calls > 1
  <2>1. l.calls - 1 \in 0..MaxCalls
    BY <1>1, ChatAssumption DEF Loop
  <2> QED
    BY <1>1, <2>1 DEF Returned, Loop, LoopTyped
<1>2. CASE ~(l.calls > 1)
  <2> DEFINE at == IF l.step = MaxSteps THEN "finishing" ELSE "asking"
  <2>1. at \in {"finishing", "asking"} /\ (at = "asking" => l.step < MaxSteps)
    BY ChatAssumption DEF Loop
  <2>2. Returned(l) = [l EXCEPT !.calls = 0, !.attempt = 0, !.at = at]
    BY <1>2 DEF Returned
  <2>3. 0 \in 0..MaxCalls /\ 0 \in 0..MaxRetries
    BY ChatAssumption
  <2> HIDE DEF at
  <2> QED
    BY <2>1, <2>2, <2>3 DEF Loop, LoopTyped
<1> QED
  BY <1>1, <1>2

LEMMA PhaseTyped ==
  ASSUME NEW l \in Loop,
         NEW at \in {"calling", "finishing", "ticketing", "backstop", "replying"}
  PROVE  LoopTyped([l EXCEPT !.at = at]) /\ [l EXCEPT !.at = at].at = at
BY DEF Loop, LoopTyped

LEMMA TicketTyped ==
  ASSUME NEW l \in Loop, NEW e \in Nat \cup {None}
  PROVE  /\ LoopTyped([l EXCEPT !.ticket = e, !.at = "replying"])
         /\ [l EXCEPT !.ticket = e, !.at = "replying"].at = "replying"
BY DEF Loop, LoopTyped

LEMMA FocusTyped ==
  ASSUME NEW l \in Loop, NEW o \in Orders \cup {None}
  PROVE  [l EXCEPT !.focus = o] \in Loop /\ [l EXCEPT !.focus = o].at = l.at
BY DEF Loop

LEMMA VerdictTyped ==
  ASSUME NEW l \in Loop, NEW o \in Orders, NEW v \in MaybeVerdict
  PROVE  NextVerdict(l, o, v) \in Loop /\ NextVerdict(l, o, v).at = l.at
BY DEF Loop, NextVerdict

LEMMA ThreadTyped ==
  ASSUME NEW r \in Thread
  PROVE  /\ \A k \in CustomerIds \cup {None} : [r EXCEPT !.customer_id = k] \in Thread
         /\ \A o \in Orders \cup {None} : [r EXCEPT !.order_id = o] \in Thread
         /\ \A x \in Reasons \cup {None} : [r EXCEPT !.refund_reason = x] \in Thread
         /\ [r EXCEPT !.status = "closed"] \in Thread
BY DEF Thread

LEMMA AssignedTyped ==
  ASSUME NEW d \in Draft
  PROVE  /\ \A k \in CustomerIds \cup {None} : Assigned(d, "customer_id", k) \in Draft
         /\ \A x \in Reasons \cup {None} : Assigned(d, "refund_reason", x) \in Draft
<1>1. /\ d.loaded \in Thread /\ d.current \in Thread
      /\ d.current.customer_id \in CustomerIds \cup {None}
      /\ d.current.refund_reason \in Reasons \cup {None}
  BY DEF Draft, Thread
<1> QED
  BY <1>1, ThreadTyped DEF Assigned, Draft

LEMMA FreshTyped == FreshThread \in Thread /\ NoDraft \in Draft /\ IdleLoop \in Loop
BY ChatAssumption DEF FreshThread, NoDraft, IdleLoop, Thread, Draft, Loop, MaybeVerdict

\* A step of turn t that gives it a typed loop, alive as long as the turn is.
LEMMA LoopTypeStep ==
  ASSUME ChatTypeInv, pc \in [Turns -> Phases], NEW t \in Turns, NEW l, LoopTyped(l),
         l.at = "off" <=> pc'[t] = "closed",
         loop' = [loop EXCEPT ![t] = l],
         \A u \in Turns \ {t} : pc'[u] = pc[u],
         (thread \in [Conversations -> Thread])', (draft \in [Turns -> Draft])'
  PROVE  ChatTypeInv'
<1>1. \A u \in Turns : loop'[u] = IF u = t THEN l ELSE loop[u]
  BY DEF ChatTypeInv, ChatTypeOK
<1>2. \A u \in Turns : LoopTyped(loop'[u])
  BY <1>1 DEF ChatTypeInv
<1>3. loop' \in [Turns -> Loop]
  BY DEF ChatTypeInv, ChatTypeOK, LoopTyped
<1>4. \A u \in Turns : loop'[u].at = "off" <=> pc'[u] = "closed"
  BY <1>1 DEF ChatTypeInv, ChatTypeOK
<1>5. \A u \in Turns : (loop'[u].at = "asking" => loop'[u].step < MaxSteps)
  BY <1>2 DEF LoopTyped
<1> QED
  BY <1>2, <1>3, <1>4, <1>5 DEF ChatTypeInv, ChatTypeOK, LoopTyped

\* A commit merges three typed rows column by column.
LEMMA CommitsTyped ==
  ASSUME ChatTypeInv, NEW t \in Turns, NEW d \in Draft, Commits(t, d)
  PROVE  /\ (thread \in [Conversations -> Thread])'
         /\ (draft \in [Turns -> Draft])'
<1> DEFINE c == session[t].conversation
           row(r) == [col \in DOMAIN r |->
                        Written(d.loaded[col], d.current[col], r[col])]
<1>1. /\ thread' = [thread EXCEPT ![c] = row(thread[c])]
      /\ draft' = [draft EXCEPT ![t] = [loaded |-> d.current, current |-> d.current]]
  BY DEF Commits
<1>2. d.loaded \in Thread /\ d.current \in Thread
  BY DEF Draft
<1>3. ASSUME NEW r \in Thread PROVE row(r) \in Thread
  <2>1. \A a, b \in Thread, col \in ThreadFields :
          Written(a[col], b[col], r[col]) \in {b[col], r[col]}
    BY DEF Written
  <2>2. DOMAIN r = ThreadFields
    BY DEF Thread, ThreadFields
  <2> DEFINE w == row(r)
  <2>3. w = [col \in ThreadFields |-> Written(d.loaded[col], d.current[col], r[col])]
    BY <2>2
  <2>4. /\ w.customer_id \in CustomerIds \cup {None} /\ w.order_id \in Orders \cup {None}
        /\ w.refund_reason \in Reasons \cup {None} /\ w.status \in {"active", "closed"}
    <3> HIDE DEF w
    <3>1. \A col \in ThreadFields : w[col] \in {d.current[col], r[col]}
      BY <2>1, <2>3, <1>2
    <3> QED
      BY <1>2, <3>1 DEF Thread, ThreadFields
  <2>5. w = [customer_id |-> w.customer_id, order_id |-> w.order_id,
             refund_reason |-> w.refund_reason, status |-> w.status]
    BY <2>3 DEF ThreadFields
  <2> HIDE DEF w
  <2>6. w \in Thread
    BY <2>4, <2>5 DEF Thread
  <2> QED
    BY <2>6 DEF w
<1>4. thread' \in [Conversations -> Thread]
  <2> HIDE DEF row
  <2> QED
    BY <1>1, <1>3 DEF ChatTypeInv, ChatTypeOK
<1>5. draft' \in [Turns -> Draft]
  <2>1. [loaded |-> d.current, current |-> d.current] \in Draft
    BY <1>2 DEF Draft
  <2> QED
    BY <1>1, <2>1 DEF ChatTypeInv, ChatTypeOK
<1> QED
  BY <1>4, <1>5
-----------------------------------------------------------------------------
LEMMA StartTypes ==
  ASSUME Core, ChatTypeInv, NEW t \in Turns, NEW c \in Conversations,
         NEW k \in CustomerIds \cup {None}, StartTurn(t, c, k)
  PROVE  ChatTypeInv'
<1> DEFINE settled == {e \in DOMAIN escalations : escalations[e].status = "resolved"}
           fresh == [IdleLoop EXCEPT !.at = "asking", !.settled = settled]
           customer == KnownCustomer(c, k)
           d == [loaded |-> thread[c], current |-> [thread[c] EXCEPT !.customer_id = customer]]
<1>1. thread[c] \in Thread
  BY DEF ChatTypeInv, ChatTypeOK
<1>2. customer \in CustomerIds \cup {None}
  BY <1>1 DEF KnownCustomer, Thread
<1>3. d \in Draft
  BY <1>1, <1>2, ThreadTyped DEF Draft
<1>4. settled \in SUBSET Nat
  BY DEF Core, TypeOK
<1>5. LoopTyped(fresh) /\ fresh.at = "asking"
  <2>1. 0 < MaxSteps /\ IdleLoop \in Loop /\ IdleLoop.step = 0
    BY ChatAssumption, FreshTyped DEF IdleLoop
  <2> HIDE DEF settled
  <2> QED
    BY <1>4, <2>1 DEF Loop, LoopTyped
<1>6. thread' \in [Conversations -> Thread] /\ draft' \in [Turns -> Draft]
  <2>1. draft' = [draft EXCEPT ![t] = d] /\ thread' = thread
    BY DEF StartTurn
  <2> HIDE DEF d
  <2> QED
    BY <1>3, <2>1 DEF ChatTypeInv, ChatTypeOK
<1>7. pc \in [Turns -> Phases] /\ pc' = [pc EXCEPT ![t] = "open"]
  BY DEF Core, TypeOK, StartTurn, OpenSession
<1>8. loop' = [loop EXCEPT ![t] = fresh]
  BY DEF StartTurn
<1> HIDE DEF fresh
<1> QED
  BY <1>5, <1>6, <1>7, <1>8, LoopTypeStep

\* Steps that touch neither a row nor the session: the model answers or fails, a
\* tool reads or refuses, the runner looks for a ticket.
LEMMA PrivateTypes ==
  ASSUME Core, ChatTypeInv, NEW t \in Turns, NEW l, LoopTyped(l), l.at # "off",
         pc[t] = "open", loop' = [loop EXCEPT ![t] = l], UNCHANGED <<vars, thread>>,
         (draft \in [Turns -> Draft])'
  PROVE  ChatTypeInv'
<1>1. pc \in [Turns -> Phases] /\ pc' = pc
  BY DEF Core, TypeOK, vars, turnVars
<1>2. (thread \in [Conversations -> Thread])'
  BY DEF ChatTypeInv, ChatTypeOK
<1> QED
  BY <1>1, <1>2, LoopTypeStep

LEMMA ModelTypes ==
  ASSUME Core, ChatTypeInv, NEW t \in Turns,
         LlmFails(t) \/ LlmAnswers(t) \/ \E n \in 1..MaxCalls : LlmCalls(t, n)
  PROVE  ChatTypeInv'
<1>1. loop[t] \in Loop /\ pc[t] = "open" /\ loop[t].step < MaxSteps /\ loop[t].at = "asking"
  BY DEF ChatTypeInv, ChatTypeOK, LoopTyped, LlmFails, LlmAnswers, LlmCalls, Stays
<1>2. UNCHANGED <<vars, thread, draft>> /\ draft' \in [Turns -> Draft]
  BY DEF LlmFails, LlmAnswers, LlmCalls, ChatTypeInv, ChatTypeOK
<1>3. LoopTyped([loop[t] EXCEPT !.at = "finishing"])
      /\ [loop[t] EXCEPT !.at = "finishing"].at # "off"
  BY <1>1, PhaseTyped
<1>4. CASE LlmFails(t)
  <2> DEFINE again == [loop[t] EXCEPT !.attempt = loop[t].attempt + 1]
             next == IF loop[t].attempt < MaxRetries THEN again
                     ELSE [loop[t] EXCEPT !.at = "finishing"]
  <2>1. ASSUME loop[t].attempt < MaxRetries PROVE LoopTyped(again) /\ again.at # "off"
    <3>1. loop[t].attempt + 1 \in 0..MaxRetries
      BY <1>1, <2>1, ChatAssumption DEF Loop
    <3> QED
      BY <1>1, <3>1 DEF Loop, LoopTyped
  <2>2. LoopTyped(next) /\ next.at # "off"
    BY <1>3, <2>1
  <2>3. loop' = [loop EXCEPT ![t] = next]
    BY <1>4 DEF LlmFails
  <2> HIDE DEF next
  <2> QED
    BY <1>1, <1>2, <2>2, <2>3, PrivateTypes
<1>5. CASE LlmAnswers(t)
  <2>1. loop' = [loop EXCEPT ![t] = [loop[t] EXCEPT !.at = "finishing"]]
    BY <1>5 DEF LlmAnswers
  <2> QED
    BY <1>1, <1>2, <1>3, <2>1, PrivateTypes
<1>6. ASSUME NEW n \in 1..MaxCalls, LlmCalls(t, n) PROVE ChatTypeInv'
  <2> DEFINE next == [loop[t] EXCEPT !.at = "calling", !.step = loop[t].step + 1, !.calls = n]
  <2>1. loop[t].step + 1 \in 0..MaxSteps /\ n \in 0..MaxCalls
    BY <1>1, ChatAssumption DEF Loop
  <2>2. LoopTyped(next) /\ next.at # "off"
    BY <1>1, <2>1 DEF Loop, LoopTyped
  <2>3. loop' = [loop EXCEPT ![t] = next]
    BY <1>6 DEF LlmCalls
  <2> HIDE DEF next
  <2> QED
    BY <1>1, <1>2, <2>2, <2>3, PrivateTypes
<1> QED
  BY <1>4, <1>5, <1>6

LEMMA QuietToolTypes ==
  ASSUME Core, ChatTypeInv, NEW t \in Turns,
         \/ \E o \in Orders \cup {None} : GetOrderTool(t, o)
         \/ ReadOnlyTool(t) \/ \E reason \in Reasons : RecordReasonTool(t, reason)
         \/ \E o \in Orders : \/ CheckTool(t, o) \/ IssueToolRefused(t, o)
                              \/ EscalateToolReuses(t, o)
  PROVE  ChatTypeInv'
<1>1. loop[t] \in Loop /\ loop[t].at = "calling" /\ pc[t] = "open"
  BY DEF ChatTypeInv, ChatTypeOK, GetOrderTool, ReadOnlyTool, RecordReasonTool, CheckTool,
     IssueToolRefused, EscalateToolReuses, Stays
<1>2. UNCHANGED <<vars, thread>>
  BY DEF GetOrderTool, ReadOnlyTool, RecordReasonTool, CheckTool, IssueToolRefused,
     EscalateToolReuses
<1>3. draft' \in [Turns -> Draft]
  <2>1. ASSUME NEW reason \in Reasons, RecordReasonTool(t, reason)
        PROVE  draft' \in [Turns -> Draft]
    <3>1. Assigned(draft[t], "refund_reason", reason) \in Draft
      BY AssignedTyped DEF ChatTypeInv, ChatTypeOK
    <3> QED
      BY <2>1, <3>1 DEF RecordReasonTool, ChatTypeInv, ChatTypeOK
  <2>2. CASE ~ \E reason \in Reasons : RecordReasonTool(t, reason)
    BY <2>2 DEF GetOrderTool, ReadOnlyTool, CheckTool, IssueToolRefused,
       EscalateToolReuses, ChatTypeInv, ChatTypeOK
  <2> QED
    BY <2>1, <2>2
<1> DEFINE named(o) == [loop[t] EXCEPT !.focus = o]
<1>4. \A o \in Orders \cup {None} : named(o) \in Loop /\ named(o).at = "calling"
  BY <1>1, FocusTyped
<1>5. ASSUME NEW o \in Orders, NEW v \in MaybeVerdict
      PROVE  NextVerdict(named(o), o, v) \in Loop /\ NextVerdict(named(o), o, v).at = "calling"
  <2>1. named(o) \in Loop /\ named(o).at = "calling"
    BY <1>4
  <2> HIDE DEF named
  <2> QED
    BY <2>1, VerdictTyped
<1>6. ASSUME NEW l \in Loop, l.at = "calling", loop' = [loop EXCEPT ![t] = Returned(l)]
      PROVE  ChatTypeInv'
  BY <1>1, <1>2, <1>3, <1>6, ReturnedTyped, PrivateTypes
<1>7. ASSUME NEW o \in Orders \cup {None}, GetOrderTool(t, o) PROVE ChatTypeInv'
  BY <1>4, <1>6, <1>7 DEF GetOrderTool
<1>8. ASSUME ReadOnlyTool(t) \/ \E reason \in Reasons : RecordReasonTool(t, reason)
      PROVE  ChatTypeInv'
  BY <1>1, <1>6, <1>8 DEF ReadOnlyTool, RecordReasonTool
<1>9. ASSUME NEW o \in Orders, CheckTool(t, o) PROVE ChatTypeInv'
  <2> DEFINE verdict == Answer(t, o).verdict
             next == IF session[t].customer = None THEN named(o)
                     ELSE NextVerdict(named(o), o, verdict)
  <2>1. verdict \in MaybeVerdict
    BY AnswerVerdict DEF MaybeVerdict
  <2>2. next \in Loop /\ next.at = "calling"
    BY <1>4, <1>5, <2>1
  <2>3. loop' = [loop EXCEPT ![t] = Returned(next)]
    BY <1>9 DEF CheckTool
  <2> HIDE DEF next
  <2> QED
    BY <1>6, <2>2, <2>3
<1>10. ASSUME NEW o \in Orders, IssueToolRefused(t, o) PROVE ChatTypeInv'
  BY <1>4, <1>6, <1>10 DEF IssueToolRefused
<1>11. ASSUME NEW o \in Orders, EscalateToolReuses(t, o) PROVE ChatTypeInv'
  <2>1. "escalate" \in MaybeVerdict
    BY DEF MaybeVerdict, Verdicts
  <2>2. loop' = [loop EXCEPT ![t] = Returned(NextVerdict(named(o), o, "escalate"))]
    BY <1>11 DEF EscalateToolReuses
  <2> QED
    BY <1>5, <1>6, <2>1, <2>2
<1> QED
  BY <1>7, <1>8, <1>9, <1>10, <1>11

\* Steps of the service layer move the session; the turn stays in progress.
LEMMA ServiceTypes ==
  ASSUME Core, ChatTypeInv, NEW t \in Turns, NEW l, LoopTyped(l), l.at # "off",
         TurnStep(t), pc'[t] # "closed", loop' = [loop EXCEPT ![t] = l],
         (thread \in [Conversations -> Thread])', (draft \in [Turns -> Draft])'
  PROVE  ChatTypeInv'
<1>1. pc \in [Turns -> Phases]
  BY DEF Core, TypeOK
<1>2. \A u \in Turns \ {t} : pc'[u] = pc[u]
  BY TurnFrame
<1> QED
  BY <1>1, <1>2, LoopTypeStep

LEMMA ServiceToolTypes ==
  ASSUME Core, ChatTypeInv, AllBacked, NEW t \in Turns,
         \/ \E k \in CustomerIds : LookupTool(t, k)
         \/ \E o \in Orders : IssueTool(t, o) \/ EscalateTool(t, o)
         \/ IssueToolCommit(t) \/ EscalateToolCommit(t)
  PROVE  ChatTypeInv'
<1> USE DEF LookupTool, IssueTool, EscalateTool, IssueToolCommit, EscalateToolCommit
<1>1. loop[t] \in Loop /\ draft[t] \in Draft /\ pc \in [Turns -> Phases]
  BY DEF ChatTypeInv, ChatTypeOK, Core, TypeOK
<1>2. TurnStep(t)
  BY DEF TurnStep
<1>3. pc'[t] # "closed"
  BY <1>1 DEF Stays, LookupCustomer, IssueRefund, Escalate, CommitRefund, CommitEscalation
<1>4. ASSUME NEW k \in CustomerIds, LookupTool(t, k) PROVE ChatTypeInv'
  <2>1. LoopTyped(Returned(loop[t])) /\ Returned(loop[t]).at # "off"
    BY <1>1, <1>4, ReturnedTyped DEF Stays
  <2>2. Assigned(draft[t], "customer_id", k) \in Draft
    BY <1>1, AssignedTyped
  <2>3. thread' \in [Conversations -> Thread] /\ draft' \in [Turns -> Draft]
    BY <1>4, <2>2 DEF ChatTypeInv, ChatTypeOK
  <2>4. loop' = [loop EXCEPT ![t] = Returned(loop[t])]
    BY <1>4
  <2> QED
    BY <1>2, <1>3, <2>1, <2>3, <2>4, ServiceTypes
<1>5. ASSUME NEW o \in Orders, IssueTool(t, o) \/ EscalateTool(t, o) PROVE ChatTypeInv'
  <2> DEFINE next == [loop[t] EXCEPT !.focus = o]
  <2>1. next \in Loop /\ next.at = "calling"
    <3>1. loop[t].at = "calling"
      BY <1>5 DEF Stays
    <3> QED
      BY <1>1, <3>1, FocusTyped
  <2>2. LoopTyped(next) /\ next.at # "off"
    BY <2>1 DEF LoopTyped
  <2>3. thread' \in [Conversations -> Thread] /\ draft' \in [Turns -> Draft]
    BY <1>5 DEF ChatTypeInv, ChatTypeOK
  <2>4. loop' = [loop EXCEPT ![t] = next]
    BY <1>5
  <2> HIDE DEF next
  <2> QED
    BY <1>2, <1>3, <2>2, <2>3, <2>4, ServiceTypes
<1>6. ASSUME NEW v \in MaybeVerdict, loop[t].at = "calling", call[t] \in Call,
             loop' = [loop EXCEPT ![t] = Returned(NextVerdict(loop[t], call[t].order, v))],
             Commits(t, draft[t])
      PROVE  ChatTypeInv'
  <2> DEFINE next == Returned(NextVerdict(loop[t], call[t].order, v))
  <2>1. call[t].order \in Orders
    BY <1>6 DEF Call
  <2>2. LoopTyped(next) /\ next.at # "off"
    <3> DEFINE l == NextVerdict(loop[t], call[t].order, v)
    <3>1. l \in Loop /\ l.at = "calling"
      BY <1>1, <1>6, <2>1, VerdictTyped
    <3> HIDE DEF l
    <3>2. LoopTyped(Returned(l)) /\ Returned(l).at # "off"
      BY <3>1, ReturnedTyped
    <3> QED
      BY <3>2 DEF l
  <2>3. thread' \in [Conversations -> Thread] /\ draft' \in [Turns -> Draft]
    BY <1>1, <1>6, CommitsTyped
  <2> HIDE DEF next
  <2> QED
    BY <1>2, <1>3, <1>6, <2>2, <2>3, ServiceTypes DEF next
<1>7. "approve" \in MaybeVerdict /\ "escalate" \in MaybeVerdict
  BY DEF MaybeVerdict, Verdicts
<1>8. CASE EscalateToolCommit(t)
  <2>1. call[t] \in Call
    BY <1>8 DEF CommitEscalation, Core, TypeOK
  <2> QED
    BY <1>6, <1>7, <1>8, <2>1
<1>9. CASE IssueToolCommit(t)
  <2>1. call[t] \in Call /\ loop[t].at = "calling"
    BY <1>9 DEF CommitRefund, Core, TypeOK, AllBacked, TurnBacked
  <2> QED
    BY <1>6, <1>7, <1>9, <2>1
<1> QED
  BY <1>4, <1>5, <1>8, <1>9

LEMMA FinishTypes ==
  ASSUME Core, ChatInv, ChatTypeInv, NEW t \in Turns, FinishTurn(t)
  PROVE  ChatTypeInv'
<1> DEFINE at == IF loop[t].verdict = "escalate" THEN "ticketing" ELSE "replying"
           next == [loop[t] EXCEPT !.at = at]
           o == IF loop[t].focus = None THEN draft[t].current.order_id ELSE loop[t].focus
           d == [draft[t] EXCEPT !.current.order_id = o]
<1>1. loop[t] \in Loop /\ draft[t] \in Draft /\ draft[t].current \in Thread
  BY DEF ChatTypeInv, ChatTypeOK, Draft
<1>2. TurnStep(t) /\ pc'[t] # "closed"
  BY FinishStep DEF FinishTurn, CommitTurn
<1>3. d \in Draft
  <2>1. o \in Orders \cup {None}
    BY <1>1 DEF Loop, Thread
  <2> HIDE DEF o
  <2> QED
    BY <1>1, <2>1, ThreadTyped DEF Draft
<1>4. thread' \in [Conversations -> Thread] /\ draft' \in [Turns -> Draft]
  <2>1. Commits(t, d)
    BY DEF FinishTurn
  <2> HIDE DEF d
  <2> QED
    BY <1>3, <2>1, CommitsTyped
<1>5. LoopTyped(next) /\ next.at # "off"
  <2>1. at \in {"ticketing", "replying"}
    OBVIOUS
  <2> HIDE DEF at
  <2> QED
    BY <1>1, <2>1, PhaseTyped
<1>6. loop' = [loop EXCEPT ![t] = next]
  BY DEF FinishTurn
<1> HIDE DEF next
<1> QED
  BY <1>2, <1>4, <1>5, <1>6, ServiceTypes

LEMMA TicketTypes ==
  ASSUME Core, ChatInv, ChatTypeInv, NEW t \in Turns,
         TicketRef(t) \/ BackstopReuses(t) \/ Backstop(t) \/ BackstopCommit(t)
  PROVE  ChatTypeInv'
<1>1. loop[t] \in Loop /\ loop \in [Turns -> Loop] /\ pc \in [Turns -> Phases]
  BY DEF ChatTypeInv, ChatTypeOK, Core, TypeOK
<1>2. UNCHANGED <<thread, draft>>
  BY DEF TicketRef, BackstopReuses, Backstop, BackstopCommit
<1>3. thread' \in [Conversations -> Thread] /\ draft' \in [Turns -> Draft]
  BY <1>2 DEF ChatTypeInv, ChatTypeOK
<1>4. ASSUME NEW l, LoopTyped(l), l.at # "off", loop' = [loop EXCEPT ![t] = l],
             UNCHANGED vars, Stays(t, "ticketing") \/ Stays(t, "backstop")
      PROVE  ChatTypeInv'
  BY <1>2, <1>3, <1>4, PrivateTypes DEF Stays
<1>5. CASE TicketRef(t)
  <2> DEFINE mine == TicketsOf(session[t].conversation)
             named == [loop[t] EXCEPT !.ticket = Latest(mine), !.at = "replying"]
             next == IF mine # {} THEN named
                     ELSE IF loop[t].focus # None /\ session[t].customer # None
                     THEN [loop[t] EXCEPT !.at = "backstop"]
                     ELSE [loop[t] EXCEPT !.at = "replying"]
  <2>1. mine # {} => LoopTyped(named) /\ named.at = "replying"
    <3>1. mine # {} => Latest(mine) \in Nat
      BY LatestTicket
    <3> HIDE DEF mine
    <3> QED
      BY <1>1, <3>1, TicketTyped
  <2>2. LoopTyped(next) /\ next.at # "off"
    <3> HIDE DEF named, mine
    <3> QED
      BY <1>1, <2>1, PhaseTyped
  <2>3. loop' = [loop EXCEPT ![t] = next] /\ UNCHANGED vars
    BY <1>5 DEF TicketRef
  <2> HIDE DEF next
  <2> QED
    BY <1>4, <1>5, <2>2, <2>3 DEF TicketRef
<1>6. CASE BackstopReuses(t)
  <2> DEFINE e == Oldest(OpenTickets(loop[t].focus))
             next == [loop[t] EXCEPT !.ticket = e, !.at = "replying"]
  <2>1. LoopTyped(next) /\ next.at # "off"
    <3>1. e \in Nat
      BY <1>6, OldestTicket DEF BackstopReuses
    <3> HIDE DEF e
    <3> QED
      BY <1>1, <3>1, TicketTyped
  <2>2. loop' = [loop EXCEPT ![t] = next] /\ UNCHANGED vars
    BY <1>1, <1>6 DEF BackstopReuses, Loop
  <2> HIDE DEF next
  <2> QED
    BY <1>4, <1>6, <2>1, <2>2 DEF BackstopReuses
<1>7. CASE Backstop(t)
  <2>1. /\ pc' = [pc EXCEPT ![t] = "escalating"] /\ loop[t].at = "backstop"
        /\ UNCHANGED <<thread, draft, loop>>
    BY <1>7 DEF Backstop, Escalate, Stays
  <2> QED
    BY <1>1, <2>1 DEF ChatTypeInv, ChatTypeOK, LoopTyped
<1>8. CASE BackstopCommit(t)
  <2> DEFINE e == Len(escalations')
             next == [loop[t] EXCEPT !.ticket = e, !.at = "replying"]
  <2>1. e \in Nat /\ TurnStep(t) /\ pc'[t] = "open"
    BY <1>1, <1>8 DEF BackstopCommit, CommitEscalation, TurnStep, Core, TypeOK
  <2>2. LoopTyped(next) /\ next.at # "off"
    <3> HIDE DEF e
    <3> QED
      BY <1>1, <2>1, TicketTyped
  <2>3. loop' = [loop EXCEPT ![t] = next]
    BY <1>1, <1>8 DEF BackstopCommit, Loop
  <2> HIDE DEF next
  <2> QED
    BY <1>3, <2>1, <2>2, <2>3, ServiceTypes
<1> QED
  BY <1>5, <1>6, <1>7, <1>8

LEMMA EndTypes ==
  ASSUME Core, ChatTypeInv, NEW t \in Turns, EndsTurn(t)
  PROVE  ChatTypeInv'
<1>1. /\ pc \in [Turns -> Phases] /\ pc' = [pc EXCEPT ![t] = "closed"]
      /\ loop' = [loop EXCEPT ![t] = IdleLoop]
  BY DEF Core, TypeOK, EndsTurn, CloseSession
<1>2. LoopTyped(IdleLoop) /\ IdleLoop.at = "off"
  BY FreshTyped DEF LoopTyped, IdleLoop
<1>3. thread' \in [Conversations -> Thread] /\ draft' \in [Turns -> Draft]
  BY FreshTyped DEF EndsTurn, ChatTypeInv, ChatTypeOK
<1> HIDE DEF IdleLoop
<1> QED
  BY <1>1, <1>2, <1>3, LoopTypeStep

LEMMA ChatTypeStep ==
  ASSUME Core, ChatInv, AllBacked, ChatTypeInv, [ChatNext]_chatVars
  PROVE  ChatTypeInv'
<1>1. ASSUME UNCHANGED <<pc, thread, draft, loop>> PROVE ChatTypeInv'
  BY <1>1 DEF ChatTypeInv, ChatTypeOK, LoopTyped
<1>2. CASE Tick /\ UNCHANGED <<thread, draft, loop>>
  BY <1>1, <1>2 DEF Tick, turnVars
<1>3. ASSUME NEW t \in Turns, NEW c \in Conversations, NEW k \in CustomerIds \cup {None},
             StartTurn(t, c, k)
      PROVE  ChatTypeInv'
  BY <1>3, StartTypes
<1>4. ASSUME NEW t \in Turns, TurnProgress(t) PROVE ChatTypeInv'
  <2>1. CASE LlmFails(t) \/ LlmAnswers(t) \/ \E n \in 1..MaxCalls : LlmCalls(t, n)
    BY <2>1, ModelTypes
  <2>2. CASE ToolCall(t)
    BY <2>2, QuietToolTypes, ServiceToolTypes DEF ToolCall
  <2>3. CASE FinishTurn(t)
    BY <2>3, FinishTypes
  <2>4. CASE TicketRef(t) \/ BackstopReuses(t) \/ Backstop(t) \/ BackstopCommit(t)
    BY <2>4, TicketTypes
  <2>5. CASE Reply(t)
    BY <2>5, EndTypes DEF Reply
  <2> QED
    BY <1>4, <2>1, <2>2, <2>3, <2>4, <2>5 DEF TurnProgress
<1>5. ASSUME NEW t \in Turns, Crash(t) PROVE ChatTypeInv'
  BY <1>5, EndTypes DEF Crash
<1>6. ASSUME NEW m \in Managers, ManagerStep(m), UNCHANGED <<thread, draft, loop>>
      PROVE  ChatTypeInv'
  <2>1. UNCHANGED pc
    BY <1>6 DEF ManagerStep, ResolveTicket, LoadRequest, LoadOrder, LoadConversation,
       ResolveCommit, ResolveAbort, turnVars
  <2> QED
    BY <1>1, <1>6, <2>1
<1>7. ASSUME NEW c \in Conversations, CloseConversation(c) PROVE ChatTypeInv'
  <2>1. [thread[c] EXCEPT !.status = "closed"] \in Thread
    BY ThreadTyped DEF ChatTypeInv, ChatTypeOK
  <2>2. thread' \in [Conversations -> Thread] /\ UNCHANGED <<pc, draft, loop>>
    BY <1>7, <2>1 DEF CloseConversation, vars, turnVars, ChatTypeInv, ChatTypeOK
  <2> QED
    BY <2>2 DEF ChatTypeInv, ChatTypeOK, LoopTyped
<1>8. CASE UNCHANGED chatVars
  BY <1>1, <1>8 DEF chatVars, vars, turnVars
<1> QED
  BY <1>2, <1>3, <1>4, <1>5, <1>6, <1>7, <1>8 DEF ChatNext, ChatRequest, VoiceTurn

LEMMA ChatTypesInit == ChatInit => ChatTypeInv
<1>1. IdleLoop \in Loop /\ IdleLoop.at = "off"
  BY FreshTyped DEF IdleLoop
<1> QED
  BY <1>1, FreshTyped DEF ChatInit, Init, ChatTypeInv, ChatTypeOK, LoopTyped

\* The loop never counts past its limits: not the model responses of a turn, not
\* the repeated calls, not the tool calls of a response.  It runs exactly while its
\* session is open.
THEOREM ChatTypes == ChatSpec => []ChatTypeOK
<1>1. ChatInit => ChatTypeInv
  BY ChatTypesInit
<1>2. Core /\ ChatInv /\ AllBacked /\ ChatTypeInv /\ [ChatNext]_chatVars => ChatTypeInv'
  BY ChatTypeStep
<1>3. ChatTypeInv => ChatTypeOK
  BY DEF ChatTypeInv
<1> QED
  BY <1>1, <1>2, <1>3, ChatInvariant, PTL DEF ChatSpec
-----------------------------------------------------------------------------
Late == {"ticketing", "backstop", "replying"}

\* What a turn writes back names the customer its tools work for.  A turn that knows
\* nobody loaded a file that names nobody, and once the answer is stored the turn has
\* no change of the file left to write.
FileMatches(t) == pc[t] # "closed" =>
  /\ draft[t].current.customer_id = session[t].customer
  /\ session[t].customer = None => draft[t].loaded.customer_id = None
  /\ loop[t].at \in Late => draft[t].loaded.customer_id = session[t].customer

FilesMatch == \A t \in Turns : FileMatches(t)

\* A step of turn t as CaseNamesCustomer wants it.
Filed(t) ==
  /\ (TurnCommits(t) /\ session[t].customer # None) =>
       \/ thread'[session[t].conversation].customer_id = session[t].customer
       \/ draft[t].loaded.customer_id = session[t].customer
  /\ \A c \in Conversations : thread'[c].customer_id # thread[c].customer_id =>
       /\ pc[t] # "closed" /\ session[t].conversation = c
       /\ thread'[c].customer_id = session[t].customer /\ session[t].customer # None

\* A commit either changes the customer on file to the turn's or has none to change.
LEMMA CommitFiles ==
  ASSUME Core, ChatTypeInv, FilesMatch, NEW t \in Turns, pc[t] # "closed",
         NEW d \in Draft, Commits(t, d),
         d.loaded = draft[t].loaded,
         d.current.customer_id = draft[t].current.customer_id,
         session'[t].customer = session[t].customer
  PROVE  FileMatches(t)' /\ Filed(t)
<1> DEFINE c == session[t].conversation
           row == [col \in DOMAIN thread[c] |->
                     Written(d.loaded[col], d.current[col], thread[c][col])]
<1>1. /\ c \in Conversations /\ thread \in [Conversations -> Thread]
      /\ draft \in [Turns -> Draft]
  BY DEF Core, TypeOK, Session, ChatTypeInv, ChatTypeOK
<1>2. row.customer_id = IF d.current.customer_id = d.loaded.customer_id
                        THEN thread[c].customer_id ELSE d.current.customer_id
  <2>1. "customer_id" \in DOMAIN thread[c]
    BY <1>1 DEF Thread
  <2> QED
    BY <2>1 DEF Written
<1>3. /\ thread' = [thread EXCEPT ![c] = row]
      /\ draft' = [draft EXCEPT ![t] = [loaded |-> d.current, current |-> d.current]]
  BY DEF Commits
<1>4. /\ d.current.customer_id = session[t].customer
      /\ session[t].customer = None => d.loaded.customer_id = None
  BY DEF FilesMatch, FileMatches
<1> HIDE DEF c, row
<1>5. /\ thread'[c].customer_id = row.customer_id
      /\ \A k \in Conversations \ {c} : thread'[k] = thread[k]
  BY <1>1, <1>3
<1>6. /\ draft'[t].loaded.customer_id = d.current.customer_id
      /\ draft'[t].current.customer_id = d.current.customer_id
  BY <1>1, <1>3
<1>7. FileMatches(t)'
  BY <1>4, <1>6 DEF FileMatches
<1>8. Filed(t)
  BY <1>2, <1>4, <1>5 DEF Filed, c
<1> QED
  BY <1>7, <1>8

\* Steps that write nothing.  Of these only the backstop's ticket is a commit.
LEMMA QuietFiles ==
  ASSUME FilesMatch, NEW t \in Turns, pc[t] # "closed", UNCHANGED <<thread, draft>>,
         session'[t].customer = session[t].customer,
         loop'[t].at \in Late => loop[t].at \in Late,
         TurnCommits(t) => loop[t].at \in Late
  PROVE  FileMatches(t)' /\ Filed(t)
BY DEF FilesMatch, FileMatches, Filed

LEMMA ModelFiles ==
  ASSUME Core, ChatInv, FilesMatch, NEW t \in Turns,
         LlmFails(t) \/ LlmAnswers(t) \/ \E n \in 1..MaxCalls : LlmCalls(t, n)
  PROVE  FileMatches(t)' /\ Filed(t)
<1>1. /\ GoodLoop(loop[t]) /\ DOMAIN loop = Turns /\ loop[t].at = "asking" /\ pc[t] = "open"
      /\ UNCHANGED <<pc, session, thread, draft>>
  BY DEF ChatInv, LoopKnown, LlmFails, LlmAnswers, LlmCalls, Stays, vars, turnVars
<1>2. loop'[t].at \in {"asking", "calling", "finishing"}
  BY <1>1 DEF LlmFails, LlmAnswers, LlmCalls, GoodLoop, LoopFields
<1>3. ~ TurnCommits(t)
  BY <1>1 DEF TurnCommits
<1> QED
  BY <1>1, <1>2, <1>3, QuietFiles DEF Late

\* Where the loop is after a tool.
LEMMA ToolAt ==
  ASSUME ChatInv, AllBacked, NEW t \in Turns, ToolCall(t)
  PROVE  loop[t].at = "calling" /\ loop'[t].at \in {"calling", "finishing", "asking"}
<1>1. GoodLoop(loop[t]) /\ DOMAIN loop = Turns /\ TurnBacked(t)
  BY DEF ChatInv, LoopKnown, AllBacked
<1>2. loop[t].at = "calling"
  BY <1>1 DEF ToolCall, LookupTool, GetOrderTool, ReadOnlyTool, RecordReasonTool, CheckTool,
     IssueToolRefused, IssueTool, EscalateToolReuses, EscalateTool, IssueToolCommit,
     CommitRefund, EscalateToolCommit, Stays, TurnBacked
<1> DEFINE Tooled(l) == GoodLoop(l) /\ l.at = "calling"
<1>3. \A l : Tooled(l) => Returned(l).at \in {"calling", "finishing", "asking"}
  BY ReturnedFields
<1>4. /\ Tooled(loop[t])
      /\ \A o \in Orders \cup {None} : Tooled([loop[t] EXCEPT !.focus = o])
  BY <1>1, <1>2, FocusGood, FocusFields
<1>5. \A l, o : \A v \in MaybeVerdict : Tooled(l) => Tooled(NextVerdict(l, o, v))
  BY NextVerdictGood, NextVerdictFields
<1> HIDE DEF Tooled
<1>6. "approve" \in MaybeVerdict /\ "escalate" \in MaybeVerdict
  BY DEF MaybeVerdict, Verdicts
<1>7. ASSUME NEW l, Tooled(l), loop' = [loop EXCEPT ![t] = Returned(l)]
      PROVE  loop'[t].at \in {"calling", "finishing", "asking"}
  BY <1>1, <1>3, <1>7
<1>8. ASSUME \/ \E k \in CustomerIds : LookupTool(t, k)
             \/ \E o \in Orders \cup {None} : GetOrderTool(t, o)
             \/ ReadOnlyTool(t) \/ \E reason \in Reasons : RecordReasonTool(t, reason)
             \/ \E o \in Orders : IssueToolRefused(t, o)
      PROVE  loop'[t].at \in {"calling", "finishing", "asking"}
  BY <1>4, <1>7, <1>8 DEF LookupTool, GetOrderTool, ReadOnlyTool, RecordReasonTool,
     IssueToolRefused
<1>9. ASSUME NEW o \in Orders, CheckTool(t, o)
      PROVE  loop'[t].at \in {"calling", "finishing", "asking"}
  <2> DEFINE named == [loop[t] EXCEPT !.focus = o]
             next == IF session[t].customer = None THEN named
                     ELSE NextVerdict(named, o, Answer(t, o).verdict)
  <2>1. Answer(t, o).verdict \in MaybeVerdict
    BY AnswerVerdict DEF MaybeVerdict
  <2>2. Tooled(next)
    BY <1>4, <1>5, <2>1
  <2>3. loop' = [loop EXCEPT ![t] = Returned(next)]
    BY <1>9 DEF CheckTool
  <2> HIDE DEF next
  <2> QED
    BY <1>7, <2>2, <2>3
<1>10. ASSUME NEW o \in Orders, EscalateToolReuses(t, o)
       PROVE  loop'[t].at \in {"calling", "finishing", "asking"}
  <2>1. Tooled(NextVerdict([loop[t] EXCEPT !.focus = o], o, "escalate"))
    BY <1>4, <1>5, <1>6
  <2> QED
    BY <1>7, <1>10, <2>1 DEF EscalateToolReuses
<1>11. ASSUME NEW o \in Orders, IssueTool(t, o) \/ EscalateTool(t, o)
       PROVE  loop'[t].at \in {"calling", "finishing", "asking"}
  BY <1>1, <1>4, <1>11 DEF IssueTool, EscalateTool, Tooled
<1>12. ASSUME IssueToolCommit(t) \/ EscalateToolCommit(t)
       PROVE  loop'[t].at \in {"calling", "finishing", "asking"}
  <2>1. \A v \in {"approve", "escalate"} : Tooled(NextVerdict(loop[t], call[t].order, v))
    BY <1>4, <1>5, <1>6
  <2> QED
    BY <1>7, <1>12, <2>1 DEF IssueToolCommit, EscalateToolCommit
<1> QED
  BY <1>2, <1>8, <1>9, <1>10, <1>11, <1>12 DEF ToolCall

LEMMA ToolFiles ==
  ASSUME Core, ChatInv, AllBacked, ChatTypeInv, FilesMatch, NEW t \in Turns, ToolCall(t)
  PROVE  FileMatches(t)' /\ Filed(t)
<1>1. /\ loop'[t].at \notin Late /\ loop[t].at = "calling"
  BY ToolAt DEF Late
<1>2. /\ draft \in [Turns -> Draft] /\ draft[t].current \in Thread
      /\ session \in [Turns -> Session \cup {None}] /\ pc \in [Turns -> Phases]
  BY DEF Core, TypeOK, ChatTypeInv, ChatTypeOK, Draft
<1>3. ASSUME NEW k \in CustomerIds, LookupTool(t, k) PROVE FileMatches(t)' /\ Filed(t)
  <2>1. /\ session[t] \in Session /\ pc[t] = "open" /\ thread' = thread /\ pc' = pc
        /\ draft' = [draft EXCEPT ![t] = Assigned(draft[t], "customer_id", k)]
        /\ session' = [session EXCEPT ![t].customer = k]
    BY <1>3 DEF LookupTool, LookupCustomer, Stays, Core, TypeOK
  <2>2. session'[t].customer = k /\ session'[t].answered = session[t].answered
    BY <1>2, <2>1 DEF Session
  <2>3. Assigned(draft[t], "customer_id", k).current.customer_id = k
    BY <1>2 DEF Assigned, Thread
  <2>4. k # None
    BY RefundAssumption
  <2>5. FileMatches(t)'
    BY <1>1, <1>2, <2>1, <2>2, <2>3, <2>4 DEF FileMatches
  <2> QED
    BY <2>1, <2>2, <2>5 DEF Filed, TurnCommits
<1>4. ASSUME NEW reason \in Reasons, RecordReasonTool(t, reason)
      PROVE  FileMatches(t)' /\ Filed(t)
  <2>1. /\ UNCHANGED <<pc, session, thread>> /\ pc[t] = "open"
        /\ draft' = [draft EXCEPT ![t] = Assigned(draft[t], "refund_reason", reason)]
    BY <1>4 DEF RecordReasonTool, Stays, vars, turnVars
  <2> DEFINE d == Assigned(draft[t], "refund_reason", reason)
  <2>2. draft[t] \in Draft /\ draft[t].loaded \in Thread
    BY <1>2 DEF Draft
  <2>3. /\ d.current.customer_id = draft[t].current.customer_id
        /\ d.loaded.customer_id = draft[t].loaded.customer_id
    BY <1>2, <2>2 DEF Assigned, Thread
  <2>4. draft'[t] = d
    BY <1>2, <2>1
  <2> HIDE DEF d
  <2>5. FileMatches(t)'
    BY <1>1, <2>1, <2>3, <2>4 DEF FilesMatch, FileMatches
  <2> QED
    BY <2>1, <2>5 DEF Filed, TurnCommits
<1>5. ASSUME IssueToolCommit(t) \/ EscalateToolCommit(t) PROVE FileMatches(t)' /\ Filed(t)
  <2>1. /\ pc[t] # "closed" /\ draft[t] \in Draft /\ Commits(t, draft[t])
        /\ session[t] \in Session
    BY <1>2, <1>5 DEF IssueToolCommit, CommitRefund, EscalateToolCommit, CommitEscalation,
       Core, TypeOK
  <2>2. session'[t].customer = session[t].customer
    BY <1>2, <1>5, <2>1 DEF IssueToolCommit, CommitRefund, EscalateToolCommit,
       CommitEscalation, Session
  <2> QED
    BY <2>1, <2>2, CommitFiles
<1>6. ASSUME \/ \E o \in Orders \cup {None} : GetOrderTool(t, o)
             \/ ReadOnlyTool(t)
             \/ \E o \in Orders : CheckTool(t, o) \/ IssueToolRefused(t, o)
                                  \/ EscalateToolReuses(t, o)
             \/ \E o \in Orders : IssueTool(t, o) \/ EscalateTool(t, o)
      PROVE  FileMatches(t)' /\ Filed(t)
  <2>1. /\ pc[t] = "open" /\ UNCHANGED <<session, thread, draft>>
    BY <1>6 DEF GetOrderTool, ReadOnlyTool, CheckTool, IssueToolRefused, EscalateToolReuses,
       IssueTool, IssueRefund, EscalateTool, Escalate, Stays, vars, turnVars
  <2>2. ~ TurnCommits(t)
    BY <2>1 DEF TurnCommits
  <2> QED
    BY <1>1, <2>1, <2>2, QuietFiles
<1> QED
  BY <1>3, <1>4, <1>5, <1>6 DEF ToolCall

LEMMA FinishFiles ==
  ASSUME Core, ChatInv, ChatTypeInv, FilesMatch, NEW t \in Turns, FinishTurn(t)
  PROVE  FileMatches(t)' /\ Filed(t)
<1> DEFINE o == IF loop[t].focus = None THEN draft[t].current.order_id ELSE loop[t].focus
           d == [draft[t] EXCEPT !.current.order_id = o]
<1>1. /\ session[t] \in Session /\ pc[t] # "closed" /\ draft[t] \in Draft
      /\ session \in [Turns -> Session \cup {None}]
  BY DEF FinishTurn, CommitTurn, Core, TypeOK, ChatTypeInv, ChatTypeOK
<1>2. session'[t].customer = session[t].customer
  BY <1>1 DEF FinishTurn, CommitTurn, Session
<1>3. draft[t].current \in Thread /\ loop[t] \in Loop
  BY <1>1 DEF Draft, ChatTypeInv, ChatTypeOK
<1>4. o \in Orders \cup {None}
  BY <1>3 DEF Loop, Thread
<1>5. Commits(t, d)
  BY DEF FinishTurn
<1> HIDE DEF o
<1>6. d \in Draft
  BY <1>1, <1>3, <1>4, ThreadTyped DEF Draft
<1>7. d.loaded = draft[t].loaded /\ d.current.customer_id = draft[t].current.customer_id
  BY <1>1, <1>3 DEF Draft, Thread
<1> HIDE DEF d
<1> QED
  BY <1>1, <1>2, <1>5, <1>6, <1>7, CommitFiles

\* After the answer the file is left alone.
LEMMA TicketFiles ==
  ASSUME FilesMatch, NEW t \in Turns,
         TicketRef(t) \/ BackstopReuses(t) \/ Backstop(t) \/ BackstopCommit(t)
  PROVE  FileMatches(t)' /\ Filed(t)
<1>1. /\ pc[t] # "closed" /\ loop[t].at \in Late /\ UNCHANGED <<session, thread, draft>>
  BY DEF TicketRef, BackstopReuses, Backstop, Escalate, BackstopCommit, CommitEscalation,
     Stays, Late, vars, turnVars
<1> QED
  BY <1>1, QuietFiles

LEMMA BoundaryFiles ==
  ASSUME Core, ChatInv, ChatTypeInv, NEW t \in Turns,
         \/ \E c \in Conversations, k \in Known : StartTurn(t, c, k)
         \/ EndsTurn(t)
  PROVE  FileMatches(t)' /\ Filed(t)
<1>1. /\ thread \in [Conversations -> Thread] /\ draft \in [Turns -> Draft]
      /\ DOMAIN loop = Turns
      /\ session \in [Turns -> Session \cup {None}] /\ pc \in [Turns -> Phases]
  BY DEF Core, TypeOK, ChatTypeInv, ChatTypeOK, ChatInv, LoopKnown
<1>2. ASSUME NEW c \in Conversations, NEW k \in Known, StartTurn(t, c, k)
      PROVE  FileMatches(t)' /\ Filed(t)
  <2> DEFINE customer == KnownCustomer(c, k)
  <2>1. /\ draft' = [draft EXCEPT ![t] = [loaded |-> thread[c],
              current |-> [thread[c] EXCEPT !.customer_id = customer]]]
        /\ session'[t].customer = customer /\ thread' = thread
        /\ pc[t] = "closed" /\ loop'[t].at = "asking"
    BY <1>1, <1>2 DEF StartTurn, OpenSession, IdleLoop
  <2>2. thread[c] \in Thread
    BY <1>1
  <2>3. customer = None => thread[c].customer_id = None
    BY DEF KnownCustomer
  <2> HIDE DEF customer
  <2>4. [thread[c] EXCEPT !.customer_id = customer].customer_id = customer
    BY <2>2 DEF Thread
  <2>5. FileMatches(t)'
    BY <1>1, <2>1, <2>3, <2>4 DEF FileMatches, Late
  <2> QED
    BY <2>1, <2>5 DEF Filed, TurnCommits
<1>3. CASE EndsTurn(t)
  <2>1. pc'[t] = "closed" /\ thread' = thread
    BY <1>1, <1>3 DEF EndsTurn, CloseSession
  <2> QED
    BY <2>1 DEF FileMatches, Filed, TurnCommits
<1> QED
  BY <1>2, <1>3

\* Nobody else's row, session or loop is touched.
LEMMA OthersFiles ==
  ASSUME Core, ChatInv, FilesMatch, NEW t \in Turns, TurnStep(t) \/ UNCHANGED vars,
         UNCHANGED loop \/ \E l : loop' = [loop EXCEPT ![t] = l],
         UNCHANGED draft \/ \E d : draft' = [draft EXCEPT ![t] = d],
         FileMatches(t)' /\ Filed(t)
  PROVE  FilesMatch' /\ FileFollows
<1>1. \A u \in Turns \ {t} : pc'[u] = pc[u] /\ session'[u] = session[u]
  BY TurnFrame DEF vars, turnVars
<1>2. \A u \in Turns \ {t} : loop'[u] = loop[u] /\ draft'[u] = draft[u]
  BY DEF ChatInv, LoopKnown, FileKnown
<1>3. FilesMatch'
  BY <1>1, <1>2 DEF FilesMatch, FileMatches
<1>4. \A u \in Turns \ {t} : ~ TurnCommits(u)
  BY <1>1 DEF TurnCommits
<1> QED
  BY <1>3, <1>4 DEF FileFollows, Filed

LEMMA FileStep ==
  ASSUME Core, ChatInv, AllBacked, ChatTypeInv, FilesMatch, [ChatNext]_chatVars
  PROVE  FilesMatch' /\ [FileFollows]_chatVars
<1>1. ASSUME UNCHANGED <<pc, session, draft, loop>>,
             \A c \in Conversations : thread'[c].customer_id = thread[c].customer_id
      PROVE  FilesMatch' /\ FileFollows
  BY <1>1 DEF FilesMatch, FileMatches, FileFollows, TurnCommits
<1>2. CASE \/ UNCHANGED chatVars
           \/ Tick /\ UNCHANGED <<thread, draft, loop>>
           \/ \E m \in Managers : ManagerStep(m) /\ UNCHANGED <<thread, draft, loop>>
  <2>1. UNCHANGED <<pc, session, thread, draft, loop>>
    BY <1>2 DEF chatVars, vars, turnVars, Tick, ManagerStep, ResolveTicket, LoadRequest,
       LoadOrder, LoadConversation, ResolveCommit, ResolveAbort
  <2> QED
    BY <1>1, <2>1
<1>3. ASSUME NEW c \in Conversations, CloseConversation(c)
      PROVE  FilesMatch' /\ FileFollows
  <2>1. /\ UNCHANGED <<pc, session, draft, loop>>
        /\ \A k \in Conversations : thread'[k].customer_id = thread[k].customer_id
    BY <1>3 DEF CloseConversation, vars, turnVars, Thread, ChatTypeInv, ChatTypeOK
  <2> QED
    BY <1>1, <2>1
<1>4. ASSUME NEW t \in Turns,
             LlmFails(t) \/ LlmAnswers(t) \/ \E n \in 1..MaxCalls : LlmCalls(t, n)
      PROVE  FilesMatch' /\ FileFollows
  BY <1>4, ModelFiles, ModelStep, OthersFiles DEF LlmFails, LlmAnswers, LlmCalls
<1>5. ASSUME NEW t \in Turns, ToolCall(t) PROVE FilesMatch' /\ FileFollows
  <2>1. TurnStep(t) \/ UNCHANGED vars
    BY <1>5, QuietToolStep, ServiceToolStep DEF ToolCall
  <2>2. \E l : loop' = [loop EXCEPT ![t] = l]
    BY <1>5 DEF ToolCall, LookupTool, GetOrderTool, ReadOnlyTool, RecordReasonTool,
       CheckTool, IssueToolRefused, IssueTool, EscalateToolReuses, EscalateTool,
       IssueToolCommit, EscalateToolCommit, ChatInv, LoopKnown
  <2>3. UNCHANGED draft \/ \E d : draft' = [draft EXCEPT ![t] = d]
    BY <1>5 DEF ToolCall, LookupTool, GetOrderTool, ReadOnlyTool, RecordReasonTool,
       CheckTool, IssueToolRefused, IssueTool, EscalateToolReuses, EscalateTool,
       IssueToolCommit, EscalateToolCommit, Commits
  <2> QED
    BY <1>5, <2>1, <2>2, <2>3, ToolFiles, OthersFiles
<1>6. ASSUME NEW t \in Turns, FinishTurn(t) PROVE FilesMatch' /\ FileFollows
  <2>1. /\ \E l : loop' = [loop EXCEPT ![t] = l]
        /\ \E d : draft' = [draft EXCEPT ![t] = d]
    BY <1>6 DEF FinishTurn, Commits, ChatInv, LoopKnown
  <2> QED
    BY <1>6, <2>1, FinishFiles, FinishStep, OthersFiles
<1>7. ASSUME NEW t \in Turns,
             TicketRef(t) \/ BackstopReuses(t) \/ Backstop(t) \/ BackstopCommit(t)
      PROVE  FilesMatch' /\ FileFollows
  <2>1. /\ UNCHANGED loop \/ \E l : loop' = [loop EXCEPT ![t] = l]
        /\ UNCHANGED draft
    BY <1>7 DEF TicketRef, BackstopReuses, Backstop, BackstopCommit, ChatInv, LoopKnown
  <2> QED
    BY <1>7, <2>1, TicketFiles, TicketStep, OthersFiles
<1>8. ASSUME NEW t \in Turns,
             \/ \E c \in Conversations, k \in Known : StartTurn(t, c, k)
             \/ EndsTurn(t)
      PROVE  FilesMatch' /\ FileFollows
  <2>1. /\ \E l : loop' = [loop EXCEPT ![t] = l]
        /\ \E d : draft' = [draft EXCEPT ![t] = d]
    BY <1>8 DEF StartTurn, EndsTurn
  <2>2. TurnStep(t)
    BY <1>8, StartTurnStep, EndStep
  <2> QED
    BY <1>8, <2>1, <2>2, BoundaryFiles, OthersFiles
<1> QED
  BY <1>2, <1>3, <1>4, <1>5, <1>6, <1>7, <1>8
  DEF ChatNext, ChatRequest, VoiceTurn, TurnProgress, Reply, Crash, Known

\* For any number of overlapping turns, customers and conversations: every commit of a
\* turn that knows its customer finds or leaves that customer on file, and nobody else
\* is ever put there.
THEOREM CaseFileFollows == ChatSpec => CaseNamesCustomer
<1>1. ChatInit => ChatTypeInv /\ FilesMatch
  BY ChatTypesInit DEF ChatInit, Init, FilesMatch, FileMatches
<1>2. Core /\ ChatInv /\ AllBacked /\ ChatTypeInv /\ FilesMatch /\ [ChatNext]_chatVars
        => ChatTypeInv' /\ FilesMatch' /\ [FileFollows]_chatVars
  BY ChatTypeStep, FileStep
<1> QED
  BY <1>1, <1>2, ChatInvariant, PTL DEF ChatSpec, CaseNamesCustomer
=============================================================================
