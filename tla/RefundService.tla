---------------------------- MODULE RefundService ----------------------------
(***************************************************************************)
(* The side-effecting layer (backend/app/refunds/service.py) over the      *)
(* database, as chat turns and managers use it concurrently.               *)
(*                                                                         *)
(* Every chat turn and every resolve request runs in a database session of *)
(* its own.  The database is PostgreSQL at READ COMMITTED, the code takes  *)
(* no row lock before it decides and no constraint makes a refund or an    *)
(* open ticket unique, so a transaction acts on what it read earlier.  A   *)
(* turn is therefore modelled await by await: the step that reads and      *)
(* decides, and the later step whose commit makes the result visible.  A   *)
(* session that dies in between (an exception, a killed process, a         *)
(* deadlock victim) leaves nothing behind.                                 *)
(*                                                                         *)
(* A call that refuses or changes nothing (an ineligible order, a ticket   *)
(* that is open already, a resolve of a resolved ticket) is a stuttering   *)
(* step of this module.                                                    *)
(***************************************************************************)
EXTENDS PolicyEngine, FiniteSets

CONSTANTS
  Orders, CustomerIds, Conversations,  \* keys of the three tables
  Turns, Managers,                     \* requests that may run at one time
  SeedOrder,                           \* the row of each order, as seeded
  CustomerTier,                        \* customers.tier
  TurnVerdicts,                        \* bound: the verdicts a turn may end with
  MaxClock, MaxRequests                \* bounds on the clock, on refund_requests

ASSUME RefundAssumption ==
  /\ SeedOrder \in [Orders -> OrderTable(CustomerIds)]
  /\ CustomerTier \in [CustomerIds -> Tiers]
  /\ TurnVerdicts \subseteq Verdicts \cup {None}
  /\ None \notin CustomerIds
  /\ MaxClock \in Nat /\ MaxRequests \in Nat

VARIABLES
  clock,        \* datetime.now(timezone.utc)
  refundedAt,   \* orders.refunded_at, the only column of an order ever written
  requests,     \* table refund_requests, by id
  escalations,  \* table escalations, by id
  convVerdict,  \* conversations.verdict
  pc,           \* what each turn is doing
  session,      \* what each turn holds in memory
  pin,          \* the order rows its identity map keeps alive
  call,         \* its service call between decision and commit
  desk,         \* the resolve_escalation call of each manager
  payouts,      \* history: every refund committed, in commit order
  openings      \* history: per escalation, how many there were at its dedupe query

database == <<refundedAt, requests, escalations, convVerdict>>
turnVars == <<pc, session, pin, call>>
history  == <<payouts, openings>>
vars == <<clock, database, turnVars, desk, history>>
-----------------------------------------------------------------------------
MaybeVerdict == Verdicts \cup {None}

Request == [order : Orders, conversation : Conversations,
            status : {"decided", "resolved"}, verdict : Verdicts,
            decided_by : {"agent", "manager"}]
Escalation == [refund_request_id : Nat \ {0}, status : {"open", "resolved"}]
Payout == [order : Orders, by : {"agent", "manager"},
           customer : CustomerIds \cup {None}, now : Int,
           request : Nat \ {0}, seen : Nat]

Phases == {"closed", "open", "refunding", "escalating"}
Session == [conversation : Conversations, customer : CustomerIds \cup {None},
            now : Int, verdict : MaybeVerdict, answered : BOOLEAN,
            paid : SUBSET Orders]
Copy == [held : BOOLEAN, refunded_at : MaybeTime, seen : Nat]
Call == [order : Orders, seen : Nat]

Desk == [at : {"idle", "ticket", "request", "order", "conversation"},
         ticket : Nat, decision : {"approve", "deny"}, now : Int, request : Nat,
         row : Request \cup {None}, refunded_at : MaybeTime, seen : Nat,
         verdict : MaybeVerdict]

IdleDesk == [at |-> "idle", ticket |-> 0, decision |-> "deny", now |-> 0,
             request |-> 0, row |-> None, refunded_at |-> None, seen |-> 0,
             verdict |-> None]
NotHeld == [held |-> FALSE, refunded_at |-> None, seen |-> 0]

Row(o, refunded_at) == [SeedOrder[o] EXCEPT !.refunded_at = refunded_at]
Customer(c) == [id |-> c, tier |-> CustomerTier[c]]

\* SQLAlchemy writes a column only when its value differs from the loaded one.
Written(loaded, new, current) == IF new = loaded THEN current ELSE new

\* session.get(Order, o): the instance the identity map still holds, or the
\* committed row.  "seen" counts the refunds committed when the row was read.
View(t, o) ==
  IF pin[t][o].held THEN pin[t][o]
  ELSE [held |-> FALSE, refunded_at |-> refundedAt[o], seen |-> Len(payouts)]

\* Mutant: only the idempotence guard is left of the re-check.
ApprovesUnrefunded(t, o, refunded_at) == refunded_at = None

Approves(t, o, refunded_at) ==
  CheckRefundEligibility(Row(o, refunded_at), Customer(session[t].customer),
                         session[t].now).verdict = "approve"

\* check_refund_eligibility, once the turn has a customer.
Answer(t, o) ==
  CheckRefundEligibility(Row(o, View(t, o).refunded_at),
                         Customer(session[t].customer), session[t].now)

OpenTickets(o) ==
  {e \in DOMAIN escalations :
     /\ escalations[e].status = "open"
     /\ requests[escalations[e].refund_request_id].order = o}

\* Bound: a call that would insert a row starts only while there is room for it.
RoomForRequest ==
  Len(requests) + Cardinality({t \in Turns : pc[t] \in {"refunding", "escalating"}})
    < MaxRequests
-----------------------------------------------------------------------------
Init ==
  /\ clock = 0
  /\ refundedAt = [o \in Orders |-> SeedOrder[o].refunded_at]
  /\ requests = <<>> /\ escalations = <<>>
  /\ convVerdict = [c \in Conversations |-> None]
  /\ pc = [t \in Turns |-> "closed"]
  /\ session = [t \in Turns |-> None]
  /\ pin = [t \in Turns |-> [o \in Orders |-> NotHeld]]
  /\ call = [t \in Turns |-> None]
  /\ desk = [m \in Managers |-> IdleDesk]
  /\ payouts = <<>> /\ openings = <<>>

Tick ==
  /\ clock < MaxClock
  /\ clock' = clock + 1
  /\ UNCHANGED <<database, turnVars, desk, history>>

\* run_chat_turn up to the agent loop: the conversation row is loaded, the
\* customer is the one on file, the signed-in one or nobody yet, and ctx.now is
\* fixed for the whole turn.
OpenSession(t, conversation, customer) ==
  /\ pc[t] = "closed"
  /\ pc' = [pc EXCEPT ![t] = "open"]
  /\ session' = [session EXCEPT ![t] =
       [conversation |-> conversation, customer |-> customer, now |-> clock,
        verdict |-> convVerdict[conversation], answered |-> FALSE, paid |-> {}]]
  /\ UNCHANGED <<clock, database, pin, call, desk, history>>

\* lookup_customer loads the customer with all its orders, and ctx.customer keeps
\* them alive: rows already in the session are not refreshed.  The orders of the
\* customer it replaces stay in the session until they are garbage collected.
LookupCustomer(t, customer) ==
  /\ pc[t] = "open" /\ ~session[t].answered
  /\ session' = [session EXCEPT ![t].customer = customer]
  /\ LET owned == {o \in Orders : SeedOrder[o].customer_id = customer}
     IN  \E collected \in SUBSET {o \in Orders \ owned : pin[t][o].held} :
           pin' = [pin EXCEPT ![t] = [o \in Orders |->
                     IF o \in owned THEN [View(t, o) EXCEPT !.held = TRUE]
                     ELSE IF o \in collected THEN NotHeld ELSE pin[t][o]]]
  /\ UNCHANGED <<clock, database, pc, call, desk, history>>

\* issue_refund up to its commit: eligibility is re-checked on the session's view
\* of the order, and the row is stamped in memory.
IssueRefund(t, o) ==
  /\ pc[t] = "open" /\ ~session[t].answered
  /\ session[t].customer # None
  /\ Approves(t, o, View(t, o).refunded_at)
  /\ RoomForRequest
  /\ pc' = [pc EXCEPT ![t] = "refunding"]
  /\ call' = [call EXCEPT ![t] = [order |-> o, seen |-> View(t, o).seen]]
  /\ UNCHANGED <<clock, database, session, pin, desk, history>>

\* Mutant: the stamp does not reach the row the session holds.
CommitRefundCopyUnstamped(t) ==
  /\ pc[t] = "refunding"
  /\ LET o == call[t].order  now == session[t].now
     IN  /\ refundedAt' = [refundedAt EXCEPT ![o] = now]
         /\ requests' = Append(requests,
              [order |-> o, conversation |-> session[t].conversation,
               status |-> "decided", verdict |-> "approve", decided_by |-> "agent"])
         /\ pin' = IF ~pin[t][o].held THEN pin
                   ELSE [pin EXCEPT ![t][o].seen = Len(payouts) + 1]
         /\ session' = [session EXCEPT ![t].paid = @ \cup {o}]
         /\ payouts' = Append(payouts,
              [order |-> o, by |-> "agent", customer |-> session[t].customer,
               now |-> now, request |-> Len(requests) + 1, seen |-> call[t].seen])
  /\ pc' = [pc EXCEPT ![t] = "open"]
  /\ call' = [call EXCEPT ![t] = None]
  /\ UNCHANGED <<clock, escalations, convVerdict, desk, openings>>

\* Its commit: the stamp and the approved request become visible together, and
\* the session's own row is what was written.
CommitRefund(t) ==
  /\ pc[t] = "refunding"
  /\ LET o == call[t].order  now == session[t].now
     IN  /\ refundedAt' = [refundedAt EXCEPT ![o] = now]
         /\ requests' = Append(requests,
              [order |-> o, conversation |-> session[t].conversation,
               status |-> "decided", verdict |-> "approve", decided_by |-> "agent"])
         /\ pin' = IF ~pin[t][o].held THEN pin
                   ELSE [pin EXCEPT ![t][o] = [held |-> TRUE, refunded_at |-> now,
                                               seen |-> Len(payouts) + 1]]
         /\ session' = [session EXCEPT ![t].paid = @ \cup {o}]
         /\ payouts' = Append(payouts,
              [order |-> o, by |-> "agent", customer |-> session[t].customer,
               now |-> now, request |-> Len(requests) + 1, seen |-> call[t].seen])
  /\ pc' = [pc EXCEPT ![t] = "open"]
  /\ call' = [call EXCEPT ![t] = None]
  /\ UNCHANGED <<clock, escalations, convVerdict, desk, openings>>

\* Mutant: escalate_to_manager without the dedupe query.
EscalateAnew(t, o) ==
  /\ pc[t] = "open" /\ RoomForRequest
  /\ pc' = [pc EXCEPT ![t] = "escalating"]
  /\ call' = [call EXCEPT ![t] = [order |-> o, seen |-> Len(escalations)]]
  /\ UNCHANGED <<clock, database, session, pin, desk, history>>

\* escalate_to_manager up to its commit: the dedupe query found no open ticket.
\* Neither the verdict of the order nor a customer is asked for.  The runner's
\* backstop makes the same call after the turn's answer is committed.
Escalate(t, o) ==
  /\ pc[t] = "open"
  /\ OpenTickets(o) = {}
  /\ RoomForRequest
  /\ pc' = [pc EXCEPT ![t] = "escalating"]
  /\ call' = [call EXCEPT ![t] = [order |-> o, seen |-> Len(escalations)]]
  /\ UNCHANGED <<clock, database, session, pin, desk, history>>

CommitEscalation(t) ==
  /\ pc[t] = "escalating"
  /\ requests' = Append(requests,
       [order |-> call[t].order, conversation |-> session[t].conversation,
        status |-> "decided", verdict |-> "escalate", decided_by |-> "agent"])
  /\ escalations' = Append(escalations,
       [refund_request_id |-> Len(requests) + 1, status |-> "open"])
  /\ openings' = Append(openings, call[t].seen)
  /\ pc' = [pc EXCEPT ![t] = "open"]
  /\ call' = [call EXCEPT ![t] = None]
  /\ UNCHANGED <<clock, refundedAt, convVerdict, session, pin, desk, payouts>>

\* run_chat_turn commits the answer and the verdict the loop ended with.
CommitTurn(t, verdict) ==
  /\ pc[t] = "open" /\ ~session[t].answered
  /\ LET c == session[t].conversation
     IN  convVerdict' = IF verdict = None THEN convVerdict ELSE
           [convVerdict EXCEPT ![c] = Written(session[t].verdict, verdict, @)]
  /\ session' = [session EXCEPT ![t].answered = TRUE,
                                ![t].verdict = IF verdict = None THEN @ ELSE verdict]
  /\ UNCHANGED <<clock, refundedAt, requests, escalations, pc, pin, call, desk, history>>

\* Mutant: the stamp of a refund that failed to commit is not rolled back.
CloseSessionKeepsStamp(t) ==
  /\ pc[t] # "closed"
  /\ refundedAt' = IF pc[t] # "refunding" THEN refundedAt
                   ELSE [refundedAt EXCEPT ![call[t].order] = session[t].now]
  /\ pc' = [pc EXCEPT ![t] = "closed"]
  /\ session' = [session EXCEPT ![t] = None]
  /\ pin' = [pin EXCEPT ![t] = [o \in Orders |-> NotHeld]]
  /\ call' = [call EXCEPT ![t] = None]
  /\ UNCHANGED <<clock, requests, escalations, convVerdict, desk, history>>

\* The session ends: the request is done, or it failed and its transaction is
\* rolled back.
CloseSession(t) ==
  /\ pc[t] # "closed"
  /\ pc' = [pc EXCEPT ![t] = "closed"]
  /\ session' = [session EXCEPT ![t] = None]
  /\ pin' = [pin EXCEPT ![t] = [o \in Orders |-> NotHeld]]
  /\ call' = [call EXCEPT ![t] = None]
  /\ UNCHANGED <<clock, database, desk, history>>
-----------------------------------------------------------------------------
\* resolve_escalation reads the ticket, its request, the order and the
\* conversation, one query after the other, and writes them all at the end.
ResolveTicket(m, e, decision) ==
  /\ desk[m].at = "idle"
  /\ escalations[e].status = "open"
  /\ desk' = [desk EXCEPT ![m] = [IdleDesk EXCEPT !.at = "ticket", !.ticket = e,
                                   !.decision = decision, !.now = clock]]
  /\ UNCHANGED <<clock, database, turnVars, history>>

\* Mutant: the newest request is taken for the one of the ticket.
LoadNewestRequest(m) ==
  /\ desk[m].at = "ticket"
  /\ desk' = [desk EXCEPT ![m] = [@ EXCEPT !.at = "request",
       !.request = Len(requests), !.row = requests[Len(requests)]]]
  /\ UNCHANGED <<clock, database, turnVars, history>>

LoadRequest(m) ==
  /\ desk[m].at = "ticket"
  /\ LET r == escalations[desk[m].ticket].refund_request_id
     IN  desk' = [desk EXCEPT ![m] = [@ EXCEPT
           !.at = "request", !.request = r, !.row = requests[r]]]
  /\ UNCHANGED <<clock, database, turnVars, history>>

LoadOrder(m) ==
  /\ desk[m].at = "request"
  /\ desk' = [desk EXCEPT ![m] = [@ EXCEPT
       !.at = "order", !.refunded_at = refundedAt[desk[m].row.order],
       !.seen = Len(payouts)]]
  /\ UNCHANGED <<clock, database, turnVars, history>>

LoadConversation(m) ==
  /\ desk[m].at = "order"
  /\ desk' = [desk EXCEPT ![m] = [@ EXCEPT
       !.at = "conversation", !.verdict = convVerdict[desk[m].row.conversation]]]
  /\ UNCHANGED <<clock, database, turnVars, history>>

\* Mutants: status and verdict are mixed up; decided_by is forgotten.
DecidedMixedUp(d) ==
  [requests[d.request] EXCEPT !.status = d.decision, !.decided_by = "manager"]
DecidedByNobody(d) ==
  [requests[d.request] EXCEPT !.status = "resolved", !.verdict = d.decision]

\* The request row once a resolve with desk d has written it.
Decided(d) ==
  [requests[d.request] EXCEPT
     !.status = Written(d.row.status, "resolved", @),
     !.verdict = Written(d.row.verdict, d.decision, @),
     !.decided_by = Written(d.row.decided_by, "manager", @)]

ResolveCommit(m) ==
  /\ desk[m].at = "conversation"
  /\ LET d == desk[m]
         refunds == d.decision = "approve" /\ d.refunded_at = None
     IN  /\ escalations' = [escalations EXCEPT ![d.ticket].status = "resolved"]
         /\ requests' = [requests EXCEPT ![d.request] = Decided(d)]
         /\ refundedAt' = IF refunds THEN [refundedAt EXCEPT ![d.row.order] = d.now]
                                     ELSE refundedAt
         /\ convVerdict' = [convVerdict EXCEPT ![d.row.conversation] =
              Written(d.verdict, d.decision, @)]
         /\ payouts' = IF ~refunds THEN payouts ELSE Append(payouts,
              [order |-> d.row.order, by |-> "manager", customer |-> None,
               now |-> d.now, request |-> d.request, seen |-> d.seen])
  /\ desk' = [desk EXCEPT ![m] = IdleDesk]
  /\ UNCHANGED <<clock, turnVars, openings>>

\* The request fails before its commit.
ResolveAbort(m) ==
  /\ desk[m].at # "idle"
  /\ desk' = [desk EXCEPT ![m] = IdleDesk]
  /\ UNCHANGED <<clock, database, turnVars, history>>
-----------------------------------------------------------------------------
TurnStep(t) ==
  \/ \E c \in Conversations, k \in CustomerIds \cup {None} : OpenSession(t, c, k)
  \/ \E k \in CustomerIds : LookupCustomer(t, k)
  \/ \E o \in Orders : IssueRefund(t, o) \/ Escalate(t, o)
  \/ CommitRefund(t) \/ CommitEscalation(t)
  \/ \E v \in TurnVerdicts : CommitTurn(t, v)
  \/ CloseSession(t)

ManagerStep(m) ==
  \/ \E e \in DOMAIN escalations, d \in {"approve", "deny"} : ResolveTicket(m, e, d)
  \/ LoadRequest(m) \/ LoadOrder(m) \/ LoadConversation(m)
  \/ ResolveCommit(m) \/ ResolveAbort(m)

Next == Tick \/ (\E t \in Turns : TurnStep(t)) \/ (\E m \in Managers : ManagerStep(m))

Spec == Init /\ [][Next]_vars
-----------------------------------------------------------------------------
TypeOK ==
  /\ clock \in Int
  /\ refundedAt \in [Orders -> MaybeTime]
  /\ requests \in Seq(Request)
  /\ escalations \in Seq(Escalation)
  /\ convVerdict \in [Conversations -> MaybeVerdict]
  /\ pc \in [Turns -> Phases]
  /\ session \in [Turns -> Session \cup {None}]
  /\ \A t \in Turns : pc[t] # "closed" => session[t] \in Session
  /\ pin \in [Turns -> [Orders -> Copy]]
  /\ call \in [Turns -> Call \cup {None}]
  /\ \A t \in Turns : pc[t] \in {"refunding", "escalating"} => call[t] \in Call
  /\ desk \in [Managers -> Desk]
  /\ payouts \in Seq(Payout)
  /\ openings \in Seq(Nat)

\* issue_refund is the policy boundary: whatever the model asked for and however
\* old the session's rows are, each refund of the agent was approvable for the
\* customer of its turn, at the time of its turn, had the order not been refunded.
AgentPaysOnlyWithinPolicy ==
  \A p \in {payouts[i] : i \in DOMAIN payouts} : p.by = "agent" =>
    /\ p.customer # None
    /\ CheckRefundEligibility(Row(p.order, None), Customer(p.customer), p.now).verdict
         = "approve"

\* The refunded_at stamp every guard relies on is the time of the order's latest
\* refund, and an order nobody refunded keeps its seeded stamp.
LedgerMatchesOrders ==
  \A o \in Orders :
    LET paid == {i \in DOMAIN payouts : payouts[i].order = o}
    IN  \/ paid = {} /\ refundedAt[o] = SeedOrder[o].refunded_at
        \/ \E i \in paid : /\ \A j \in paid : j <= i
                           /\ refundedAt[o] = payouts[i].now

\* What the policy says to customer k about order o at time s, once the first n
\* refunds are committed.  (When the order was refunded is of no account.)
AnswerAt(o, k, n, s) ==
  LET paid == {i \in 1..n : payouts[i].order = o}
      stamp == IF paid = {} THEN SeedOrder[o].refunded_at
               ELSE payouts[CHOOSE i \in paid : TRUE].now
  IN  CheckRefundEligibility(Row(o, stamp), Customer(k), s)

\* Answers of check_refund_eligibility only harden.  Whatever its session has read,
\* kept and dropped, a turn answers as of one moment of the ledger and one time; and
\* any answer the customer got as of an earlier moment and time -- earlier in this
\* turn, or in another, ended or running -- was the same or has become a denial.
\* (So what was denied is approved only by a turn that started or read before.)
AnswersOnlyHarden ==
  \A t \in Turns, o \in Orders :
    (pc[t] # "closed" /\ session[t].customer # None) =>
      LET k == session[t].customer
          seen == View(t, o).seen
          now == session[t].now
      IN  /\ Answer(t, o) = AnswerAt(o, k, seen, now)
          /\ \A n \in 0..seen, s \in 0..now :
               Answer(t, o).verdict \in {AnswerAt(o, k, n, s).verdict, "deny"}

\* A second refund of an order is possible only when it overlaps the first: its
\* session read the order before the first one committed.  A turn or a manager
\* that starts from what is committed never pays again.
DoublePayNeedsOverlap ==
  \A i, j \in DOMAIN payouts :
    (i < j /\ payouts[i].order = payouts[j].order) => payouts[j].seen < i

\* Within one turn the model may call issue_refund as often as it likes, look up
\* other customers in between, and still no order it was paid for comes up again.
TurnNeverPaysTwice ==
  \A t \in Turns : pc[t] = "refunding" => call[t].order \notin session[t].paid

\* Likewise two open tickets for one order come only from overlapping calls: the
\* dedupe query of the later one ran before the earlier ticket was committed.
DuplicateTicketNeedsOverlap ==
  \A o \in Orders : \A e, f \in OpenTickets(o) : e < f => openings[f] < e

\* Tickets and their requests tell one story: an open ticket belongs to an
\* escalated request of the agent, a resolved one to a request a manager decided;
\* no two tickets share a request, and no other request was ever escalated.
TicketMatchesRequest ==
  /\ \A e \in DOMAIN escalations :
       /\ escalations[e].refund_request_id \in DOMAIN requests
       /\ LET r == requests[escalations[e].refund_request_id]
          IN  IF escalations[e].status = "open"
              THEN r.status = "decided" /\ r.verdict = "escalate" /\ r.decided_by = "agent"
              ELSE r.status = "resolved" /\ r.verdict # "escalate" /\ r.decided_by = "manager"
       /\ \A f \in DOMAIN escalations :
            escalations[f].refund_request_id = escalations[e].refund_request_id => e = f
  /\ \A i \in DOMAIN requests :
       \/ requests[i].verdict = "approve" /\ requests[i].decided_by = "agent"
       \/ \E e \in DOMAIN escalations : escalations[e].refund_request_id = i

\* Every refund is backed by a record that approves it, by the party that paid:
\* the decision record admits no refund against a request that says otherwise.
PayoutHasApproval ==
  \A i \in DOMAIN payouts :
    LET r == requests[payouts[i].request]
    IN  r.order = payouts[i].order /\ r.verdict = "approve" /\ r.decided_by = payouts[i].by

\* Nothing is taken back: rows are never deleted and never change the order, the
\* conversation or the request they are about, a resolved ticket or request stays
\* resolved, an approval of the agent is never rewritten, and a refunded order never
\* becomes refundable again -- although a resolve writes what it read queries ago.
MovesForward ==
  /\ \A i \in DOMAIN requests :
       /\ i \in DOMAIN requests'
       /\ requests'[i].order = requests[i].order
       /\ requests'[i].conversation = requests[i].conversation
       /\ requests[i].status = "resolved" => requests'[i].status = "resolved"
       /\ (requests[i].verdict = "approve" /\ requests[i].decided_by = "agent")
            => requests'[i] = requests[i]
  /\ \A e \in DOMAIN escalations :
       /\ e \in DOMAIN escalations'
       /\ escalations'[e].refund_request_id = escalations[e].refund_request_id
       /\ escalations[e].status = "resolved" => escalations'[e].status = "resolved"
  /\ \A o \in Orders : refundedAt[o] # None => refundedAt'[o] # None

RecordsOnlyMoveForward == [][MovesForward]_vars

\* What the documents promise without qualification: an order is refunded at most
\* once (AGENT-AND-POLICY.md section 6).
AtMostOnePayout ==
  \A i, j \in DOMAIN payouts : payouts[i].order = payouts[j].order => i = j
=============================================================================
