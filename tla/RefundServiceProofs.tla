------------------------ MODULE RefundServiceProofs ------------------------
(***************************************************************************)
(* RefundService: the types, and the money, that is, what the refunds      *)
(* committed so far say about every copy of an order that a running        *)
(* request still acts on.                                                  *)
(***************************************************************************)
EXTENDS RefundService, TLAPS

\* Foreign keys point to rows: of every ticket, and of every resolve in progress,
\* which moreover keeps the identity of the request it loaded.
References ==
  /\ \A e \in DOMAIN escalations :
       escalations[e].refund_request_id \in DOMAIN requests
  /\ \A m \in Managers : desk[m].at # "idle" =>
       desk[m].ticket \in DOMAIN escalations
  /\ \A m \in Managers : desk[m].at \notin {"idle", "ticket"} =>
       /\ desk[m].row \in Request
       /\ desk[m].request = escalations[desk[m].ticket].refund_request_id
       /\ desk[m].row.order = requests[desk[m].request].order

\* Each write to a row leaves a row.
LEMMA ResolvedTicket ==
  ASSUME NEW e \in Escalation
  PROVE  [e EXCEPT !.status = "resolved"] \in Escalation
  BY DEF Escalation

LEMMA DecidedRow ==
  ASSUME NEW d \in Desk, d.row \in Request, requests[d.request] \in Request
  PROVE  /\ Decided(d) \in Request
         /\ Decided(d).order = requests[d.request].order
         /\ Decided(d).conversation = requests[d.request].conversation
         /\ Decided(d).status =
              Written(d.row.status, "resolved", requests[d.request].status)
         /\ Decided(d).verdict =
              Written(d.row.verdict, d.decision, requests[d.request].verdict)
         /\ Decided(d).decided_by =
              Written(d.row.decided_by, "manager", requests[d.request].decided_by)
  BY DEF Decided, Request, Written, Verdicts, Desk

LEMMA InitTypeOK == Init => TypeOK
<1> SUFFICES ASSUME Init PROVE TypeOK
  OBVIOUS
<1> USE DEF Init
<1>1. refundedAt \in [Orders -> MaybeTime]
  BY RefundAssumption DEF OrderTable
<1>2. desk \in [Managers -> Desk]
  BY DEF IdleDesk, Desk, MaybeTime, MaybeVerdict
<1>3. pin \in [Turns -> [Orders -> Copy]]
  BY DEF NotHeld, Copy, MaybeTime
<1> QED
  BY <1>1, <1>2, <1>3 DEF TypeOK, MaybeVerdict, Phases

LEMMA OpenSessionTypeOK ==
  ASSUME TypeOK, NEW t \in Turns, NEW c \in Conversations,
         NEW k \in CustomerIds \cup {None}, OpenSession(t, c, k)
  PROVE  TypeOK'
<1> USE DEF TypeOK, OpenSession, database, history
<1>1. [conversation |-> c, customer |-> k, now |-> clock,
       verdict |-> convVerdict[c], answered |-> FALSE, paid |-> {}] \in Session
  BY DEF Session
<1>2. session' \in [Turns -> Session \cup {None}]
  BY <1>1
<1>3. pc' \in [Turns -> Phases]
  BY DEF Phases
<1>4. \A u \in Turns : pc'[u] # "closed" => session'[u] \in Session
  BY <1>1
<1>5. \A u \in Turns : pc'[u] \in {"refunding", "escalating"} => call'[u] \in Call
  OBVIOUS
<1> QED
  BY <1>2, <1>3, <1>4, <1>5

LEMMA LookupCustomerTypeOK ==
  ASSUME TypeOK, NEW t \in Turns, NEW k \in CustomerIds, LookupCustomer(t, k)
  PROVE  TypeOK'
<1> USE DEF TypeOK, LookupCustomer, database, history
<1>1. session[t] \in Session
  OBVIOUS
<1>2. [session[t] EXCEPT !.customer = k] \in Session
  BY <1>1 DEF Session
<1>3. /\ session' \in [Turns -> Session \cup {None}]
      /\ \A u \in Turns : pc'[u] # "closed" => session'[u] \in Session
  BY <1>2
<1>4. \A o \in Orders : View(t, o) \in Copy
  <2>1. Len(payouts) \in Nat
    OBVIOUS
  <2>2. \A o \in Orders : pin[t][o] \in Copy /\ refundedAt[o] \in MaybeTime
    OBVIOUS
  <2> QED
    BY <2>1, <2>2 DEF View, Copy
<1>4a. \A o \in Orders : [View(t, o) EXCEPT !.held = TRUE] \in Copy
  BY <1>4 DEF Copy
<1>5. NotHeld \in Copy
  BY DEF NotHeld, Copy, MaybeTime
<1>6. pin' \in [Turns -> [Orders -> Copy]]
  BY <1>4a, <1>5
<1> QED
  BY <1>3, <1>6

LEMMA CommitRefundTypeOK ==
  ASSUME TypeOK, NEW t \in Turns, CommitRefund(t)
  PROVE  TypeOK'
<1> USE DEF TypeOK, CommitRefund
<1>1. session[t] \in Session /\ call[t] \in Call
  OBVIOUS
<1>2. call[t].order \in Orders /\ session[t].now \in Int
  BY <1>1 DEF Call, Session
<1>3. refundedAt' \in [Orders -> MaybeTime]
  BY <1>2 DEF MaybeTime
<1>4. requests' \in Seq(Request)
  BY <1>1, <1>2 DEF Request, Session, Verdicts
<1>5. payouts' \in Seq(Payout)
  <2>1. Len(requests) + 1 \in Nat \ {0}
    OBVIOUS
  <2> DEFINE p == [order |-> call[t].order, by |-> "agent",
                   customer |-> session[t].customer, now |-> session[t].now,
                   request |-> Len(requests) + 1, seen |-> call[t].seen]
  <2>2. p \in Payout
    BY <1>1, <1>2, <2>1 DEF Payout, Session, Call
  <2>3. payouts' = Append(payouts, p)
    OBVIOUS
  <2> QED
    BY <2>2, <2>3
<1>6. /\ session' \in [Turns -> Session \cup {None}]
      /\ \A u \in Turns : pc'[u] # "closed" => session'[u] \in Session
  BY <1>1, <1>2 DEF Session
<1>7. pin' \in [Turns -> [Orders -> Copy]]
  <2>1. [held |-> TRUE, refunded_at |-> session[t].now, seen |-> Len(payouts) + 1] \in Copy
    BY <1>2 DEF MaybeTime, Copy
  <2> QED
    BY <1>2, <2>1
<1>8. /\ pc' \in [Turns -> Phases]
      /\ \A u \in Turns : pc'[u] \in {"refunding", "escalating"} => call'[u] \in Call
  BY DEF Phases
<1> QED
  BY <1>3, <1>4, <1>5, <1>6, <1>7, <1>8

LEMMA CommitEscalationTypeOK ==
  ASSUME TypeOK, NEW t \in Turns, CommitEscalation(t)
  PROVE  TypeOK'
<1> USE DEF TypeOK, CommitEscalation
<1>1. session[t] \in Session /\ call[t] \in Call
  OBVIOUS
<1>2. requests' \in Seq(Request)
  BY <1>1 DEF Request, Session, Call, Verdicts
<1>3. escalations' \in Seq(Escalation)
  BY DEF Escalation
<1>4. openings' \in Seq(Nat)
  BY <1>1 DEF Call
<1>5. /\ pc' \in [Turns -> Phases]
      /\ \A u \in Turns : pc'[u] # "closed" => session'[u] \in Session
      /\ \A u \in Turns : pc'[u] \in {"refunding", "escalating"} => call'[u] \in Call
  BY DEF Phases
<1> QED
  BY <1>2, <1>3, <1>4, <1>5

LEMMA IdleDeskType == IdleDesk \in Desk
  BY DEF IdleDesk, Desk, MaybeTime, MaybeVerdict

LEMMA ResolveTicketTypeOK ==
  ASSUME TypeOK, NEW m \in Managers, NEW e \in DOMAIN escalations,
         NEW d \in {"approve", "deny"}, ResolveTicket(m, e, d)
  PROVE  TypeOK'
<1>1. [IdleDesk EXCEPT !.at = "ticket", !.ticket = e, !.decision = d, !.now = clock]
        \in Desk
  <2>1. e \in Nat /\ clock \in Int
    BY DEF TypeOK
  <2> QED
    BY IdleDeskType, <2>1 DEF Desk
<1> USE DEF TypeOK, ResolveTicket
<1>2. desk' \in [Managers -> Desk]
  BY <1>1
<1> QED
  BY <1>2 DEF database, turnVars, history

LEMMA LoadRequestTypeOK ==
  ASSUME TypeOK, References, NEW m \in Managers, LoadRequest(m)
  PROVE  TypeOK'
<1> USE DEF TypeOK, LoadRequest
<1> DEFINE r == escalations[desk[m].ticket].refund_request_id
<1>1. desk[m] \in Desk /\ desk[m].ticket \in DOMAIN escalations
  BY DEF References
<1>2. r \in DOMAIN requests
  BY <1>1 DEF References
<1>3. requests[r] \in Request /\ r \in Nat
  BY <1>2
<1>4. [desk[m] EXCEPT !.at = "request", !.request = r, !.row = requests[r]] \in Desk
  BY <1>1, <1>3 DEF Desk
<1>5. desk' \in [Managers -> Desk]
  BY <1>4
<1> QED
  BY <1>5 DEF database, turnVars, history

LEMMA LoadOrderTypeOK ==
  ASSUME TypeOK, References, NEW m \in Managers, LoadOrder(m)
  PROVE  TypeOK'
<1> USE DEF TypeOK, LoadOrder
<1>1. desk[m] \in Desk /\ desk[m].row \in Request
  BY DEF References
<1>2. refundedAt[desk[m].row.order] \in MaybeTime /\ Len(payouts) \in Nat
  BY <1>1 DEF Request
<1>3. [desk[m] EXCEPT !.at = "order", !.refunded_at = refundedAt[desk[m].row.order],
                      !.seen = Len(payouts)] \in Desk
  BY <1>1, <1>2 DEF Desk
<1>4. desk' \in [Managers -> Desk]
  BY <1>3
<1> QED
  BY <1>4 DEF database, turnVars, history

LEMMA LoadConversationTypeOK ==
  ASSUME TypeOK, References, NEW m \in Managers, LoadConversation(m)
  PROVE  TypeOK'
<1> USE DEF TypeOK, LoadConversation
<1>1. desk[m] \in Desk /\ desk[m].row \in Request
  BY DEF References
<1>2. convVerdict[desk[m].row.conversation] \in MaybeVerdict
  BY <1>1 DEF Request
<1>3. [desk[m] EXCEPT !.at = "conversation",
                      !.verdict = convVerdict[desk[m].row.conversation]] \in Desk
  BY <1>1, <1>2 DEF Desk
<1>4. desk' \in [Managers -> Desk]
  BY <1>3
<1> QED
  BY <1>4 DEF database, turnVars, history

LEMMA ResolveCommitTypeOK ==
  ASSUME TypeOK, References, NEW m \in Managers, ResolveCommit(m)
  PROVE  TypeOK'
<1> USE DEF TypeOK, ResolveCommit
<1> DEFINE d == desk[m]
           p == [order |-> d.row.order, by |-> "manager", customer |-> None,
                 now |-> d.now, request |-> d.request, seen |-> d.seen]
<1>1. /\ d \in Desk /\ d.row \in Request /\ d.ticket \in DOMAIN escalations
      /\ d.request \in DOMAIN requests
  BY DEF References
<1>2. escalations' \in Seq(Escalation)
  <2>1. [escalations[d.ticket] EXCEPT !.status = "resolved"] \in Escalation
    BY <1>1, ResolvedTicket
  <2> QED
    BY <1>1, <2>1
<1>3. requests' \in Seq(Request)
  <2>1. requests[d.request] \in Request
    BY <1>1
  <2>2. Decided(d) \in Request
    BY <1>1, <2>1, DecidedRow
  <2> QED
    BY <1>1, <2>2
<1>4. d.row.order \in Orders /\ d.row.conversation \in Conversations /\ d.now \in Int
  BY <1>1 DEF Desk, Request
<1>5. refundedAt' \in [Orders -> MaybeTime]
  BY <1>4 DEF MaybeTime
<1>6. convVerdict' \in [Conversations -> MaybeVerdict]
  BY <1>1, <1>4 DEF Desk, MaybeVerdict, Verdicts, Written
<1>7. payouts' \in Seq(Payout)
  <2>1. d.request \in Nat \ {0} /\ d.seen \in Nat
    BY <1>1 DEF Desk
  <2>2. p \in Payout
    BY <1>4, <2>1 DEF Payout
  <2>3. payouts' = payouts \/ payouts' = Append(payouts, p)
    OBVIOUS
  <2> QED
    BY <2>2, <2>3
<1>8. desk' \in [Managers -> Desk]
  BY IdleDeskType
<1> QED
  BY <1>2, <1>3, <1>5, <1>6, <1>7, <1>8 DEF turnVars

\* The remaining steps write neither a table nor a desk.
LEMMA OtherTypeOK ==
  ASSUME TypeOK, NEW t \in Turns,
         \/ \E o \in Orders : IssueRefund(t, o) \/ Escalate(t, o)
         \/ \E v \in TurnVerdicts : CommitTurn(t, v)
         \/ CloseSession(t)
         \/ Tick
  PROVE  TypeOK'
<1>1. ASSUME NEW o \in Orders, IssueRefund(t, o)
      PROVE  TypeOK'
  <2>1. View(t, o).seen \in Nat
    BY DEF TypeOK, View, Copy
  <2>2. [order |-> o, seen |-> View(t, o).seen] \in Call
    BY <2>1 DEF Call
  <2> QED
    BY <1>1, <2>2 DEF TypeOK, IssueRefund, Phases, database, history
<1>2. ASSUME NEW o \in Orders, Escalate(t, o)
      PROVE  TypeOK'
  <2>1. [order |-> o, seen |-> Len(escalations)] \in Call
    BY DEF TypeOK, Call
  <2> QED
    BY <1>2, <2>1 DEF TypeOK, Escalate, Phases, database, history
<1>3. ASSUME NEW v \in TurnVerdicts, CommitTurn(t, v)
      PROVE  TypeOK'
  <2> DEFINE after == [session[t] EXCEPT !.answered = TRUE,
                         !.verdict = IF v = None THEN @ ELSE v]
  <2>1. session[t] \in Session /\ v \in MaybeVerdict
    BY <1>3, RefundAssumption DEF TypeOK, CommitTurn, MaybeVerdict
  <2>2. after \in Session
    BY <2>1 DEF Session
  <2>3. session' = [session EXCEPT ![t] = after]
    BY <1>3 DEF CommitTurn
  <2>4. /\ session' \in [Turns -> Session \cup {None}]
        /\ \A u \in Turns : pc'[u] # "closed" => session'[u] \in Session
    <3>1. pc' = pc
      BY <1>3 DEF CommitTurn
    <3>2. /\ session \in [Turns -> Session \cup {None}]
          /\ \A u \in Turns : pc[u] # "closed" => session[u] \in Session
      BY DEF TypeOK
    <3> HIDE DEF after
    <3> QED
      BY <2>2, <2>3, <3>1, <3>2
  <2>5. convVerdict' \in [Conversations -> MaybeVerdict]
    <3>1. session[t].conversation \in Conversations /\ session[t].verdict \in MaybeVerdict
      BY <2>1 DEF Session
    <3>2. convVerdict \in [Conversations -> MaybeVerdict]
      BY DEF TypeOK
    <3>3. Written(session[t].verdict, v, convVerdict[session[t].conversation]) \in MaybeVerdict
      BY <2>1, <3>1, <3>2 DEF Written
    <3> QED
      BY <1>3, <3>1, <3>2, <3>3 DEF CommitTurn
  <2>6. UNCHANGED <<clock, refundedAt, requests, escalations, pc, pin, call, desk, history>>
    BY <1>3 DEF CommitTurn
  <2> QED
    BY <2>4, <2>5, <2>6 DEF TypeOK, history
<1>4. CASE CloseSession(t)
  <2>1. NotHeld \in Copy
    BY DEF NotHeld, Copy, MaybeTime
  <2> QED
    BY <1>4, <2>1 DEF TypeOK, CloseSession, Phases, database, history
<1>5. CASE Tick
  BY <1>5 DEF TypeOK, Tick, database, turnVars, history
<1> QED
  BY <1>1, <1>2, <1>3, <1>4, <1>5
-----------------------------------------------------------------------------
LEMMA TurnReferences ==
  ASSUME TypeOK, References, NEW t \in Turns, TurnStep(t)
  PROVE  References'
<1>1. CASE UNCHANGED <<requests, escalations, desk>>
  BY <1>1 DEF References
<1>2. CASE CommitRefund(t)
  <2>1. /\ UNCHANGED <<escalations, desk>>
        /\ DOMAIN requests \subseteq DOMAIN requests'
        /\ \A i \in DOMAIN requests : requests'[i] = requests[i]
    BY <1>2 DEF CommitRefund, TypeOK
  <2> QED
    BY <2>1 DEF References
<1>3. CASE CommitEscalation(t)
  <2>0. requests \in Seq(Request)
    BY DEF TypeOK
  <2>1. /\ UNCHANGED desk
        /\ DOMAIN requests' = DOMAIN requests \cup {Len(requests) + 1}
        /\ \A i \in DOMAIN requests : requests'[i] = requests[i]
    BY <1>3, <2>0 DEF CommitEscalation
  <2>2. /\ DOMAIN escalations' = DOMAIN escalations \cup {Len(escalations) + 1}
        /\ \A e \in DOMAIN escalations : escalations'[e] = escalations[e]
        /\ escalations'[Len(escalations) + 1].refund_request_id = Len(requests) + 1
    BY <1>3 DEF CommitEscalation, TypeOK
  <2> QED
    BY <2>1, <2>2 DEF References
<1>4. QED
  BY <1>1, <1>2, <1>3 DEF TurnStep, OpenSession, LookupCustomer, IssueRefund, Escalate,
     CommitTurn, CloseSession, database

LEMMA ManagerReferences ==
  ASSUME TypeOK, References, NEW m \in Managers, ManagerStep(m)
  PROVE  References'
<1>1. ASSUME NEW e \in DOMAIN escalations, NEW d \in {"approve", "deny"},
             ResolveTicket(m, e, d)
      PROVE  References'
  <2>1. /\ UNCHANGED <<requests, escalations>>
        /\ \A n \in Managers \ {m} : desk'[n] = desk[n]
        /\ desk'[m].at = "ticket" /\ desk'[m].ticket = e
    BY <1>1 DEF ResolveTicket, database, TypeOK, IdleDesk
  <2> QED
    BY <2>1 DEF References
<1>2. CASE LoadRequest(m)
  <2> DEFINE r == escalations[desk[m].ticket].refund_request_id
  <2>1. desk[m].ticket \in DOMAIN escalations /\ r \in DOMAIN requests
    BY <1>2 DEF LoadRequest, References
  <2>2. requests[r] \in Request /\ desk[m] \in Desk
    BY <2>1 DEF TypeOK
  <2>3. desk' = [desk EXCEPT ![m] =
                   [desk[m] EXCEPT !.at = "request", !.request = r, !.row = requests[r]]]
    BY <1>2 DEF LoadRequest
  <2>4. /\ UNCHANGED <<requests, escalations>>
        /\ \A n \in Managers \ {m} : desk'[n] = desk[n]
        /\ desk'[m].ticket = desk[m].ticket
        /\ desk'[m].request = r /\ desk'[m].row = requests[r]
    BY <1>2, <2>2, <2>3 DEF LoadRequest, database, TypeOK, Desk
  <2> QED
    BY <2>1, <2>2, <2>4 DEF References
<1>3. CASE LoadOrder(m) \/ LoadConversation(m)
  <2>1. desk \in [Managers -> Desk] /\ desk[m] \in Desk
    BY DEF TypeOK
  <2>2. /\ UNCHANGED <<requests, escalations>>
        /\ desk[m].at \notin {"idle", "ticket"}
        /\ \A n \in Managers \ {m} : desk'[n] = desk[n]
    BY <1>3, <2>1 DEF LoadOrder, LoadConversation, database
  <2>3. /\ desk'[m].ticket = desk[m].ticket
        /\ desk'[m].request = desk[m].request /\ desk'[m].row = desk[m].row
    <3>1. CASE LoadOrder(m)
      BY <2>1, <3>1 DEF LoadOrder, Desk
    <3>2. CASE LoadConversation(m)
      BY <2>1, <3>2 DEF LoadConversation, Desk
    <3> QED
      BY <1>3, <3>1, <3>2
  <2> QED
    BY <2>2, <2>3 DEF References
<1>4. CASE ResolveCommit(m)
  <2> DEFINE d == desk[m]
  <2>1. /\ d \in Desk /\ d.row \in Request /\ d.ticket \in DOMAIN escalations
        /\ d.request \in DOMAIN requests /\ requests[d.request] \in Request
    <3>1. desk[m] \in Desk /\ requests \in Seq(Request)
      BY DEF TypeOK
    <3>2. /\ d.row \in Request /\ d.ticket \in DOMAIN escalations
          /\ d.request \in DOMAIN requests
      BY <1>4 DEF ResolveCommit, References
    <3> QED
      BY <3>1, <3>2
  <2>2. /\ DOMAIN requests' = DOMAIN requests
        /\ \A i \in DOMAIN requests : requests'[i].order = requests[i].order
    BY <1>4, <2>1, DecidedRow DEF ResolveCommit, TypeOK
  <2>3. /\ DOMAIN escalations' = DOMAIN escalations
        /\ \A e \in DOMAIN escalations :
             escalations'[e].refund_request_id = escalations[e].refund_request_id
    BY <1>4, <2>1 DEF ResolveCommit, TypeOK, Escalation
  <2>4. /\ \A n \in Managers \ {m} : desk'[n] = desk[n]
        /\ desk'[m].at = "idle"
    BY <1>4 DEF ResolveCommit, TypeOK, IdleDesk
  <2>5. \A n \in Managers : desk[n].at \notin {"idle", "ticket"} =>
          desk[n].request \in DOMAIN requests
    BY DEF References
  <2> QED
    BY <2>2, <2>3, <2>4, <2>5 DEF References
<1>5. CASE ResolveAbort(m)
  <2>1. /\ UNCHANGED <<requests, escalations>>
        /\ \A n \in Managers \ {m} : desk'[n] = desk[n]
        /\ desk'[m].at = "idle"
    BY <1>5 DEF ResolveAbort, database, TypeOK, IdleDesk
  <2> QED
    BY <2>1 DEF References
<1> QED
  BY <1>1, <1>2, <1>3, <1>4, <1>5 DEF ManagerStep
-----------------------------------------------------------------------------
Core == TypeOK /\ References

LEMMA CoreInductive == Core /\ [Next]_vars => Core'
<1> SUFFICES ASSUME Core, [Next]_vars PROVE Core'
  OBVIOUS
<1> USE DEF Core
<1>1. CASE UNCHANGED vars
  BY <1>1 DEF TypeOK, References, vars, database, turnVars, history
<1>2. CASE Tick
  <2>1. TypeOK'
    BY <1>2 DEF TypeOK, Tick, database, turnVars, history
  <2> QED
    BY <1>2, <2>1 DEF References, Tick, database
<1>3. ASSUME NEW t \in Turns, TurnStep(t) PROVE Core'
  <2>1. References'
    BY <1>3, TurnReferences
  <2>2. TypeOK'
    <3>1. ASSUME NEW c \in Conversations, NEW k \in CustomerIds \cup {None},
                 OpenSession(t, c, k)
          PROVE  TypeOK'
      BY <3>1, OpenSessionTypeOK
    <3>2. ASSUME NEW k \in CustomerIds, LookupCustomer(t, k) PROVE TypeOK'
      BY <3>2, LookupCustomerTypeOK
    <3>3. CASE CommitRefund(t) \/ CommitEscalation(t)
      BY <3>3, CommitRefundTypeOK, CommitEscalationTypeOK
    <3>4. CASE \/ \E o \in Orders : IssueRefund(t, o) \/ Escalate(t, o)
               \/ \E v \in TurnVerdicts : CommitTurn(t, v)
               \/ CloseSession(t)
      BY <3>4, OtherTypeOK
    <3> QED
      BY <1>3, <3>1, <3>2, <3>3, <3>4 DEF TurnStep
  <2> QED
    BY <2>1, <2>2
<1>4. ASSUME NEW m \in Managers, ManagerStep(m) PROVE Core'
  <2>1. ASSUME ResolveAbort(m) PROVE TypeOK'
    BY <2>1, IdleDeskType DEF TypeOK, ResolveAbort, database, turnVars, history
  <2>2. ASSUME NEW e \in DOMAIN escalations, NEW d \in {"approve", "deny"},
               ResolveTicket(m, e, d)
        PROVE  TypeOK'
    BY <2>2, ResolveTicketTypeOK
  <2>3. ASSUME LoadRequest(m) \/ LoadOrder(m) \/ LoadConversation(m) \/ ResolveCommit(m)
        PROVE  TypeOK'
    BY <2>3, LoadRequestTypeOK, LoadOrderTypeOK, LoadConversationTypeOK,
       ResolveCommitTypeOK
  <2>4. TypeOK'
    BY <1>4, <2>1, <2>2, <2>3 DEF ManagerStep
  <2>5. References'
    BY <1>4, ManagerReferences
  <2> QED
    BY <2>4, <2>5
<1> QED
  BY <1>1, <1>2, <1>3, <1>4 DEF Next

LEMMA CoreInvariant == Spec => []Core
<1>1. Init => Core
  BY InitTypeOK DEF Core, References, Init, IdleDesk
<1> QED
  BY <1>1, CoreInductive, PTL DEF Spec

\* Every variable keeps its type: among others, a running turn always has a
\* session and a pending call always an order, however requests interleave.
THEOREM TypeCorrect == Spec => []TypeOK
  BY CoreInvariant, PTL DEF Core
-----------------------------------------------------------------------------

\* A copy of order o read when "seen" refunds were committed is honest: had one of
\* them been a refund of o, the copy would carry its stamp.
Honest(o, refunded_at, seen) ==
  /\ seen <= Len(payouts)
  /\ refunded_at = None => \A i \in 1..seen : payouts[i].order # o

PaidIsStamped == \A i \in DOMAIN payouts : refundedAt[payouts[i].order] # None

PinsHonest ==
  \A t \in Turns, o \in Orders : pin[t][o].held =>
    Honest(o, pin[t][o].refunded_at, pin[t][o].seen)

CallsHonest ==
  \A t \in Turns : pc[t] = "refunding" =>
    /\ Honest(call[t].order, None, call[t].seen)
    /\ session[t].customer # None
    /\ Approves(t, call[t].order, None)

DesksHonest ==
  \A m \in Managers : desk[m].at \in {"order", "conversation"} =>
    Honest(desk[m].row.order, desk[m].refunded_at, desk[m].seen)

\* What a turn paid for is stamped, in the table and in its own copy.
OwnRefundsSeen ==
  \A t \in Turns : pc[t] # "closed" => \A o \in session[t].paid :
    /\ refundedAt[o] # None
    /\ pin[t][o].held => pin[t][o].refunded_at # None

PaymentsSeen ==
  \A j \in DOMAIN payouts :
    /\ payouts[j].seen < j
    /\ \A i \in 1..payouts[j].seen : payouts[i].order # payouts[j].order

LedgerInv ==
  /\ PaidIsStamped /\ PinsHonest /\ CallsHonest /\ DesksHonest
  /\ OwnRefundsSeen /\ PaymentsSeen
  /\ AgentPaysOnlyWithinPolicy /\ TurnNeverPaysTwice
-----------------------------------------------------------------------------
\* Only an order that carries no stamp is ever approved.
LEMMA ApprovedUnrefunded ==
  ASSUME NEW t \in Turns, NEW o \in Orders, NEW r \in MaybeTime, Approves(t, o, r)
  PROVE  r = None
<1> DEFINE checks == Checks(Row(o, r), Customer(session[t].customer), session[t].now)
<1>1. Verdict(checks) = "approve"
  BY DEF Approves, CheckRefundEligibility
<1>2. checks[2]
  BY <1>1 DEF Verdict, HardRules
<1>3. Row(o, r).refunded_at = None
  BY <1>2 DEF Checks, CheckAlreadyRefunded
<1>4. SeedOrder[o] \in OrderTable(CustomerIds)
  BY RefundAssumption
<1> QED
  BY <1>3, <1>4 DEF Row, OrderTable

\* A row read now is honest, from the table or from the identity map.
LEMMA CommittedHonest ==
  ASSUME Core, PaidIsStamped, NEW o \in Orders
  PROVE  Honest(o, refundedAt[o], Len(payouts))
<1>1. payouts \in Seq(Payout)
  BY DEF Core, TypeOK
<1>2. Len(payouts) \in Nat /\ DOMAIN payouts = 1..Len(payouts)
  BY <1>1
<1> QED
  BY <1>2 DEF Honest, PaidIsStamped

LEMMA ViewHonest ==
  ASSUME Core, PaidIsStamped, PinsHonest, NEW t \in Turns, NEW o \in Orders
  PROVE  /\ Honest(o, View(t, o).refunded_at, View(t, o).seen)
         /\ View(t, o) \in Copy
<1>1. /\ payouts \in Seq(Payout)
      /\ pin[t][o] \in Copy
      /\ refundedAt[o] \in MaybeTime
  BY DEF Core, TypeOK
<1>2. View(t, o) \in Copy
  BY <1>1 DEF View, Copy
<1>3. CASE pin[t][o].held
  BY <1>2, <1>3 DEF View, PinsHonest
<1>4. CASE ~pin[t][o].held
  BY <1>2, <1>4, CommittedHonest DEF View
<1> QED
  BY <1>2, <1>3, <1>4

\* Refunds are only ever added, each with its stamp, and stamps only ever set.
LedgerGrows ==
  /\ \/ UNCHANGED <<payouts, refundedAt>>
     \/ \E p \in Payout : /\ payouts' = Append(payouts, p)
                          /\ refundedAt' = [refundedAt EXCEPT ![p.order] = p.now]
  /\ \A o \in Orders : refundedAt[o] # None => refundedAt'[o] # None

LEMMA NextGrows == ASSUME Core, [Next]_vars PROVE LedgerGrows
<1>1. CASE UNCHANGED <<refundedAt, payouts>>
  BY <1>1 DEF LedgerGrows
<1>2. ASSUME NEW t \in Turns, CommitRefund(t) PROVE LedgerGrows
  <2> DEFINE p == [order |-> call[t].order, by |-> "agent",
                   customer |-> session[t].customer, now |-> session[t].now,
                   request |-> Len(requests) + 1, seen |-> call[t].seen]
  <2>1. session[t] \in Session /\ call[t] \in Call
    BY <1>2 DEF Core, TypeOK, CommitRefund
  <2>2. session[t].now # None /\ call[t].order \in Orders
    BY <2>1, PolicyAssumption DEF Session, Call
  <2>3. \A o \in Orders : refundedAt[o] # None => refundedAt'[o] # None
    BY <1>2, <2>2 DEF CommitRefund, Core, TypeOK
  <2>4. Len(requests) + 1 \in Nat \ {0}
    BY DEF Core, TypeOK
  <2>5. p \in Payout /\ payouts' = Append(payouts, p)
        /\ refundedAt' = [refundedAt EXCEPT ![p.order] = p.now]
    BY <1>2, <2>1, <2>4 DEF CommitRefund, Payout, Session, Call
  <2> QED
    BY <2>3, <2>5 DEF LedgerGrows
<1>3. ASSUME NEW m \in Managers, ResolveCommit(m) PROVE LedgerGrows
  <2> DEFINE d == desk[m]
             p == [order |-> d.row.order, by |-> "manager", customer |-> None,
                   now |-> d.now, request |-> d.request, seen |-> d.seen]
  <2>1. d \in Desk /\ requests \in Seq(Request)
    BY DEF Core, TypeOK
  <2>2. /\ d.row \in Request
        /\ d.request \in DOMAIN requests
    BY <1>3 DEF Core, References, ResolveCommit
  <2>3. /\ d.now \in Int /\ d.seen \in Nat /\ d.request \in Nat \ {0}
        /\ d.row.order \in Orders
    BY <2>1, <2>2 DEF Desk, Request
  <2>4. \A o \in Orders : refundedAt[o] # None => refundedAt'[o] # None
    BY <1>3, <2>3, PolicyAssumption DEF ResolveCommit, Core, TypeOK
  <2>5. p \in Payout
    BY <2>3 DEF Payout
  <2>6. \/ UNCHANGED <<payouts, refundedAt>>
        \/ /\ payouts' = Append(payouts, p)
           /\ refundedAt' = [refundedAt EXCEPT ![p.order] = p.now]
    BY <1>3 DEF ResolveCommit
  <2> QED
    BY <2>4, <2>5, <2>6 DEF LedgerGrows
<1>4. ASSUME NEW t \in Turns, TurnStep(t) PROVE LedgerGrows
  <2>1. CASE CommitRefund(t)
    BY <1>2, <2>1
  <2>2. CASE ~CommitRefund(t)
    BY <1>1, <1>4, <2>2 DEF TurnStep, OpenSession, LookupCustomer, IssueRefund, Escalate,
       CommitEscalation, CommitTurn, CloseSession, database, history
  <2> QED
    BY <2>1, <2>2
<1>5. ASSUME NEW m \in Managers, ManagerStep(m) PROVE LedgerGrows
  <2>1. CASE ResolveCommit(m)
    BY <1>3, <2>1
  <2>2. CASE ~ResolveCommit(m)
    BY <1>1, <1>5, <2>2 DEF ManagerStep, ResolveTicket, LoadRequest, LoadOrder,
       LoadConversation, ResolveAbort, database, history
  <2> QED
    BY <2>1, <2>2
<1> QED
  BY <1>1, <1>4, <1>5 DEF Next, Tick, vars, database, history

\* An honest copy stays honest, whatever others commit.
LEMMA HonestStays ==
  ASSUME payouts \in Seq(Payout), LedgerGrows, NEW o, NEW r, NEW n \in Nat, Honest(o, r, n)
  PROVE  Honest(o, r, n)'
<1>1. /\ Len(payouts) \in Nat
      /\ Len(payouts') \in Nat /\ Len(payouts) <= Len(payouts')
      /\ \A i \in 1..Len(payouts) : payouts'[i] = payouts[i]
  BY DEF LedgerGrows
<1> QED
  BY <1>1 DEF Honest
-----------------------------------------------------------------------------
\* Appending one refund: its order is stamped, and what it read was honest.
LEMMA AppendStamped ==
  ASSUME Core, PaidIsStamped, LedgerGrows,
         \A p \in Payout : payouts' = Append(payouts, p) => refundedAt'[p.order] # None
  PROVE  PaidIsStamped'
<1>1. payouts \in Seq(Payout)
  BY DEF Core, TypeOK
<1>2. \A i \in DOMAIN payouts : payouts[i].order \in Orders
  <2>1. \A i \in DOMAIN payouts : payouts[i] \in Payout
    BY <1>1
  <2> QED
    BY <2>1 DEF Payout
<1>3. CASE payouts' = payouts
  BY <1>2, <1>3 DEF PaidIsStamped, LedgerGrows
<1>4. ASSUME NEW p \in Payout, payouts' = Append(payouts, p) PROVE PaidIsStamped'
  <2>1. /\ DOMAIN payouts' = DOMAIN payouts \cup {Len(payouts) + 1}
        /\ \A i \in DOMAIN payouts : payouts'[i] = payouts[i]
        /\ payouts'[Len(payouts) + 1] = p
    BY <1>1, <1>4
  <2> QED
    BY <1>2, <1>4, <2>1 DEF PaidIsStamped, LedgerGrows
<1> QED
  BY <1>3, <1>4 DEF LedgerGrows

LEMMA AppendSeen ==
  ASSUME Core, PaymentsSeen, LedgerGrows,
         \A p \in Payout : payouts' = Append(payouts, p) => Honest(p.order, None, p.seen)
  PROVE  PaymentsSeen'
<1>1. payouts \in Seq(Payout)
  BY DEF Core, TypeOK
<1>2. CASE payouts' = payouts
  BY <1>2 DEF PaymentsSeen
<1>3. ASSUME NEW p \in Payout, payouts' = Append(payouts, p) PROVE PaymentsSeen'
  <2>1. /\ DOMAIN payouts' = DOMAIN payouts \cup {Len(payouts) + 1}
        /\ \A i \in DOMAIN payouts : payouts'[i] = payouts[i]
        /\ payouts'[Len(payouts) + 1] = p
        /\ Len(payouts) \in Nat /\ DOMAIN payouts = 1..Len(payouts)
    BY <1>1, <1>3
  <2>2. p.seen \in Nat /\ p.seen <= Len(payouts)
        /\ \A i \in 1..p.seen : payouts[i].order # p.order
    BY <1>3 DEF Honest, Payout
  <2>3. \A i \in 1..p.seen : payouts'[i].order # p.order
    BY <2>1, <2>2
  <2>4. ASSUME NEW j \in DOMAIN payouts
        PROVE  /\ payouts'[j].seen < j
               /\ \A i \in 1..payouts'[j].seen : payouts'[i].order # payouts'[j].order
    <3>1. payouts[j] \in Payout
      BY <1>1
    <3>2. payouts[j].seen \in Nat
      BY <3>1 DEF Payout
    <3>3. \A i \in 1..payouts[j].seen : i \in DOMAIN payouts
      BY <2>1, <3>2 DEF PaymentsSeen
    <3> QED
      BY <2>1, <3>3 DEF PaymentsSeen
  <2>5. p.seen < Len(payouts) + 1
    BY <2>1, <2>2
  <2> QED
    BY <2>1, <2>3, <2>4, <2>5 DEF PaymentsSeen
<1> QED
  BY <1>2, <1>3 DEF LedgerGrows
-----------------------------------------------------------------------------
\* What a step of turn t leaves alone: the desks and every other turn.
LEMMA TurnFrame ==
  ASSUME Core, NEW t \in Turns, TurnStep(t)
  PROVE  /\ UNCHANGED desk
         /\ \A u \in Turns \ {t} : /\ pc'[u] = pc[u] /\ session'[u] = session[u]
                                   /\ pin'[u] = pin[u] /\ call'[u] = call[u]
<1> USE DEF Core, TypeOK
<1>1. CASE CommitRefund(t)
  <2> DEFINE o == call[t].order
  <2>1. pin' = pin \/ pin' = [pin EXCEPT ![t] = [pin[t] EXCEPT ![o] =
          [held |-> TRUE, refunded_at |-> session[t].now, seen |-> Len(payouts) + 1]]]
    BY <1>1 DEF CommitRefund
  <2> QED
    BY <1>1, <2>1 DEF CommitRefund
<1>2. CASE \E k \in CustomerIds : LookupCustomer(t, k)
  BY <1>2 DEF LookupCustomer
<1>3. CASE CommitTurn(t, None) \/ \E v \in TurnVerdicts : CommitTurn(t, v)
  BY <1>3 DEF CommitTurn
<1>4. CASE \/ \E c \in Conversations, k \in CustomerIds \cup {None} : OpenSession(t, c, k)
           \/ \E o \in Orders : IssueRefund(t, o) \/ Escalate(t, o)
           \/ CommitEscalation(t) \/ CloseSession(t)
  BY <1>4 DEF OpenSession, IssueRefund, Escalate, CommitEscalation, CloseSession
<1> QED
  BY <1>1, <1>2, <1>3, <1>4 DEF TurnStep

\* The one row a refund changes in its session: the row it stamped.
StampedNow(t) == [held |-> TRUE, refunded_at |-> session[t].now, seen |-> Len(payouts) + 1]

LEMMA PinCommitted ==
  ASSUME Core, NEW t \in Turns, CommitRefund(t), NEW o \in Orders
  PROVE  /\ pin'[t][o] # pin[t][o] => o = call[t].order /\ pin'[t][o] = StampedNow(t)
         /\ o = call[t].order /\ pin'[t][o].held => pin'[t][o] = StampedNow(t)
<1> DEFINE b == call[t].order
<1>1. b \in Orders
  BY DEF CommitRefund, Core, TypeOK, Call
<1>2. pin' = IF ~pin[t][b].held THEN pin
             ELSE [pin EXCEPT ![t] = [pin[t] EXCEPT ![b] = StampedNow(t)]]
  BY DEF CommitRefund, StampedNow
<1> HIDE DEF b
<1>3. \/ pin' = pin /\ ~pin[t][b].held
      \/ pin'[t] = [pin[t] EXCEPT ![b] = StampedNow(t)]
  BY <1>2 DEF Core, TypeOK
<1>4. o # b => pin'[t][o] = pin[t][o]
  BY <1>3 DEF Core, TypeOK
<1>5. CASE pin' = pin /\ ~pin[t][b].held
  <2>1. pin'[t][o] = pin[t][o] /\ ~pin'[t][b].held
    BY <1>5
  <2> QED
    BY <2>1 DEF b
<1>6. CASE pin'[t] = [pin[t] EXCEPT ![b] = StampedNow(t)]
  <2>1. pin'[t][b] = StampedNow(t)
    BY <1>1, <1>6 DEF Core, TypeOK
  <2> QED
    BY <1>4, <2>1 DEF b
<1> QED
  BY <1>3, <1>5, <1>6

LEMMA PinsStep ==
  ASSUME Core, PaidIsStamped, PinsHonest, LedgerGrows, NEW t \in Turns, TurnStep(t)
  PROVE  PinsHonest'
<1>0. /\ payouts \in Seq(Payout)
      /\ \A u \in Turns, o \in Orders : pin[u][o] \in Copy /\ pin[u][o].seen \in Nat
  BY DEF Core, TypeOK, Copy
<1>1. ASSUME NEW u \in Turns, NEW o \in Orders, pin'[u][o] = pin[u][o], pin'[u][o].held
      PROVE  Honest(o, pin[u][o].refunded_at, pin[u][o].seen)'
  BY <1>0, <1>1, HonestStays DEF PinsHonest
<1> SUFFICES ASSUME NEW o \in Orders, pin'[t][o].held, pin'[t][o] # pin[t][o]
             PROVE  Honest(o, pin[t][o].refunded_at, pin[t][o].seen)'
  BY <1>1, TurnFrame DEF PinsHonest
<1>2. ASSUME NEW k \in CustomerIds, LookupCustomer(t, k)
      PROVE  Honest(o, pin[t][o].refunded_at, pin[t][o].seen)'
  <2>1. pin'[t][o] = [View(t, o) EXCEPT !.held = TRUE]
    BY <1>2 DEF LookupCustomer, NotHeld, Core, TypeOK
  <2>2. /\ Honest(o, View(t, o).refunded_at, View(t, o).seen)
        /\ View(t, o) \in Copy
    BY ViewHonest
  <2>3. /\ pin'[t][o].refunded_at = View(t, o).refunded_at
        /\ pin'[t][o].seen = View(t, o).seen
    BY <2>1, <2>2 DEF Copy
  <2>4. UNCHANGED payouts
    BY <1>2 DEF LookupCustomer, history
  <2> QED
    BY <2>2, <2>3, <2>4 DEF Honest
<1>3. CASE CommitRefund(t)
  <2>1. /\ session[t].now \in Int /\ call[t].order \in Orders
    BY <1>3 DEF CommitRefund, Core, TypeOK, Session, Call
  <2>2. pin'[t][o] = StampedNow(t)
    BY <1>3, PinCommitted
  <2>3. /\ pin'[t][o].refunded_at # None
        /\ pin'[t][o].seen = Len(payouts) + 1
    BY <2>1, <2>2, PolicyAssumption DEF StampedNow
  <2>4. Len(payouts') = Len(payouts) + 1
    BY <1>0, <1>3 DEF CommitRefund
  <2> QED
    BY <2>3, <2>4 DEF Honest
<1>4. CASE CloseSession(t)
  BY <1>4 DEF CloseSession, NotHeld, Core, TypeOK
<1> QED
  BY <1>2, <1>3, <1>4 DEF TurnStep, OpenSession, IssueRefund, Escalate,
     CommitEscalation, CommitTurn
LEMMA CallsStep ==
  ASSUME Core, PaidIsStamped, PinsHonest, CallsHonest, LedgerGrows,
         NEW t \in Turns, TurnStep(t)
  PROVE  CallsHonest'
<1>0. /\ payouts \in Seq(Payout)
      /\ \A u \in Turns : pc[u] = "refunding" => call[u].seen \in Nat
  BY DEF Core, TypeOK, Call
<1>1. ASSUME NEW u \in Turns, pc[u] = "refunding", call'[u] = call[u],
             session'[u] = session[u]
      PROVE  /\ Honest(call[u].order, None, call[u].seen)'
             /\ session'[u].customer # None
             /\ Approves(u, call[u].order, None)'
  BY <1>0, <1>1, HonestStays DEF CallsHonest, Approves
<1> SUFFICES ASSUME pc'[t] = "refunding"
             PROVE  /\ Honest(call[t].order, None, call[t].seen)'
                    /\ session'[t].customer # None
                    /\ Approves(t, call[t].order, None)'
  BY <1>1, TurnFrame DEF CallsHonest
<1>2. ASSUME NEW o \in Orders, IssueRefund(t, o)
      PROVE  /\ Honest(call[t].order, None, call[t].seen)'
             /\ session'[t].customer # None
             /\ Approves(t, call[t].order, None)'
  <2>1. /\ Honest(o, View(t, o).refunded_at, View(t, o).seen)
        /\ View(t, o) \in Copy
    BY ViewHonest
  <2>2. View(t, o).refunded_at = None
    BY <1>2, <2>1, ApprovedUnrefunded DEF IssueRefund, Copy
  <2>3. call'[t] = [order |-> o, seen |-> View(t, o).seen]
    BY <1>2 DEF IssueRefund, Core, TypeOK
  <2>4. UNCHANGED <<payouts, session>>
    BY <1>2 DEF IssueRefund, history
  <2> QED
    BY <1>2, <2>1, <2>2, <2>3, <2>4 DEF IssueRefund, Approves, Honest
<1>3. ~(\E o \in Orders : IssueRefund(t, o)) => FALSE
  BY DEF TurnStep, OpenSession, LookupCustomer, CommitRefund, Escalate,
     CommitEscalation, CommitTurn, CloseSession, Core, TypeOK
<1> QED
  BY <1>2, <1>3

\* A refund of the agent commits exactly what its call was honest about.
LEMMA CommitRefundStep ==
  ASSUME Core, CallsHonest, NEW t \in Turns, CommitRefund(t)
  PROVE  \A p \in Payout : payouts' = Append(payouts, p) =>
           /\ refundedAt'[p.order] # None
           /\ Honest(p.order, None, p.seen)
           /\ p.customer # None
           /\ CheckRefundEligibility(Row(p.order, None), Customer(p.customer), p.now).verdict
                = "approve"
<1> SUFFICES ASSUME NEW p \in Payout, payouts' = Append(payouts, p)
             PROVE  /\ refundedAt'[p.order] # None
                    /\ Honest(p.order, None, p.seen)
                    /\ p.customer # None
                    /\ CheckRefundEligibility(Row(p.order, None), Customer(p.customer),
                                              p.now).verdict = "approve"
  OBVIOUS
<1> DEFINE q == [order |-> call[t].order, by |-> "agent",
                 customer |-> session[t].customer, now |-> session[t].now,
                 request |-> Len(requests) + 1, seen |-> call[t].seen]
<1>1. payouts \in Seq(Payout) /\ payouts' = Append(payouts, q)
  BY DEF CommitRefund, Core, TypeOK
<1>2. ASSUME NEW x, payouts' = Append(payouts, x) PROVE payouts'[Len(payouts) + 1] = x
  BY <1>1, <1>2
<1>3. p = q
  <2>1. payouts'[Len(payouts) + 1] = p
    BY <1>2
  <2>2. payouts'[Len(payouts) + 1] = q
    BY <1>1, <1>2
  <2> QED
    BY <2>1, <2>2
<1>4. /\ session[t].now \in Int /\ call[t].order \in Orders
  BY DEF CommitRefund, Core, TypeOK, Session, Call
<1>5. refundedAt'[call[t].order] = session[t].now
  BY <1>4 DEF CommitRefund, Core, TypeOK
<1> QED
  BY <1>3, <1>4, <1>5, PolicyAssumption DEF CallsHonest, CommitRefund, Approves

LEMMA OwnRefundsStep ==
  ASSUME Core, OwnRefundsSeen, LedgerGrows, NEW t \in Turns, TurnStep(t)
  PROVE  OwnRefundsSeen'
<1>0. \A u \in Turns : pc[u] # "closed" => session[u].paid \subseteq Orders
  BY DEF Core, TypeOK, Session
<1>1. ASSUME NEW u \in Turns \ {t}, pc'[u] # "closed", NEW o \in session'[u].paid
      PROVE  refundedAt'[o] # None /\ (pin'[u][o].held => pin'[u][o].refunded_at # None)
  BY <1>0, <1>1, TurnFrame DEF OwnRefundsSeen, LedgerGrows
<1> SUFFICES ASSUME pc'[t] # "closed", NEW o \in session'[t].paid
             PROVE  refundedAt'[o] # None /\ (pin'[t][o].held => pin'[t][o].refunded_at # None)
  BY <1>1 DEF OwnRefundsSeen
<1>2. CASE pc[t] # "closed" /\ session'[t].paid = session[t].paid /\ pin'[t] = pin[t]
  BY <1>0, <1>2 DEF OwnRefundsSeen, LedgerGrows
<1>3. ASSUME NEW c \in Conversations, NEW k \in CustomerIds \cup {None}, OpenSession(t, c, k)
      PROVE  FALSE
  BY <1>3 DEF OpenSession, Core, TypeOK
<1>4. ASSUME NEW k \in CustomerIds, LookupCustomer(t, k)
      PROVE  refundedAt'[o] # None /\ (pin'[t][o].held => pin'[t][o].refunded_at # None)
  <2>1. session[t] \in Session /\ pc[t] # "closed"
    BY <1>4 DEF LookupCustomer, Core, TypeOK
  <2>2. session'[t].paid = session[t].paid
    BY <1>4, <2>1 DEF LookupCustomer, Session, Core, TypeOK
  <2>3. /\ o \in Orders /\ refundedAt[o] # None
        /\ pin[t][o].held => pin[t][o].refunded_at # None
    BY <1>0, <2>1, <2>2 DEF OwnRefundsSeen
  <2>4. View(t, o) \in Copy /\ View(t, o).refunded_at # None
    BY <2>3 DEF View, Copy, Core, TypeOK
  <2>5. \/ pin'[t][o] = [View(t, o) EXCEPT !.held = TRUE]
        \/ pin'[t][o] = NotHeld \/ pin'[t][o] = pin[t][o]
    BY <1>4, <2>3 DEF LookupCustomer, Core, TypeOK
  <2>6. pin'[t][o].held => pin'[t][o].refunded_at # None
    BY <2>3, <2>4, <2>5 DEF NotHeld, Copy
  <2> QED
    BY <1>4, <2>3, <2>6 DEF LookupCustomer, database
<1>5. CASE CommitRefund(t)
  <2> DEFINE b == call[t].order
  <2>1. /\ session[t] \in Session /\ session[t].now \in Int /\ b \in Orders
        /\ pc[t] # "closed"
    BY <1>5 DEF CommitRefund, Core, TypeOK, Session, Call
  <2>2. session'[t].paid = session[t].paid \cup {b}
    BY <1>5, <2>1 DEF CommitRefund, Session, Core, TypeOK
  <2>3. refundedAt'[b] = session[t].now
    BY <1>5, <2>1 DEF CommitRefund, Core, TypeOK
  <2>4. pin'[t][b].held => pin'[t][b].refunded_at = session[t].now
    <3>1. pin'[t][b].held => pin'[t][b] = StampedNow(t)
      BY <1>5, <2>1, PinCommitted
    <3>2. StampedNow(t).refunded_at = session[t].now
      BY DEF StampedNow
    <3> QED
      BY <3>1, <3>2
  <2>5. o # b => pin'[t][o] = pin[t][o]
    BY <1>0, <1>5, <2>1, <2>2, PinCommitted
  <2> QED
    BY <1>0, <2>1, <2>2, <2>3, <2>4, <2>5, PolicyAssumption DEF OwnRefundsSeen, LedgerGrows
<1>6. ASSUME NEW v \in TurnVerdicts, CommitTurn(t, v)
      PROVE  session'[t].paid = session[t].paid /\ pin' = pin /\ pc[t] # "closed"
  <2>1. session[t] \in Session
    BY <1>6 DEF CommitTurn, Core, TypeOK
  <2>2. session' = [session EXCEPT ![t] = [session[t] EXCEPT !.answered = TRUE,
                      !.verdict = IF v = None THEN @ ELSE v]]
    BY <1>6 DEF CommitTurn
  <2> QED
    BY <1>6, <2>1, <2>2 DEF CommitTurn, Session, Core, TypeOK
<1>7. CASE (\E b \in Orders : IssueRefund(t, b) \/ Escalate(t, b)) \/ CommitEscalation(t)
  BY <1>2, <1>7 DEF IssueRefund, Escalate, CommitEscalation
<1>8. CASE CloseSession(t)
  BY <1>8 DEF CloseSession, Core, TypeOK
<1> QED
  BY <1>2, <1>3, <1>4, <1>5, <1>6, <1>7, <1>8 DEF TurnStep
-----------------------------------------------------------------------------
\* A step of a manager leaves the turns alone.
LEMMA DesksStep ==
  ASSUME Core, PaidIsStamped, DesksHonest, LedgerGrows, NEW m \in Managers, ManagerStep(m)
  PROVE  DesksHonest'
<1>0. /\ payouts \in Seq(Payout)
      /\ desk \in [Managers -> Desk]
      /\ \A n \in Managers : desk[n] \in Desk /\ desk[n].seen \in Nat
  BY DEF Core, TypeOK, Desk
<1>1. \A n \in Managers \ {m} : desk'[n] = desk[n]
  BY <1>0 DEF ManagerStep, ResolveTicket, LoadRequest, LoadOrder, LoadConversation,
     ResolveCommit, ResolveAbort
<1>2. ASSUME NEW n \in Managers, desk'[n] = desk[n], desk[n].at \in {"order", "conversation"}
      PROVE  Honest(desk[n].row.order, desk[n].refunded_at, desk[n].seen)'
  BY <1>0, <1>2, HonestStays DEF DesksHonest
<1> SUFFICES ASSUME desk'[m].at \in {"order", "conversation"}
             PROVE  Honest(desk[m].row.order, desk[m].refunded_at, desk[m].seen)'
  BY <1>1, <1>2 DEF DesksHonest
<1>3. CASE LoadOrder(m)
  <2> DEFINE o == desk[m].row.order
  <2>1. o \in Orders
    BY <1>3 DEF LoadOrder, Core, References, Request
  <2>2. /\ desk'[m].row = desk[m].row /\ desk'[m].seen = Len(payouts)
        /\ desk'[m].refunded_at = refundedAt[o]
    BY <1>0, <1>3 DEF LoadOrder, Desk
  <2>3. Honest(o, refundedAt[o], Len(payouts)) /\ UNCHANGED payouts
    BY <1>3, <2>1, CommittedHonest DEF LoadOrder, history
  <2> QED
    BY <2>2, <2>3 DEF Honest
<1>4. CASE LoadConversation(m)
  <2>1. /\ desk'[m].row = desk[m].row /\ desk'[m].seen = desk[m].seen
        /\ desk'[m].refunded_at = desk[m].refunded_at
        /\ desk[m].at = "order"
    BY <1>0, <1>4 DEF LoadConversation, Desk
  <2>2. Honest(desk[m].row.order, desk[m].refunded_at, desk[m].seen) /\ UNCHANGED payouts
    BY <1>4, <2>1 DEF LoadConversation, DesksHonest, history
  <2> QED
    BY <2>1, <2>2 DEF Honest
<1>5. CASE LoadRequest(m)
  BY <1>0, <1>5 DEF LoadRequest, Desk
<1>6. ASSUME NEW e \in DOMAIN escalations, NEW d \in {"approve", "deny"}, ResolveTicket(m, e, d)
      PROVE  FALSE
  BY <1>0, <1>6 DEF ResolveTicket, IdleDesk
<1>7. CASE ResolveCommit(m) \/ ResolveAbort(m)
  BY <1>0, <1>7 DEF ResolveCommit, ResolveAbort, IdleDesk
<1> QED
  BY <1>3, <1>4, <1>5, <1>6, <1>7 DEF ManagerStep

LEMMA ResolveCommitStep ==
  ASSUME Core, DesksHonest, NEW m \in Managers, ResolveCommit(m)
  PROVE  \A p \in Payout : payouts' = Append(payouts, p) =>
           /\ refundedAt'[p.order] # None
           /\ Honest(p.order, None, p.seen)
           /\ p.by = "manager"
<1> SUFFICES ASSUME NEW p \in Payout, payouts' = Append(payouts, p)
             PROVE  /\ refundedAt'[p.order] # None
                    /\ Honest(p.order, None, p.seen)
                    /\ p.by = "manager"
  OBVIOUS
<1> DEFINE d == desk[m]
           q == [order |-> d.row.order, by |-> "manager", customer |-> None,
                 now |-> d.now, request |-> d.request, seen |-> d.seen]
<1>1. payouts \in Seq(Payout)
  BY DEF Core, TypeOK
<1>2. payouts' # payouts
  BY <1>1
<1>3. /\ d.decision = "approve" /\ d.refunded_at = None
      /\ payouts' = Append(payouts, q)
      /\ refundedAt' = [refundedAt EXCEPT ![d.row.order] = d.now]
  BY <1>2 DEF ResolveCommit
<1>4. ASSUME NEW x, payouts' = Append(payouts, x) PROVE payouts'[Len(payouts) + 1] = x
  BY <1>1, <1>4
<1>5. p = q
  <2>1. payouts'[Len(payouts) + 1] = p
    BY <1>4
  <2>2. payouts'[Len(payouts) + 1] = q
    BY <1>3, <1>4
  <2> QED
    BY <2>1, <2>2
<1>6. d.row.order \in Orders /\ d.now \in Int
  BY DEF ResolveCommit, Core, References, TypeOK, Desk, Request
<1>7. refundedAt'[d.row.order] = d.now
  BY <1>3, <1>6 DEF Core, TypeOK
<1> QED
  BY <1>3, <1>5, <1>6, <1>7, PolicyAssumption DEF ResolveCommit, DesksHonest
-----------------------------------------------------------------------------
LEMMA AppendWithinPolicy ==
  ASSUME Core, AgentPaysOnlyWithinPolicy, LedgerGrows,
         \A p \in Payout : (payouts' = Append(payouts, p) /\ p.by = "agent") =>
           /\ p.customer # None
           /\ CheckRefundEligibility(Row(p.order, None), Customer(p.customer), p.now).verdict
                = "approve"
  PROVE  AgentPaysOnlyWithinPolicy'
<1>1. payouts \in Seq(Payout)
  BY DEF Core, TypeOK
<1>2. CASE payouts' = payouts
  BY <1>2 DEF AgentPaysOnlyWithinPolicy
<1>3. ASSUME NEW p \in Payout, payouts' = Append(payouts, p)
      PROVE  AgentPaysOnlyWithinPolicy'
  <2>1. /\ DOMAIN payouts' = DOMAIN payouts \cup {Len(payouts) + 1}
        /\ \A i \in DOMAIN payouts : payouts'[i] = payouts[i]
        /\ payouts'[Len(payouts) + 1] = p
    BY <1>1, <1>3
  <2> QED
    BY <1>3, <2>1 DEF AgentPaysOnlyWithinPolicy
<1> QED
  BY <1>2, <1>3 DEF LedgerGrows

LEMMA NeverTwiceStep ==
  ASSUME Core, TurnNeverPaysTwice, OwnRefundsSeen, NEW t \in Turns, TurnStep(t)
  PROVE  TurnNeverPaysTwice'
<1> SUFFICES ASSUME pc'[t] = "refunding" PROVE call'[t].order \notin session'[t].paid
  BY TurnFrame DEF TurnNeverPaysTwice
<1>1. ASSUME NEW o \in Orders, IssueRefund(t, o)
      PROVE  call'[t].order \notin session'[t].paid
  <2>1. pin[t][o] \in Copy /\ refundedAt[o] \in MaybeTime /\ Len(payouts) \in Nat
    BY DEF Core, TypeOK
  <2>2. View(t, o) \in Copy
    BY <2>1 DEF View, Copy
  <2>3. View(t, o).refunded_at = None
    BY <1>1, <2>2, ApprovedUnrefunded DEF IssueRefund, Copy
  <2>4. o \notin session[t].paid
    BY <1>1, <2>3 DEF IssueRefund, OwnRefundsSeen, View
  <2>5. call'[t].order = o
    BY <1>1 DEF IssueRefund, Core, TypeOK
  <2> QED
    BY <1>1, <2>4, <2>5 DEF IssueRefund
<1>2. ~(\E o \in Orders : IssueRefund(t, o)) => FALSE
  BY DEF TurnStep, OpenSession, LookupCustomer, CommitRefund, Escalate,
     CommitEscalation, CommitTurn, CloseSession, Core, TypeOK
<1> QED
  BY <1>1, <1>2
-----------------------------------------------------------------------------
\* Only the two commits add a refund.
LEMMA TurnPayment ==
  ASSUME Core, CallsHonest, NEW t \in Turns, TurnStep(t)
  PROVE  \A p \in Payout : payouts' = Append(payouts, p) =>
           /\ refundedAt'[p.order] # None
           /\ Honest(p.order, None, p.seen)
           /\ p.customer # None
           /\ CheckRefundEligibility(Row(p.order, None), Customer(p.customer), p.now).verdict
                = "approve"
<1>1. payouts \in Seq(Payout)
  BY DEF Core, TypeOK
<1>2. CASE CommitRefund(t)
  BY <1>2, CommitRefundStep
<1>3. CASE ~CommitRefund(t)
  <2>1. payouts' = payouts
    BY <1>3 DEF TurnStep, OpenSession, LookupCustomer, IssueRefund, Escalate,
       CommitEscalation, CommitTurn, CloseSession, history
  <2>2. \A p \in Payout : payouts' # Append(payouts, p)
    BY <1>1, <2>1
  <2> QED
    BY <2>2
<1> QED
  BY <1>2, <1>3

LEMMA ManagerPayment ==
  ASSUME Core, DesksHonest, NEW m \in Managers, ManagerStep(m)
  PROVE  \A p \in Payout : payouts' = Append(payouts, p) =>
           /\ refundedAt'[p.order] # None
           /\ Honest(p.order, None, p.seen)
           /\ p.by = "manager"
<1>1. payouts \in Seq(Payout)
  BY DEF Core, TypeOK
<1>2. CASE ResolveCommit(m)
  BY <1>2, ResolveCommitStep
<1>3. CASE ~ResolveCommit(m)
  <2>1. payouts' = payouts
    BY <1>3 DEF ManagerStep, ResolveTicket, LoadRequest, LoadOrder, LoadConversation,
       ResolveAbort, history
  <2>2. \A p \in Payout : payouts' # Append(payouts, p)
    BY <1>1, <2>1
  <2> QED
    BY <2>2
<1> QED
  BY <1>2, <1>3

LEMMA LedgerStep ==
  ASSUME Core, LedgerInv, [Next]_vars
  PROVE  LedgerInv'
<1> USE DEF LedgerInv
<1>1. LedgerGrows
  BY NextGrows
<1>2. CASE UNCHANGED <<database, turnVars, desk, history>>
  BY <1>2 DEF PaidIsStamped, PinsHonest, CallsHonest, DesksHonest, OwnRefundsSeen,
     PaymentsSeen, AgentPaysOnlyWithinPolicy, TurnNeverPaysTwice, Honest, Approves,
     database, turnVars, history
<1>3. ASSUME NEW t \in Turns, TurnStep(t) PROVE LedgerInv'
  <2>1. PaidIsStamped' /\ PaymentsSeen' /\ AgentPaysOnlyWithinPolicy'
    BY <1>1, <1>3, TurnPayment, AppendStamped, AppendSeen, AppendWithinPolicy
  <2>2. PinsHonest' /\ CallsHonest'
    BY <1>1, <1>3, PinsStep, CallsStep
  <2>3. OwnRefundsSeen' /\ TurnNeverPaysTwice'
    BY <1>1, <1>3, OwnRefundsStep, NeverTwiceStep
  <2>4. DesksHonest'
    <3>1. /\ payouts \in Seq(Payout)
          /\ \A m \in Managers : desk[m].seen \in Nat
      BY DEF Core, TypeOK, Desk
    <3>2. UNCHANGED desk
      BY <1>3, TurnFrame
    <3> QED
      BY <1>1, <3>1, <3>2, HonestStays DEF DesksHonest
  <2> QED
    BY <2>1, <2>2, <2>3, <2>4
<1>4. ASSUME NEW m \in Managers, ManagerStep(m) PROVE LedgerInv'
  <2>1. UNCHANGED turnVars
    BY <1>4 DEF ManagerStep, ResolveTicket, LoadRequest, LoadOrder, LoadConversation,
       ResolveCommit, ResolveAbort
  <2>2. PaidIsStamped' /\ PaymentsSeen' /\ AgentPaysOnlyWithinPolicy'
    BY <1>1, <1>4, ManagerPayment, AppendStamped, AppendSeen, AppendWithinPolicy
  <2>3. DesksHonest'
    BY <1>1, <1>4, DesksStep
  <2>4. /\ payouts \in Seq(Payout)
        /\ \A t \in Turns : pc[t] = "refunding" => call[t].seen \in Nat
        /\ \A t \in Turns, o \in Orders : pin[t][o].seen \in Nat
        /\ \A t \in Turns : pc[t] # "closed" => session[t].paid \subseteq Orders
    BY DEF Core, TypeOK, Call, Copy, Session
  <2>5. PinsHonest' /\ CallsHonest'
    BY <1>1, <2>1, <2>4, HonestStays DEF PinsHonest, CallsHonest, Approves, turnVars
  <2>6. OwnRefundsSeen' /\ TurnNeverPaysTwice'
    BY <1>1, <2>1, <2>4 DEF OwnRefundsSeen, TurnNeverPaysTwice, LedgerGrows, turnVars
  <2> QED
    BY <2>2, <2>3, <2>5, <2>6
<1> QED
  BY <1>2, <1>3, <1>4 DEF Next, Tick, vars

LEMMA LedgerInvariant == Spec => [](Core /\ LedgerInv)
<1>1. Init => Core
  BY InitTypeOK DEF Core, References, Init, IdleDesk
<1>2. Init => LedgerInv
  BY DEF Init, LedgerInv, PaidIsStamped, PinsHonest, CallsHonest, DesksHonest,
     OwnRefundsSeen, PaymentsSeen, AgentPaysOnlyWithinPolicy, TurnNeverPaysTwice,
     NotHeld, IdleDesk
<1>3. Core /\ LedgerInv /\ [Next]_vars => (Core /\ LedgerInv)'
  BY CoreInductive, LedgerStep
<1> QED
  BY <1>1, <1>2, <1>3, PTL DEF Spec

\* issue_refund is the policy boundary for any number of turns and managers: no
\* interleaving, stale copy or change of customer makes the agent refund an order
\* the policy does not approve.
THEOREM PolicyBoundary == Spec => []AgentPaysOnlyWithinPolicy
  BY LedgerInvariant, PTL DEF LedgerInv

\* The refund guard fails only under overlap: a second refund of an order comes from
\* a request that read the order before the first refund was committed.
THEOREM OverlapOnly == Spec => []DoublePayNeedsOverlap
<1>1. Core /\ PaymentsSeen => DoublePayNeedsOverlap
  <2> SUFFICES ASSUME Core, PaymentsSeen, NEW i \in DOMAIN payouts, NEW j \in DOMAIN payouts,
                      i < j, payouts[i].order = payouts[j].order, ~(payouts[j].seen < i)
               PROVE  FALSE
    BY DEF DoublePayNeedsOverlap
  <2>1. payouts \in Seq(Payout)
    BY DEF Core, TypeOK
  <2>2. i \in Nat \ {0} /\ payouts[j] \in Payout
    BY <2>1
  <2>3. payouts[j].seen \in Nat
    BY <2>2 DEF Payout
  <2>4. i \in 1..payouts[j].seen
    BY <2>2, <2>3
  <2> QED
    BY <2>4 DEF PaymentsSeen
<1> QED
  BY <1>1, LedgerInvariant, PTL DEF LedgerInv

\* Within one turn the guard is complete: no turn pays the same order twice.
THEOREM NoRepeatInTurn == Spec => []TurnNeverPaysTwice
  BY LedgerInvariant, PTL DEF LedgerInv
-----------------------------------------------------------------------------
\* A copy of order o read when n refunds were committed shows a stamp only if the
\* order was seeded with one or one of those refunds was of o.
Grounded(o, refunded_at, n) ==
  /\ SeedOrder[o].refunded_at # None => refunded_at # None
  /\ refunded_at # None =>
       SeedOrder[o].refunded_at # None \/ \E i \in 1..n : payouts[i].order = o

TableGrounded == \A o \in Orders : Grounded(o, refundedAt[o], Len(payouts))

PinsGrounded ==
  \A t \in Turns, o \in Orders : pin[t][o].held =>
    Grounded(o, pin[t][o].refunded_at, pin[t][o].seen)

LEMMA GroundedStays ==
  ASSUME payouts \in Seq(Payout), LedgerGrows, NEW o, NEW r, NEW n \in Nat,
         n <= Len(payouts), Grounded(o, r, n)
  PROVE  Grounded(o, r, n)'
<1>1. /\ Len(payouts) \in Nat
      /\ \A i \in 1..Len(payouts) : payouts'[i] = payouts[i]
  BY DEF LedgerGrows
<1>2. \A i \in 1..n : payouts'[i] = payouts[i]
  BY <1>1
<1> QED
  BY <1>2 DEF Grounded

LEMMA TableGroundedStep ==
  ASSUME Core, TableGrounded, LedgerGrows
  PROVE  TableGrounded'
<1>1. payouts \in Seq(Payout) /\ refundedAt \in [Orders -> MaybeTime]
  BY DEF Core, TypeOK
<1>2. CASE UNCHANGED <<payouts, refundedAt>>
  BY <1>2 DEF TableGrounded, Grounded
<1>3. ASSUME NEW p \in Payout, payouts' = Append(payouts, p),
             refundedAt' = [refundedAt EXCEPT ![p.order] = p.now]
      PROVE  TableGrounded'
  <2>1. /\ Len(payouts) \in Nat /\ Len(payouts') = Len(payouts) + 1
        /\ \A i \in 1..Len(payouts) : payouts'[i] = payouts[i]
        /\ payouts'[Len(payouts) + 1] = p
    BY <1>1, <1>3
  <2>2. ASSUME NEW o \in Orders PROVE Grounded(o, refundedAt[o], Len(payouts))'
    <3>1. CASE o = p.order
      <4>1. Len(payouts) + 1 \in 1..Len(payouts') /\ payouts'[Len(payouts) + 1].order = o
        BY <2>1, <3>1
      <4>2. refundedAt'[o] # None
        BY <1>1, <1>3, <3>1, PolicyAssumption DEF Payout
      <4> QED
        BY <4>1, <4>2 DEF Grounded
    <3>2. CASE o # p.order
      <4>1. refundedAt'[o] = refundedAt[o]
        BY <1>1, <1>3, <3>2
      <4>2. \A i \in 1..Len(payouts) : i \in 1..Len(payouts')
        BY <2>1
      <4> QED
        BY <2>1, <4>1, <4>2 DEF TableGrounded, Grounded
    <3> QED
      BY <3>1, <3>2
  <2> QED
    BY <2>2 DEF TableGrounded
<1> QED
  BY <1>2, <1>3 DEF LedgerGrows

LEMMA ViewGrounded ==
  ASSUME TableGrounded, PinsGrounded, NEW t \in Turns, NEW o \in Orders
  PROVE  Grounded(o, View(t, o).refunded_at, View(t, o).seen)
<1>1. CASE pin[t][o].held
  BY <1>1 DEF View, PinsGrounded
<1>2. CASE ~pin[t][o].held
  BY <1>2 DEF View, TableGrounded
<1> QED
  BY <1>1, <1>2

LEMMA PinsGroundedStep ==
  ASSUME Core, PinsHonest, TableGrounded, PinsGrounded, LedgerGrows, [Next]_vars
  PROVE  PinsGrounded'
<1>0. /\ payouts \in Seq(Payout)
      /\ \A u \in Turns, o \in Orders : pin[u][o] \in Copy /\ pin[u][o].seen \in Nat
  BY DEF Core, TypeOK, Copy
<1>1. ASSUME NEW u \in Turns, NEW o \in Orders, pin'[u][o] = pin[u][o], pin'[u][o].held
      PROVE  Grounded(o, pin[u][o].refunded_at, pin[u][o].seen)'
  BY <1>0, <1>1, GroundedStays DEF PinsGrounded, PinsHonest, Honest
<1>2. CASE UNCHANGED pin
  BY <1>1, <1>2 DEF PinsGrounded
<1>3. ASSUME NEW t \in Turns, TurnStep(t) PROVE PinsGrounded'
  <2> SUFFICES ASSUME NEW o \in Orders, pin'[t][o].held, pin'[t][o] # pin[t][o]
               PROVE  Grounded(o, pin[t][o].refunded_at, pin[t][o].seen)'
    BY <1>1, <1>3, TurnFrame DEF PinsGrounded
  <2>1. ASSUME NEW k \in CustomerIds, LookupCustomer(t, k)
        PROVE  Grounded(o, pin[t][o].refunded_at, pin[t][o].seen)'
    <3>1. pin'[t][o] = [View(t, o) EXCEPT !.held = TRUE]
      BY <2>1 DEF LookupCustomer, NotHeld, Core, TypeOK
    <3>2. View(t, o) \in Copy
      BY <1>0 DEF View, Copy, Core, TypeOK
    <3>3. /\ pin'[t][o].refunded_at = View(t, o).refunded_at
          /\ pin'[t][o].seen = View(t, o).seen
      BY <3>1, <3>2 DEF Copy
    <3>4. UNCHANGED payouts
      BY <2>1 DEF LookupCustomer, history
    <3> QED
      BY <3>3, <3>4, ViewGrounded DEF Grounded
  <2>2. CASE CommitRefund(t)
    <3>1. pin'[t][o] = StampedNow(t) /\ o = call[t].order
      BY <2>2, PinCommitted
    <3>2. /\ pin'[t][o].refunded_at = session[t].now
          /\ pin'[t][o].seen = Len(payouts) + 1
      BY <3>1 DEF StampedNow
    <3>3. session[t].now # None
      BY <2>2, PolicyAssumption DEF CommitRefund, Core, TypeOK, Session
    <3>4. payouts'[Len(payouts) + 1].order = o
      BY <1>0, <2>2, <3>1 DEF CommitRefund
    <3>5. Len(payouts) + 1 \in 1..(Len(payouts) + 1)
      BY <1>0
    <3> QED
      BY <3>2, <3>3, <3>4, <3>5 DEF Grounded
  <2>3. CASE CloseSession(t)
    BY <2>3 DEF CloseSession, NotHeld, Core, TypeOK
  <2> QED
    BY <1>3, <2>1, <2>2, <2>3 DEF TurnStep, OpenSession, IssueRefund, Escalate,
       CommitEscalation, CommitTurn
<1>4. ASSUME NEW m \in Managers, ManagerStep(m) PROVE UNCHANGED pin
  BY <1>4 DEF ManagerStep, ResolveTicket, LoadRequest, LoadOrder, LoadConversation,
     ResolveCommit, ResolveAbort, turnVars
<1> QED
  BY <1>2, <1>3, <1>4 DEF Next, Tick, vars, turnVars

LEMMA SnapshotInvariant == Spec => [](TableGrounded /\ PinsGrounded)
<1>1. Init => TableGrounded /\ PinsGrounded
  BY DEF Init, TableGrounded, PinsGrounded, Grounded, NotHeld
<1>2. Core /\ LedgerInv /\ TableGrounded /\ PinsGrounded /\ [Next]_vars
        => TableGrounded' /\ PinsGrounded'
  BY NextGrows, TableGroundedStep, PinsGroundedStep DEF LedgerInv
<1> QED
  BY <1>1, <1>2, LedgerInvariant, PTL DEF Spec
-----------------------------------------------------------------------------
\* The result says whether the order carries a stamp, not which.
LEMMA ResultByStamp ==
  ASSUME NEW o \in Orders, NEW r \in MaybeTime, NEW q \in MaybeTime,
         (r = None) <=> (q = None), NEW c, NEW s
  PROVE  CheckRefundEligibility(Row(o, r), c, s) = CheckRefundEligibility(Row(o, q), c, s)
<1> DEFINE a == Row(o, r)
           b == Row(o, q)
<1>1. SeedOrder[o] \in OrderTable(CustomerIds)
  BY RefundAssumption
<1>2. /\ a.refunded_at = r /\ b.refunded_at = q
      /\ a.customer_id = b.customer_id /\ a.delivered_at = b.delivered_at
      /\ a.is_final_sale = b.is_final_sale /\ a.is_opened = b.is_opened
      /\ a.is_defective = b.is_defective /\ a.amount = b.amount
  BY <1>1 DEF Row, OrderTable
<1> HIDE DEF a, b
<1>3. CheckAlreadyRefunded(a) = CheckAlreadyRefunded(b)
  BY <1>2 DEF CheckAlreadyRefunded
<1>4. /\ CheckOwnership(a, c) = CheckOwnership(b, c)
      /\ CheckReturnWindow(a, c, s) = CheckReturnWindow(b, c, s)
      /\ CheckItemCondition(a) = CheckItemCondition(b)
      /\ CheckAmountThreshold(a) = CheckAmountThreshold(b)
  BY <1>2 DEF CheckOwnership, CheckReturnWindow, CheckItemCondition,
     CheckAmountThreshold, AgeDays
<1>5. /\ WindowDetail(a, c, s) = WindowDetail(b, c, s)
      /\ ConditionDetail(a) = ConditionDetail(b)
  BY <1>2 DEF WindowDetail, ConditionDetail, AgeDays
<1>6. Checks(a, c, s) = Checks(b, c, s) /\ Details(a, c, s) = Details(b, c, s)
  BY <1>2, <1>3, <1>4, <1>5 DEF Checks, Details
<1>7. CheckRefundEligibility(a, c, s) = CheckRefundEligibility(b, c, s)
  BY <1>6 DEF CheckRefundEligibility
<1> QED
  BY <1>7 DEF a, b

\* The stamp of order o once n refunds are committed, as AnswerAt computes it.
StampAt(o, n) ==
  LET paid == {i \in 1..n : payouts[i].order = o}
  IN  IF paid = {} THEN SeedOrder[o].refunded_at ELSE payouts[CHOOSE i \in paid : TRUE].now

LEMMA StampByLedger ==
  ASSUME Core, NEW o \in Orders, NEW n \in 0..Len(payouts)
  PROVE  /\ StampAt(o, n) \in MaybeTime
         /\ StampAt(o, n) = None <=>
              SeedOrder[o].refunded_at = None /\ \A i \in 1..n : payouts[i].order # o
<1> DEFINE paid == {i \in 1..n : payouts[i].order = o}
           i == CHOOSE i \in paid : TRUE
<1>1. StampAt(o, n) = IF paid = {} THEN SeedOrder[o].refunded_at ELSE payouts[i].now
  BY DEF StampAt
<1>2. SeedOrder[o].refunded_at \in MaybeTime
  BY RefundAssumption DEF OrderTable
<1>3. paid # {} => payouts[i].now \in Int
  <2>1. payouts \in Seq(Payout)
    BY DEF Core, TypeOK
  <2>2. \A m \in paid : payouts[m] \in Payout
    BY <2>1
  <2>3. paid # {} => i \in paid
    OBVIOUS
  <2> QED
    BY <2>2, <2>3 DEF Payout
<1>4. paid = {} <=> \A m \in 1..n : payouts[m].order # o
  OBVIOUS
<1> HIDE DEF paid, i
<1> QED
  BY <1>1, <1>2, <1>3, <1>4, PolicyAssumption DEF MaybeTime

\* An order is no older at an earlier time.
LEMMA Younger ==
  ASSUME NEW d \in Int, NEW s \in Int, NEW u \in Int, u <= s
  PROVE  /\ (u - d) \div TicksPerDay <= (s - d) \div TicksPerDay
         /\ (u - d) \div TicksPerDay \in Int /\ (s - d) \div TicksPerDay \in Int
<1>1. TicksPerDay \in Nat \ {0}
  BY PolicyAssumption
<1> QED
  BY <1>1, Z3

\* What is not denied for a row and a time was not denied, and answered alike, for
\* the row without its stamp at any earlier time.
LEMMA ResultHardens ==
  ASSUME NEW o \in Orders, NEW r \in MaybeTime, NEW q \in MaybeTime, r = None => q = None,
         NEW c, NEW s \in Int, NEW u \in Int, u <= s
  PROVE  CheckRefundEligibility(Row(o, r), c, s).verdict
           \in {CheckRefundEligibility(Row(o, q), c, u).verdict, "deny"}
<1> DEFINE a == Row(o, r)
           b == Row(o, q)
           j == Checks(a, c, s)
           k == Checks(b, c, u)
<1>1. SeedOrder[o] \in OrderTable(CustomerIds)
  BY RefundAssumption
<1>2. /\ a.refunded_at = r /\ b.refunded_at = q
      /\ a.customer_id = b.customer_id /\ a.delivered_at = b.delivered_at
      /\ a.is_final_sale = b.is_final_sale /\ a.is_opened = b.is_opened
      /\ a.is_defective = b.is_defective /\ a.amount = b.amount
      /\ a.delivered_at \in MaybeTime
  BY <1>1 DEF Row, OrderTable
<1>3. /\ j[1] = CheckOwnership(a, c) /\ j[2] = CheckAlreadyRefunded(a)
      /\ j[3] = CheckReturnWindow(a, c, s) /\ j[4] = CheckItemCondition(a)
      /\ j[5] = CheckAmountThreshold(a)
      /\ k[1] = CheckOwnership(b, c) /\ k[2] = CheckAlreadyRefunded(b)
      /\ k[3] = CheckReturnWindow(b, c, u) /\ k[4] = CheckItemCondition(b)
      /\ k[5] = CheckAmountThreshold(b)
  BY DEF Checks
<1>4. /\ CheckRefundEligibility(a, c, s).verdict = Verdict(j)
      /\ CheckRefundEligibility(b, c, u).verdict = Verdict(k)
  BY DEF CheckRefundEligibility
<1> HIDE DEF a, b, j, k
<1>5. (j[1] <=> k[1]) /\ (j[4] <=> k[4]) /\ j[5] = k[5]
  BY <1>2, <1>3 DEF CheckOwnership, CheckItemCondition, CheckAmountThreshold
<1>6. j[2] => k[2]
  BY <1>2, <1>3 DEF CheckAlreadyRefunded
<1>7. j[3] => k[3]
  <2> SUFFICES ASSUME CheckReturnWindow(a, c, s) PROVE CheckReturnWindow(b, c, u)
    BY <1>3
  <2>1. a.delivered_at # None /\ AgeDays(a, s) <= WindowDays(c)
    BY DEF CheckReturnWindow
  <2>2. a.delivered_at \in Int /\ WindowDays(c) \in Int
    BY <1>2, <2>1, PolicyAssumption DEF MaybeTime, WindowDays
  <2>3. AgeDays(b, u) <= AgeDays(a, s) /\ AgeDays(b, u) \in Int /\ AgeDays(a, s) \in Int
    BY <1>2, <2>2, Younger DEF AgeDays
  <2> QED
    BY <1>2, <2>1, <2>2, <2>3 DEF CheckReturnWindow
<1>8. Verdict(j) \in {Verdict(k), "deny"}
  <2>1. (\E i \in HardRules : ~k[i]) => (\E i \in HardRules : ~j[i])
    BY <1>5, <1>6, <1>7 DEF HardRules
  <2> QED
    BY <1>5, <2>1 DEF Verdict
<1> QED
  BY <1>4, <1>8 DEF a, b

\* The copy a turn answers from and the ledger as of its reading tell the same.
LEMMA ViewIsSnapshot ==
  ASSUME Core, PaidIsStamped, PinsHonest, TableGrounded, PinsGrounded,
         NEW t \in Turns, NEW o \in Orders
  PROVE  /\ View(t, o) \in Copy
         /\ View(t, o).seen \in 0..Len(payouts)
         /\ (View(t, o).refunded_at = None) <=> (StampAt(o, View(t, o).seen) = None)
<1> DEFINE v == View(t, o)
<1>1. /\ v \in Copy /\ v.seen \in 0..Len(payouts)
      /\ v.refunded_at = None => \A i \in 1..v.seen : payouts[i].order # o
      /\ Grounded(o, v.refunded_at, v.seen)
  <2>1. Len(payouts) \in Nat
    BY DEF Core, TypeOK
  <2> QED
    BY <2>1, ViewHonest, ViewGrounded DEF Honest, Copy
<1> HIDE DEF v
<1>2. StampAt(o, v.seen) = None <=>
        SeedOrder[o].refunded_at = None /\ \A i \in 1..v.seen : payouts[i].order # o
  BY <1>1, StampByLedger
<1> QED
  BY <1>1, <1>2 DEF v, Grounded

\* For every policy, seeded order and interleaving: a turn answers as of one moment of
\* the ledger and one time, and what it answers is a denial or what was answered as of
\* every earlier moment and time.
THEOREM AnswersHarden == Spec => []AnswersOnlyHarden
<1>1. Core /\ LedgerInv /\ TableGrounded /\ PinsGrounded => AnswersOnlyHarden
  <2> SUFFICES ASSUME Core, PaidIsStamped, PinsHonest, TableGrounded, PinsGrounded,
                      NEW t \in Turns, NEW o \in Orders,
                      pc[t] # "closed", session[t].customer # None
               PROVE  LET k == session[t].customer
                          seen == View(t, o).seen
                          now == session[t].now
                      IN  /\ Answer(t, o) = AnswerAt(o, k, seen, now)
                          /\ \A n \in 0..seen, s \in 0..now :
                               Answer(t, o).verdict \in {AnswerAt(o, k, n, s).verdict, "deny"}
    BY DEF AnswersOnlyHarden, LedgerInv
  <2> DEFINE k == session[t].customer
             v == View(t, o)
             now == session[t].now
  <2>1. /\ v \in Copy /\ v.refunded_at \in MaybeTime
        /\ v.seen \in 0..Len(payouts) /\ v.seen \in Nat /\ Len(payouts) \in Nat
        /\ (v.refunded_at = None) <=> (StampAt(o, v.seen) = None)
    BY ViewIsSnapshot DEF Copy, Core, TypeOK
  <2>2. now \in Int
    BY DEF Core, TypeOK, Session
  <2>3. Answer(t, o) = CheckRefundEligibility(Row(o, v.refunded_at), Customer(k), now)
    BY DEF Answer
  <2>4. \A n, s : AnswerAt(o, k, n, s)
                    = CheckRefundEligibility(Row(o, StampAt(o, n)), Customer(k), s)
    BY DEF AnswerAt, StampAt
  <2> HIDE DEF k, v, now
  <2>5. Answer(t, o) = AnswerAt(o, k, v.seen, now)
    BY <2>1, <2>3, <2>4, ResultByStamp, StampByLedger
  <2>6. ASSUME NEW n \in 0..v.seen, NEW s \in 0..now
        PROVE  Answer(t, o).verdict \in {AnswerAt(o, k, n, s).verdict, "deny"}
    <3>1. n \in 0..Len(payouts) /\ \A i \in 1..n : i \in 1..v.seen
      BY <2>1
    <3>2. StampAt(o, v.seen) = None => StampAt(o, n) = None
      BY <2>1, <3>1, StampByLedger
    <3>3. StampAt(o, n) \in MaybeTime
      BY <3>1, StampByLedger
    <3>4. s \in Int /\ s <= now
      BY <2>2
    <3> QED
      BY <2>1, <2>2, <2>3, <2>4, <3>2, <3>3, <3>4, ResultHardens
  <2> QED
    BY <2>5, <2>6 DEF k, v, now
<1> QED
  BY <1>1, LedgerInvariant, SnapshotInvariant, PTL
=============================================================================
