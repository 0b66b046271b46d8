------------------------- MODULE RefundTicketProofs -------------------------
(***************************************************************************)
(* The records: tickets, their requests and the stamps, however turns and  *)
(* managers interleave.  A manager decides on a copy of the request that   *)
(* may be stale by then; what saves the record is that a request only ever *)
(* moves from Waiting to Settled, so that a stale copy is a Waiting one    *)
(* and SQLAlchemy writes all columns of it.                                *)
(***************************************************************************)
EXTENDS RefundServiceProofs

Waiting(r) == r.status = "decided" /\ r.verdict = "escalate" /\ r.decided_by = "agent"
Settled(r) == r.status = "resolved" /\ r.verdict # "escalate" /\ r.decided_by = "manager"

\* A copy of a request that is settled is a copy of a request that is.
CopiesLag ==
  \A m \in Managers : desk[m].at \notin {"idle", "ticket"} =>
    /\ Waiting(desk[m].row) \/ Settled(desk[m].row)
    /\ Settled(desk[m].row) => Settled(requests[desk[m].request])

TicketInv == TicketMatchesRequest /\ CopiesLag

\* What any step does to the two tables.
TablesStay == UNCHANGED <<requests, escalations>>

InsertRequest(r) ==
  /\ r.verdict = "approve" /\ r.decided_by = "agent"
  /\ requests' = Append(requests, r) /\ UNCHANGED escalations

InsertTicket(r) ==
  /\ Waiting(r)
  /\ requests' = Append(requests, r)
  /\ escalations' = Append(escalations,
       [refund_request_id |-> Len(requests) + 1, status |-> "open"])

Settle(m) ==
  /\ desk[m].at = "conversation"
  /\ escalations' = [escalations EXCEPT ![desk[m].ticket].status = "resolved"]
  /\ requests' = [requests EXCEPT ![desk[m].request] = Decided(desk[m])]
-----------------------------------------------------------------------------
LEMMA TurnTables ==
  ASSUME Core, NEW t \in Turns, TurnStep(t)
  PROVE  /\ TablesStay \/ \E r \in Request : InsertRequest(r) \/ InsertTicket(r)
         /\ UNCHANGED desk
<1>1. UNCHANGED desk
  BY TurnFrame
<1>2. CASE CommitRefund(t)
  <2> DEFINE r == [order |-> call[t].order, conversation |-> session[t].conversation,
                   status |-> "decided", verdict |-> "approve", decided_by |-> "agent"]
  <2>1. session[t] \in Session /\ call[t] \in Call
    BY <1>2 DEF CommitRefund, Core, TypeOK
  <2>2. r \in Request
    BY <2>1 DEF Request, Session, Call, Verdicts
  <2>3. InsertRequest(r)
    BY <1>2 DEF CommitRefund, InsertRequest
  <2> QED
    BY <1>1, <2>2, <2>3
<1>3. CASE CommitEscalation(t)
  <2> DEFINE r == [order |-> call[t].order, conversation |-> session[t].conversation,
                   status |-> "decided", verdict |-> "escalate", decided_by |-> "agent"]
  <2>1. session[t] \in Session /\ call[t] \in Call
    BY <1>3 DEF CommitEscalation, Core, TypeOK
  <2>2. r \in Request
    BY <2>1 DEF Request, Session, Call, Verdicts
  <2>3. InsertTicket(r)
    BY <1>3 DEF CommitEscalation, InsertTicket, Waiting
  <2> QED
    BY <1>1, <2>2, <2>3
<1>4. CASE ~CommitRefund(t) /\ ~CommitEscalation(t)
  BY <1>1, <1>4 DEF TurnStep, OpenSession, LookupCustomer, IssueRefund, Escalate,
     CommitTurn, CloseSession, database, TablesStay
<1> QED
  BY <1>2, <1>3, <1>4

LEMMA ManagerTables ==
  ASSUME NEW m \in Managers, ManagerStep(m)
  PROVE  TablesStay \/ (Settle(m) /\ ResolveCommit(m))
BY DEF ManagerStep, ResolveTicket, LoadRequest, LoadOrder, LoadConversation,
   ResolveCommit, ResolveAbort, database, TablesStay, Settle

LEMMA StepTables ==
  ASSUME Core, [Next]_vars
  PROVE  \/ TablesStay
         \/ \E r \in Request : InsertRequest(r) \/ InsertTicket(r)
         \/ \E m \in Managers : Settle(m)
<1>1. CASE UNCHANGED vars \/ Tick
  BY <1>1 DEF vars, Tick, database, TablesStay
<1>2. ASSUME NEW t \in Turns, TurnStep(t)
      PROVE  TablesStay \/ \E r \in Request : InsertRequest(r) \/ InsertTicket(r)
  BY <1>2, TurnTables
<1>3. ASSUME NEW m \in Managers, ManagerStep(m)
      PROVE  TablesStay \/ Settle(m)
  BY <1>3, ManagerTables
<1> QED
  BY <1>1, <1>2, <1>3 DEF Next

\* The rows a manager's commit writes.
LEMMA SettledRow ==
  ASSUME Core, TicketInv, NEW m \in Managers, Settle(m)
  PROVE  /\ desk[m].ticket \in DOMAIN escalations
         /\ desk[m].request = escalations[desk[m].ticket].refund_request_id
         /\ desk[m].request \in DOMAIN requests
         /\ Settled(Decided(desk[m])) /\ Decided(desk[m]) \in Request
         /\ Waiting(requests[desk[m].request]) \/ Settled(requests[desk[m].request])
         /\ Decided(desk[m]).order = requests[desk[m].request].order
         /\ Decided(desk[m]).conversation = requests[desk[m].request].conversation
<1> DEFINE d == desk[m]
           r == requests[d.request]
<1>1. /\ d.ticket \in DOMAIN escalations /\ d.row \in Request
      /\ d.request = escalations[d.ticket].refund_request_id
      /\ d.request \in DOMAIN requests
  BY DEF Core, References, Settle
<1>2. d \in Desk /\ requests[d.request] \in Request
  BY <1>1 DEF Core, TypeOK
<1>3. Waiting(r) \/ Settled(r)
  BY <1>1 DEF TicketInv, TicketMatchesRequest, Waiting, Settled
<1>4. (Waiting(d.row) \/ Settled(d.row)) /\ (Settled(d.row) => Settled(r))
  BY DEF TicketInv, CopiesLag, Settle
<1>5. d.decision \in {"approve", "deny"}
  BY <1>2 DEF Desk
<1>6. Settled(Decided(d))
  <2> HIDE DEF d
  <2> QED
    BY <1>1, <1>2, <1>3, <1>4, <1>5, DecidedRow DEF Settled, Waiting, Written
<1> QED
  BY <1>1, <1>2, <1>3, <1>6, DecidedRow
-----------------------------------------------------------------------------
\* Rows are never deleted and keep what identifies them; tickets are not reopened.
RowsStay ==
  /\ \A i \in DOMAIN requests :
       /\ i \in DOMAIN requests'
       /\ requests'[i].order = requests[i].order
       /\ requests'[i].conversation = requests[i].conversation
  /\ \A e \in DOMAIN escalations :
       /\ e \in DOMAIN escalations'
       /\ escalations'[e].refund_request_id = escalations[e].refund_request_id
       /\ escalations[e].status = "resolved" => escalations'[e].status = "resolved"

\* After an insertion the old rows are where they were.
LEMMA InsertFrame ==
  ASSUME Core, NEW r \in Request, InsertRequest(r) \/ InsertTicket(r)
  PROVE  /\ DOMAIN requests' = DOMAIN requests \cup {Len(requests) + 1}
         /\ \A i \in DOMAIN requests : requests'[i] = requests[i]
         /\ requests'[Len(requests) + 1] = r
         /\ Len(requests) + 1 \notin DOMAIN requests
         /\ \A e \in DOMAIN escalations :
              e \in DOMAIN escalations' /\ escalations'[e] = escalations[e]
<1>1. requests \in Seq(Request) /\ escalations \in Seq(Escalation)
  BY DEF Core, TypeOK
<1>2. requests' = Append(requests, r)
  BY DEF InsertRequest, InsertTicket
<1>3. /\ DOMAIN requests' = DOMAIN requests \cup {Len(requests) + 1}
      /\ Len(requests) + 1 \notin DOMAIN requests
      /\ \A i \in DOMAIN requests : requests'[i] = requests[i]
      /\ requests'[Len(requests) + 1] = r
  BY <1>1, <1>2
<1>4. \A e \in DOMAIN escalations :
        e \in DOMAIN escalations' /\ escalations'[e] = escalations[e]
  <2>1. CASE InsertRequest(r)
    BY <2>1 DEF InsertRequest, TablesStay
  <2>2. CASE InsertTicket(r)
    <3>1. PICK x : escalations' = Append(escalations, x)
      BY <2>2 DEF InsertTicket
    <3> QED
      BY <1>1, <3>1
  <2> QED
    BY <2>1, <2>2
<1> QED
  BY <1>3, <1>4

LEMMA TicketFrame ==
  ASSUME Core, NEW r \in Request, InsertTicket(r)
  PROVE  LET e == Len(escalations) + 1
         IN  /\ DOMAIN escalations' = DOMAIN escalations \cup {e}
             /\ e \notin DOMAIN escalations
             /\ escalations'[e].refund_request_id = Len(requests) + 1
             /\ escalations'[e].status = "open"
BY DEF InsertTicket, Core, TypeOK

LEMMA SettleFrame ==
  ASSUME Core, TicketInv, NEW m \in Managers, Settle(m)
  PROVE  /\ DOMAIN requests' = DOMAIN requests
         /\ DOMAIN escalations' = DOMAIN escalations
         /\ \A i \in DOMAIN requests :
              requests'[i] = IF i = desk[m].request THEN Decided(desk[m]) ELSE requests[i]
         /\ \A e \in DOMAIN escalations :
              /\ escalations'[e].refund_request_id = escalations[e].refund_request_id
              /\ escalations'[e].status =
                   IF e = desk[m].ticket THEN "resolved" ELSE escalations[e].status
<1>1. requests \in Seq(Request) /\ escalations \in Seq(Escalation)
  BY DEF Core, TypeOK
<1>2. desk[m].ticket \in DOMAIN escalations
  BY SettledRow
<1>3. escalations[desk[m].ticket] \in Escalation
  BY <1>1, <1>2
<1>4. /\ DOMAIN escalations' = DOMAIN escalations
      /\ \A e \in DOMAIN escalations :
           /\ escalations'[e].refund_request_id = escalations[e].refund_request_id
           /\ escalations'[e].status =
                IF e = desk[m].ticket THEN "resolved" ELSE escalations[e].status
  BY <1>1, <1>2, <1>3 DEF Settle, Escalation
<1>5. /\ DOMAIN requests' = DOMAIN requests
      /\ \A i \in DOMAIN requests :
           requests'[i] = IF i = desk[m].request THEN Decided(desk[m]) ELSE requests[i]
  BY <1>1 DEF Settle
<1> QED
  BY <1>4, <1>5

LEMMA RowsStayStep ==
  ASSUME Core, TicketInv, [Next]_vars
  PROVE  RowsStay
<1>1. CASE TablesStay
  BY <1>1 DEF TablesStay, RowsStay
<1>2. ASSUME NEW r \in Request, InsertRequest(r) \/ InsertTicket(r) PROVE RowsStay
  BY <1>2, InsertFrame DEF RowsStay
<1>3. ASSUME NEW m \in Managers, Settle(m) PROVE RowsStay
  BY <1>3, SettleFrame, SettledRow DEF RowsStay
<1> QED
  BY <1>1, <1>2, <1>3, StepTables
-----------------------------------------------------------------------------
LEMMA InsertRequestMatches ==
  ASSUME Core, TicketMatchesRequest, NEW r \in Request, InsertRequest(r)
  PROVE  TicketMatchesRequest'
<1>1. \A e \in DOMAIN escalations : escalations[e].refund_request_id \in DOMAIN requests
  BY DEF Core, References
<1> QED
  BY <1>1, InsertFrame DEF TicketMatchesRequest, InsertRequest

LEMMA InsertTicketMatches ==
  ASSUME Core, TicketMatchesRequest, NEW r \in Request, InsertTicket(r)
  PROVE  TicketMatchesRequest'
<1> DEFINE e == Len(escalations) + 1
           i == Len(requests) + 1
<1>1. \A f \in DOMAIN escalations : escalations[f].refund_request_id \in DOMAIN requests
  BY DEF Core, References
<1>2. /\ DOMAIN escalations' = DOMAIN escalations \cup {e} /\ e \notin DOMAIN escalations
      /\ escalations'[e].refund_request_id = i /\ escalations'[e].status = "open"
  BY TicketFrame
<1>3. /\ DOMAIN requests' = DOMAIN requests \cup {i} /\ i \notin DOMAIN requests
      /\ requests'[i] = r /\ Waiting(r)
      /\ \A j \in DOMAIN requests : requests'[j] = requests[j]
      /\ \A f \in DOMAIN escalations : escalations'[f] = escalations[f]
  BY InsertFrame DEF InsertTicket
<1> HIDE DEF e, i
<1> QED
  BY <1>1, <1>2, <1>3 DEF TicketMatchesRequest, Waiting

LEMMA SettleMatches ==
  ASSUME Core, TicketInv, NEW m \in Managers, Settle(m)
  PROVE  TicketMatchesRequest'
<1> DEFINE d == desk[m]
<1>1. TicketMatchesRequest
  BY DEF TicketInv
<1>2. /\ d.ticket \in DOMAIN escalations /\ d.request \in DOMAIN requests
      /\ d.request = escalations[d.ticket].refund_request_id
      /\ Settled(Decided(d))
  BY SettledRow
<1>3. /\ DOMAIN requests' = DOMAIN requests
      /\ DOMAIN escalations' = DOMAIN escalations
      /\ \A i \in DOMAIN requests :
           requests'[i] = IF i = d.request THEN Decided(d) ELSE requests[i]
      /\ \A e \in DOMAIN escalations :
           /\ escalations'[e].refund_request_id = escalations[e].refund_request_id
           /\ escalations'[e].status =
                IF e = d.ticket THEN "resolved" ELSE escalations[e].status
  BY SettleFrame
<1> HIDE DEF d
<1> QED
  BY <1>1, <1>2, <1>3 DEF TicketMatchesRequest, Settled

LEMMA TurnLag ==
  ASSUME Core, CopiesLag, UNCHANGED desk,
         TablesStay \/ \E r \in Request : InsertRequest(r) \/ InsertTicket(r)
  PROVE  CopiesLag'
<1>1. \A m \in Managers : desk[m].at \notin {"idle", "ticket"} =>
        desk[m].request \in DOMAIN requests
  BY DEF Core, References
<1>2. \A i \in DOMAIN requests : requests'[i] = requests[i]
  BY InsertFrame DEF TablesStay
<1> QED
  BY <1>1, <1>2 DEF CopiesLag

LEMMA ManagerLag ==
  ASSUME Core, TicketInv, NEW m \in Managers, ManagerStep(m)
  PROVE  CopiesLag'
<1>1. desk \in [Managers -> Desk]
  BY DEF Core, TypeOK
<1>2. \A n \in Managers \ {m} : desk'[n] = desk[n]
  BY <1>1 DEF ManagerStep, ResolveTicket, LoadRequest, LoadOrder, LoadConversation,
     ResolveCommit, ResolveAbort
<1>3. \A n \in Managers : desk[n].at \notin {"idle", "ticket"} =>
        /\ desk[n].request \in DOMAIN requests
        /\ Settled(requests[desk[n].request]) => Settled(requests'[desk[n].request])
  <2>1. \A n \in Managers : desk[n].at \notin {"idle", "ticket"} =>
          desk[n].request \in DOMAIN requests
    BY DEF Core, References
  <2>2. CASE TablesStay
    BY <2>1, <2>2 DEF TablesStay
  <2>3. CASE Settle(m)
    BY <2>1, <2>3, SettleFrame, SettledRow
  <2> QED
    BY <2>2, <2>3, ManagerTables
<1>4. ASSUME NEW n \in Managers, desk'[n].at \notin {"idle", "ticket"},
             desk[n].at \notin {"idle", "ticket"},
             desk'[n].row = desk[n].row, desk'[n].request = desk[n].request
      PROVE  /\ Waiting(desk'[n].row) \/ Settled(desk'[n].row)
             /\ Settled(desk'[n].row) => Settled(requests'[desk'[n].request])
  BY <1>3, <1>4 DEF TicketInv, CopiesLag
<1> SUFFICES ASSUME desk'[m].at \notin {"idle", "ticket"}
             PROVE  /\ Waiting(desk'[m].row) \/ Settled(desk'[m].row)
                    /\ Settled(desk'[m].row) => Settled(requests'[desk'[m].request])
  BY <1>2, <1>4 DEF CopiesLag
<1>5. CASE LoadRequest(m)
  <2> DEFINE r == escalations[desk[m].ticket].refund_request_id
  <2>1. desk[m].ticket \in DOMAIN escalations
    BY <1>5 DEF LoadRequest, Core, References
  <2>2. Waiting(requests[r]) \/ Settled(requests[r])
    BY <2>1 DEF TicketInv, TicketMatchesRequest, Waiting, Settled
  <2>3. desk'[m].row = requests[r] /\ desk'[m].request = r
    BY <1>1, <1>5 DEF LoadRequest, Desk
  <2> QED
    BY <1>5, <2>2, <2>3 DEF LoadRequest, database
<1>6. CASE LoadOrder(m) \/ LoadConversation(m)
  <2>1. /\ desk'[m].row = desk[m].row /\ desk'[m].request = desk[m].request
        /\ desk[m].at \notin {"idle", "ticket"}
    <3>1. CASE LoadOrder(m)
      BY <1>1, <3>1 DEF LoadOrder, Desk
    <3>2. CASE LoadConversation(m)
      BY <1>1, <3>2 DEF LoadConversation, Desk
    <3> QED
      BY <1>6, <3>1, <3>2
  <2> QED
    BY <1>4, <2>1
<1>7. ASSUME NEW e \in DOMAIN escalations, NEW d \in {"approve", "deny"}, ResolveTicket(m, e, d)
      PROVE  FALSE
  BY <1>1, <1>7 DEF ResolveTicket, IdleDesk
<1>8. CASE ResolveCommit(m) \/ ResolveAbort(m)
  BY <1>1, <1>8 DEF ResolveCommit, ResolveAbort, IdleDesk
<1> QED
  BY <1>5, <1>6, <1>7, <1>8 DEF ManagerStep

LEMMA TicketInvStep ==
  ASSUME Core, TicketInv, [Next]_vars
  PROVE  TicketInv'
<1>1. TicketMatchesRequest'
  <2>1. CASE TablesStay
    BY <2>1 DEF TablesStay, TicketInv, TicketMatchesRequest
  <2> QED
    BY <2>1, StepTables, InsertRequestMatches, InsertTicketMatches, SettleMatches
    DEF TicketInv
<1>2. CopiesLag'
  <2>1. CASE UNCHANGED vars \/ Tick
    BY <2>1, TurnLag DEF vars, Tick, database, TablesStay, TicketInv
  <2>2. ASSUME NEW t \in Turns, TurnStep(t) PROVE CopiesLag'
    BY <2>2, TurnTables, TurnLag DEF TicketInv
  <2>3. ASSUME NEW m \in Managers, ManagerStep(m) PROVE CopiesLag'
    BY <2>3, ManagerLag
  <2> QED
    BY <2>1, <2>2, <2>3 DEF Next
<1> QED
  BY <1>1, <1>2 DEF TicketInv
-----------------------------------------------------------------------------
LEMMA TicketInvariant == Spec => [](Core /\ TicketInv)
<1>1. Init => Core /\ TicketInv
  BY InitTypeOK DEF Core, References, Init, IdleDesk, TicketInv, TicketMatchesRequest,
     CopiesLag
<1>2. Core /\ TicketInv /\ [Next]_vars => (Core /\ TicketInv)'
  BY CoreInductive, TicketInvStep
<1> QED
  BY <1>1, <1>2, PTL DEF Spec

\* Tickets and their requests tell one story, for any number of turns and managers:
\* also when two managers decide the same ticket from copies of different age.
THEOREM RecordsAgree == Spec => []TicketMatchesRequest
  BY TicketInvariant, PTL DEF TicketInv

\* A request that is resolved, or approved by the agent, is past all changes but
\* those of a second manager, who leaves it resolved.
LEMMA FinalRows ==
  ASSUME Core, TicketInv, [Next]_vars, NEW i \in DOMAIN requests
  PROVE  /\ i \in DOMAIN requests'
         /\ requests[i].status = "resolved" => requests'[i].status = "resolved"
         /\ (requests[i].verdict = "approve" /\ requests[i].decided_by = "agent")
              => requests'[i] = requests[i]
<1>1. CASE TablesStay
  BY <1>1 DEF TablesStay
<1>2. ASSUME NEW r \in Request, InsertRequest(r) \/ InsertTicket(r)
      PROVE  i \in DOMAIN requests' /\ requests'[i] = requests[i]
  BY <1>2, InsertFrame
<1>3. ASSUME NEW m \in Managers, Settle(m)
      PROVE  /\ i \in DOMAIN requests'
             /\ \/ requests'[i] = requests[i]
                \/ /\ Settled(requests'[i])
                   /\ Waiting(requests[i]) \/ Settled(requests[i])
  BY <1>3, SettleFrame, SettledRow
<1> QED
  BY <1>1, <1>2, <1>3, StepTables DEF Waiting, Settled

\* No interleaving takes a record back, or makes it one about another order,
\* conversation or request.
THEOREM NothingTakenBack == Spec => RecordsOnlyMoveForward
<1>1. Core /\ TicketInv /\ [Next]_vars => [MovesForward]_vars
  <2> SUFFICES ASSUME Core, TicketInv, [Next]_vars PROVE MovesForward
    OBVIOUS
  <2>1. RowsStay /\ LedgerGrows
    BY RowsStayStep, NextGrows
  <2> QED
    BY <2>1, FinalRows DEF MovesForward, RowsStay, LedgerGrows
<1> QED
  BY <1>1, TicketInvariant, PTL DEF Spec, RecordsOnlyMoveForward
-----------------------------------------------------------------------------
\* The order of ticket e in tables rs and es, and what a dedupe query that saw n
\* tickets and none open for order o says of the first n, for ever.
OrderOf(rs, es, e) == rs[es[e].refund_request_id].order

NoneOpen(rs, es, o, n) ==
  /\ n <= Len(es)
  /\ \A e \in 1..n : OrderOf(rs, es, e) = o => es[e].status = "resolved"

CallsDeduped ==
  \A t \in Turns : pc[t] = "escalating" =>
    NoneOpen(requests, escalations, call[t].order, call[t].seen)

OpeningsDeduped ==
  /\ Len(openings) = Len(escalations)
  /\ \A f \in DOMAIN openings :
       /\ openings[f] < f
       /\ NoneOpen(requests, escalations, OrderOf(requests, escalations, f), openings[f])

DedupeInv == CallsDeduped /\ OpeningsDeduped

LEMMA TicketRow ==
  ASSUME Core, RowsStay, NEW e \in DOMAIN escalations
  PROVE  /\ e \in DOMAIN escalations'
         /\ OrderOf(requests, escalations, e) \in Orders
         /\ OrderOf(requests', escalations', e) = OrderOf(requests, escalations, e)
<1>1. requests \in Seq(Request) /\ escalations[e].refund_request_id \in DOMAIN requests
  BY DEF Core, References, TypeOK
<1>2. requests[escalations[e].refund_request_id] \in Request
  BY <1>1
<1>3. OrderOf(requests, escalations, e) \in Orders
  BY <1>2 DEF OrderOf, Request
<1> QED
  BY <1>1, <1>3 DEF OrderOf, RowsStay

LEMMA NoneOpenStays ==
  ASSUME Core, RowsStay, escalations' \in Seq(Escalation),
         NEW o \in Orders, NEW n \in Nat, NoneOpen(requests, escalations, o, n)
  PROVE  NoneOpen(requests', escalations', o, n)
<1>1. escalations \in Seq(Escalation) /\ n <= Len(escalations)
  BY DEF Core, TypeOK, NoneOpen
<1>2. \A e \in 1..n : e \in DOMAIN escalations /\ e \in DOMAIN escalations'
  BY <1>1 DEF RowsStay
<1>3. n <= Len(escalations')
  <2>1. n = 0 \/ n \in 1..n
    OBVIOUS
  <2> QED
    BY <1>2, <2>1
<1>4. \A e \in 1..n :
        OrderOf(requests', escalations', e) = OrderOf(requests, escalations, e)
  BY <1>2, TicketRow
<1> QED
  BY <1>2, <1>3, <1>4 DEF NoneOpen, RowsStay

\* Who writes what the dedupe invariant is about.
LEMMA DedupeFrame ==
  ASSUME Core, [Next]_vars
  PROVE  \/ \E t \in Turns, o \in Orders : Escalate(t, o)
         \/ \E t \in Turns : CommitEscalation(t)
         \/ /\ UNCHANGED openings /\ Len(escalations') = Len(escalations)
            /\ \A u \in Turns : pc'[u] = "escalating" =>
                 pc[u] = "escalating" /\ call'[u] = call[u]
<1> DEFINE Quiet ==
      /\ UNCHANGED openings /\ Len(escalations') = Len(escalations)
      /\ \A u \in Turns : pc'[u] = "escalating" => pc[u] = "escalating" /\ call'[u] = call[u]
<1>1. CASE UNCHANGED vars \/ Tick
  BY <1>1 DEF vars, Tick, database, turnVars, history
<1>2. ASSUME NEW t \in Turns, TurnStep(t),
             ~ \E o \in Orders : Escalate(t, o), ~CommitEscalation(t)
      PROVE  Quiet
  <2>1. pc \in [Turns -> Phases] /\ call \in [Turns -> Call \cup {None}]
    BY DEF Core, TypeOK
  <2>2. UNCHANGED <<openings, escalations>>
    BY <1>2 DEF TurnStep, OpenSession, LookupCustomer, IssueRefund, CommitRefund,
       CommitTurn, CloseSession, database, history
  <2>3. pc'[t] # "escalating" \/ UNCHANGED <<pc, call>>
    BY <1>2, <2>1 DEF TurnStep, OpenSession, LookupCustomer, IssueRefund, CommitRefund,
       CommitTurn, CloseSession
  <2>4. \A u \in Turns \ {t} : pc'[u] = pc[u] /\ call'[u] = call[u]
    BY <1>2, <2>1 DEF TurnStep, OpenSession, LookupCustomer, IssueRefund, CommitRefund,
       CommitTurn, CloseSession
  <2> QED
    BY <2>2, <2>3, <2>4
<1>3. ASSUME NEW m \in Managers, ManagerStep(m) PROVE Quiet
  <2>1. UNCHANGED <<pc, call, openings>>
    BY <1>3 DEF ManagerStep, ResolveTicket, LoadRequest, LoadOrder, LoadConversation,
       ResolveCommit, ResolveAbort, turnVars, history
  <2>2. escalations \in Seq(Escalation)
    BY DEF Core, TypeOK
  <2>3. Len(escalations') = Len(escalations)
    <3>1. DOMAIN escalations' = DOMAIN escalations
      BY <1>3, <2>2, ManagerTables DEF TablesStay, Settle
    <3>2. escalations' \in Seq(Escalation)
      BY CoreInductive DEF Core, TypeOK
    <3>3. /\ 1..Len(escalations') = 1..Len(escalations)
          /\ Len(escalations') \in Nat /\ Len(escalations) \in Nat
      BY <2>2, <3>1, <3>2
    <3> QED
      BY <3>3
  <2> QED
    BY <2>1, <2>3
<1> QED
  BY <1>1, <1>2, <1>3 DEF Next

LEMMA DedupeStep ==
  ASSUME Core, TicketInv, DedupeInv, [Next]_vars
  PROVE  DedupeInv'
<1>1. /\ escalations \in Seq(Escalation) /\ openings \in Seq(Nat)
      /\ pc \in [Turns -> Phases] /\ call \in [Turns -> Call \cup {None}]
      /\ \A t \in Turns : pc[t] \in {"refunding", "escalating"} => call[t] \in Call
  BY DEF Core, TypeOK
<1>2. escalations' \in Seq(Escalation) /\ RowsStay
  BY CoreInductive, RowsStayStep DEF Core, TypeOK
<1>3. \A o \in Orders, n \in Nat : NoneOpen(requests, escalations, o, n)
                                    => NoneOpen(requests', escalations', o, n)
  BY <1>2, NoneOpenStays
<1>4. \A f \in DOMAIN openings :
        /\ openings[f] < f
        /\ NoneOpen(requests', escalations', OrderOf(requests', escalations', f), openings[f])
  <2> SUFFICES ASSUME NEW f \in DOMAIN openings
               PROVE  NoneOpen(requests', escalations',
                               OrderOf(requests', escalations', f), openings[f])
    BY DEF DedupeInv, OpeningsDeduped
  <2>1. f \in DOMAIN escalations /\ openings[f] \in Nat
    BY <1>1 DEF DedupeInv, OpeningsDeduped
  <2> QED
    BY <1>2, <1>3, <2>1, TicketRow DEF DedupeInv, OpeningsDeduped
<1>5. \A u \in Turns : pc[u] = "escalating" =>
        NoneOpen(requests', escalations', call[u].order, call[u].seen)
  BY <1>1, <1>3 DEF DedupeInv, CallsDeduped, Call
<1>6. ASSUME NEW t \in Turns, NEW o \in Orders, Escalate(t, o) PROVE DedupeInv'
  <2>1. UNCHANGED <<openings, escalations, requests>>
    BY <1>6 DEF Escalate, database, history
  <2>2. NoneOpen(requests, escalations, o, Len(escalations))
    <3>1. \A e \in DOMAIN escalations : escalations[e].status \in {"open", "resolved"}
      <4>1. \A e \in DOMAIN escalations : escalations[e] \in Escalation
        BY <1>1
      <4> QED
        BY <4>1 DEF Escalation
    <3>2. \A e \in DOMAIN escalations :
            OrderOf(requests, escalations, e) = o => escalations[e].status # "open"
      BY <1>6 DEF Escalate, OpenTickets, OrderOf
    <3> QED
      BY <1>1, <3>1, <3>2 DEF NoneOpen
  <2>3. /\ call' = [call EXCEPT ![t] = [order |-> o, seen |-> Len(escalations)]]
        /\ pc' = [pc EXCEPT ![t] = "escalating"]
    BY <1>6 DEF Escalate
  <2>4. CallsDeduped'
    BY <1>1, <1>5, <2>1, <2>2, <2>3 DEF CallsDeduped
  <2> QED
    BY <2>1, <2>4 DEF DedupeInv, OpeningsDeduped
<1>7. ASSUME NEW t \in Turns, CommitEscalation(t) PROVE DedupeInv'
  <2> DEFINE f == Len(escalations) + 1
             c == call[t]
  <2>1. NoneOpen(requests', escalations', c.order, c.seen) /\ c.seen <= Len(escalations)
    BY <1>5, <1>7 DEF CommitEscalation, DedupeInv, CallsDeduped, NoneOpen
  <2>2. OrderOf(requests', escalations', f) = c.order
    BY <1>1, <1>7 DEF CommitEscalation, OrderOf, Core, TypeOK
  <2>3. CallsDeduped'
    <3>1. \A u \in Turns : pc'[u] = "escalating" =>
            pc[u] = "escalating" /\ call'[u] = call[u]
      BY <1>1, <1>7 DEF CommitEscalation
    <3> QED
      BY <1>5, <3>1 DEF CallsDeduped
  <2>4. /\ DOMAIN openings' = DOMAIN openings \cup {f}
        /\ \A g \in DOMAIN openings : openings'[g] = openings[g]
        /\ openings'[f] = c.seen /\ c.seen \in Nat
        /\ Len(openings') = Len(escalations')
    <3>1. c \in Call
      BY <1>1, <1>7 DEF CommitEscalation
    <3>2. c.seen \in Nat /\ openings' = Append(openings, c.seen)
      BY <1>7, <3>1 DEF CommitEscalation, Call
    <3>3. Len(openings) = Len(escalations) /\ Len(escalations') = Len(escalations) + 1
      BY <1>1, <1>7 DEF CommitEscalation, DedupeInv, OpeningsDeduped
    <3> HIDE DEF c
    <3> QED
      BY <1>1, <3>2, <3>3
  <2>5. c.seen < f
    BY <1>1, <2>1, <2>4
  <2> HIDE DEF f, c
  <2>6. OpeningsDeduped'
    BY <1>4, <2>1, <2>2, <2>4, <2>5 DEF OpeningsDeduped
  <2> QED
    BY <2>3, <2>6 DEF DedupeInv
<1>8. ASSUME UNCHANGED openings, Len(escalations') = Len(escalations),
             \A u \in Turns : pc'[u] = "escalating" =>
               pc[u] = "escalating" /\ call'[u] = call[u]
      PROVE  DedupeInv'
  <2>1. CallsDeduped'
    BY <1>5, <1>8 DEF CallsDeduped
  <2>2. OpeningsDeduped'
    BY <1>4, <1>8 DEF OpeningsDeduped, DedupeInv
  <2> QED
    BY <2>1, <2>2 DEF DedupeInv
<1> QED
  BY <1>6, <1>7, <1>8, DedupeFrame

\* One order has two open tickets only if the calls that opened them overlapped.
THEOREM TicketsOverlapOnly == Spec => []DuplicateTicketNeedsOverlap
<1>1. Init => DedupeInv
  BY DEF Init, DedupeInv, CallsDeduped, OpeningsDeduped
<1>2. Core /\ TicketInv /\ DedupeInv /\ [Next]_vars => DedupeInv'
  BY DedupeStep
<1>3. Core /\ DedupeInv => DuplicateTicketNeedsOverlap
  <2> SUFFICES ASSUME Core, DedupeInv, NEW o \in Orders,
                      NEW e \in OpenTickets(o), NEW f \in OpenTickets(o), e < f,
                      ~(openings[f] < e)
               PROVE  FALSE
    BY DEF DuplicateTicketNeedsOverlap
  <2>1. escalations \in Seq(Escalation) /\ openings \in Seq(Nat)
    BY DEF Core, TypeOK
  <2>2. /\ e \in DOMAIN escalations /\ f \in DOMAIN openings
        /\ escalations[e].status = "open"
        /\ OrderOf(requests, escalations, e) = o
        /\ OrderOf(requests, escalations, f) = o
    BY <2>1 DEF OpenTickets, OrderOf, DedupeInv, OpeningsDeduped
  <2>3. e \in 1..openings[f]
    BY <2>1, <2>2
  <2> QED
    BY <2>2, <2>3 DEF DedupeInv, OpeningsDeduped, NoneOpen
<1> QED
  BY <1>1, <1>2, <1>3, TicketInvariant, PTL DEF Spec
-----------------------------------------------------------------------------
\* The stamp of every order is the time of its latest refund: every guard that
\* reads the stamp reads what the refunds so far left there.
THEOREM StampIsLatestRefund == Spec => []LedgerMatchesOrders
<1> DEFINE Paid(o) == {i \in DOMAIN payouts : payouts[i].order = o}
           Stamped(o) == \/ Paid(o) = {} /\ refundedAt[o] = SeedOrder[o].refunded_at
                         \/ \E i \in Paid(o) : /\ \A j \in Paid(o) : j <= i
                                               /\ refundedAt[o] = payouts[i].now
<1>1. Init => LedgerMatchesOrders
  BY DEF Init, LedgerMatchesOrders
<1>2. ASSUME Core, LedgerMatchesOrders, [Next]_vars PROVE LedgerMatchesOrders'
  <2>1. /\ payouts \in Seq(Payout) /\ refundedAt \in [Orders -> MaybeTime]
    BY <1>2 DEF Core, TypeOK
  <2>2. LedgerGrows
    BY <1>2, NextGrows
  <2>3. CASE UNCHANGED <<payouts, refundedAt>>
    BY <1>2, <2>3 DEF LedgerMatchesOrders
  <2>4. ASSUME NEW p \in Payout, payouts' = Append(payouts, p),
               refundedAt' = [refundedAt EXCEPT ![p.order] = p.now]
        PROVE  LedgerMatchesOrders'
    <3> DEFINE n == Len(payouts) + 1
    <3>1. /\ n \in Nat /\ \A i \in DOMAIN payouts : i \in Nat /\ i < n
          /\ DOMAIN payouts' = DOMAIN payouts \cup {n}
          /\ \A i \in DOMAIN payouts : payouts'[i] = payouts[i]
          /\ payouts'[n] = p
      BY <2>1, <2>4
    <3> HIDE DEF n
    <3> SUFFICES ASSUME NEW o \in Orders PROVE Stamped(o)'
      BY DEF LedgerMatchesOrders
    <3>2. CASE o = p.order
      <4>1. /\ n \in Paid(o)' /\ refundedAt'[o] = payouts'[n].now
            /\ \A j \in Paid(o)' : j <= n
        BY <2>1, <2>4, <3>1, <3>2
      <4> QED
        BY <4>1
    <3>3. CASE o # p.order
      <4>1. Paid(o)' = Paid(o) /\ refundedAt'[o] = refundedAt[o]
            /\ \A i \in Paid(o) : payouts'[i] = payouts[i]
        BY <2>1, <2>4, <3>1, <3>3
      <4>2. Stamped(o)
        BY <1>2 DEF LedgerMatchesOrders
      <4> QED
        BY <4>1, <4>2
    <3> QED
      BY <3>2, <3>3
  <2> QED
    BY <2>2, <2>3, <2>4 DEF LedgerGrows
<1> QED
  BY <1>1, <1>2, CoreInvariant, PTL DEF Spec
-----------------------------------------------------------------------------
\* A refund the decision record backs.
Recorded(p) ==
  /\ p.request \in DOMAIN requests
  /\ requests[p.request].order = p.order
  /\ requests[p.request].verdict = "approve"
  /\ requests[p.request].decided_by = p.by

\* With one manager, a ticket on the desk is one nobody decided yet.
PayoutInv ==
  /\ \A i \in DOMAIN payouts : Recorded(payouts[i])
  /\ \A m \in Managers : desk[m].at # "idle" => escalations[desk[m].ticket].status = "open"

OneManager == \A m, n \in Managers : m = n

\* A request that approves a refund is written again by nobody: one manager decides
\* a ticket that is open, whose request still waits.
LEMMA RecordedStays ==
  ASSUME Core, TicketInv, PayoutInv, [Next]_vars, NEW p, Recorded(p)
  PROVE  Recorded(p)'
<1>1. CASE TablesStay
  BY <1>1 DEF TablesStay, Recorded
<1>2. ASSUME NEW r \in Request, InsertRequest(r) \/ InsertTicket(r) PROVE Recorded(p)'
  BY <1>2, InsertFrame DEF Recorded
<1>3. ASSUME NEW m \in Managers, Settle(m) PROVE Recorded(p)'
  <2>1. Waiting(requests[desk[m].request])
    <3>1. /\ desk[m].ticket \in DOMAIN escalations
          /\ desk[m].request = escalations[desk[m].ticket].refund_request_id
      BY <1>3, SettledRow
    <3>2. escalations[desk[m].ticket].status = "open"
      BY <1>3 DEF PayoutInv, Settle
    <3> QED
      BY <3>1, <3>2 DEF TicketInv, TicketMatchesRequest, Waiting
  <2>2. p.request # desk[m].request
    BY <2>1 DEF Recorded, Waiting
  <2> QED
    BY <1>3, <2>2, SettleFrame DEF Recorded
<1> QED
  BY <1>1, <1>2, <1>3, StepTables

\* What is paid is written down as approved in the same commit.
LEMMA AgentPaymentRecorded ==
  ASSUME Core, NEW t \in Turns, CommitRefund(t)
  PROVE  \E p : payouts' = Append(payouts, p) /\ Recorded(p)'
<1> DEFINE n == Len(requests) + 1
<1>1. requests \in Seq(Request)
  BY DEF Core, TypeOK
<1>2. /\ n \in DOMAIN requests' /\ requests'[n].order = call[t].order
      /\ requests'[n].verdict = "approve" /\ requests'[n].decided_by = "agent"
  BY <1>1 DEF CommitRefund
<1>3. PICK p : /\ payouts' = Append(payouts, p)
               /\ p.request = n /\ p.order = call[t].order /\ p.by = "agent"
  <2> DEFINE paid == [order |-> call[t].order, by |-> "agent", customer |-> session[t].customer,
                      now |-> session[t].now, request |-> n, seen |-> call[t].seen]
  <2>1. payouts' = Append(payouts, paid)
    BY DEF CommitRefund
  <2>2. paid.request = n /\ paid.order = call[t].order /\ paid.by = "agent"
    OBVIOUS
  <2> HIDE DEF paid
  <2> QED
    BY <2>1, <2>2
<1> QED
  BY <1>2, <1>3 DEF Recorded

LEMMA ManagerPaymentRecorded ==
  ASSUME Core, TicketInv, PayoutInv, NEW m \in Managers, ResolveCommit(m)
  PROVE  \/ UNCHANGED payouts
         \/ \E p : payouts' = Append(payouts, p) /\ Recorded(p)'
<1> DEFINE d == desk[m]
<1>1. Settle(m)
  BY DEF ResolveCommit, Settle
<1>2. /\ d.request \in DOMAIN requests /\ d.ticket \in DOMAIN escalations
      /\ d.request = escalations[d.ticket].refund_request_id
      /\ Decided(d).order = requests[d.request].order
      /\ Settled(Decided(d))
  BY <1>1, SettledRow
<1>3. /\ d \in Desk /\ requests[d.request] \in Request
      /\ d.row \in Request /\ d.row.order = requests[d.request].order
  <2>1. d.at = "conversation"
    BY <1>1 DEF Settle
  <2>2. d.row \in Request /\ d.row.order = requests[d.request].order
    BY <2>1 DEF Core, References
  <2>3. d \in Desk /\ requests[d.request] \in Request
    BY <1>2 DEF Core, TypeOK
  <2> QED
    BY <2>2, <2>3
<1>4. Waiting(requests[d.request])
  <2>1. escalations[d.ticket].status = "open"
    BY <1>1 DEF PayoutInv, Settle
  <2> QED
    BY <1>2, <2>1 DEF TicketInv, TicketMatchesRequest, Waiting
<1>5. Waiting(d.row)
  BY <1>1, <1>4 DEF TicketInv, CopiesLag, Settle, Waiting, Settled
<1>6. d.decision = "approve" => Decided(d).verdict = "approve"
  <2> HIDE DEF d
  <2> QED
    BY <1>3, <1>5, DecidedRow DEF Waiting, Written
<1>7. DOMAIN requests' = DOMAIN requests /\ requests'[d.request] = Decided(d)
  BY <1>1, <1>2, SettleFrame
<1>8. ASSUME payouts' # payouts
      PROVE  \E p : payouts' = Append(payouts, p) /\ Recorded(p)'
  <2>1. d.decision = "approve"
    BY <1>8 DEF ResolveCommit
  <2>2. PICK p : /\ payouts' = Append(payouts, p)
                 /\ p.request = d.request /\ p.order = d.row.order /\ p.by = "manager"
    BY <1>8 DEF ResolveCommit
  <2> HIDE DEF d
  <2> QED
    BY <1>2, <1>3, <1>6, <1>7, <2>1, <2>2 DEF Recorded, Settled
<1> QED
  BY <1>8

LEMMA StepRecorded ==
  ASSUME Core, TicketInv, PayoutInv, [Next]_vars
  PROVE  UNCHANGED payouts \/ \E p : payouts' = Append(payouts, p) /\ Recorded(p)'
<1>1. ASSUME NEW t \in Turns, TurnStep(t), ~CommitRefund(t) PROVE UNCHANGED payouts
  BY <1>1 DEF TurnStep, OpenSession, LookupCustomer, IssueRefund, Escalate,
     CommitEscalation, CommitTurn, CloseSession, history
<1>2. ASSUME NEW m \in Managers, ManagerStep(m), ~ResolveCommit(m) PROVE UNCHANGED payouts
  BY <1>2 DEF ManagerStep, ResolveTicket, LoadRequest, LoadOrder, LoadConversation,
     ResolveAbort, history
<1>3. CASE Tick \/ UNCHANGED vars
  BY <1>3 DEF Tick, vars, history
<1> QED
  BY <1>1, <1>2, <1>3, AgentPaymentRecorded, ManagerPaymentRecorded DEF Next

LEMMA DeskTicketOpen ==
  ASSUME OneManager, Core, TicketInv, PayoutInv, [Next]_vars, NEW n \in Managers,
         desk'[n].at # "idle"
  PROVE  escalations'[desk'[n].ticket].status = "open"
<1>1. desk \in [Managers -> Desk]
  BY DEF Core, TypeOK
<1>2. ASSUME NEW e \in DOMAIN escalations, escalations[e].status = "open",
             TablesStay \/ \E r \in Request : InsertRequest(r) \/ InsertTicket(r)
      PROVE  escalations'[e].status = "open"
  BY <1>2, InsertFrame DEF TablesStay
<1>3. CASE UNCHANGED desk /\ (TablesStay \/ \E r \in Request : InsertRequest(r) \/ InsertTicket(r))
  <2>1. desk[n].ticket \in DOMAIN escalations /\ escalations[desk[n].ticket].status = "open"
    BY <1>3 DEF PayoutInv, Core, References
  <2> QED
    BY <1>2, <1>3, <2>1
<1>4. CASE Tick \/ UNCHANGED vars
  BY <1>3, <1>4 DEF Tick, vars, database, TablesStay
<1>5. ASSUME NEW t \in Turns, TurnStep(t) PROVE escalations'[desk'[n].ticket].status = "open"
  BY <1>3, <1>5, TurnTables
<1>6. ASSUME NEW m \in Managers, ManagerStep(m)
      PROVE  escalations'[desk'[n].ticket].status = "open"
  <2>1. n = m
    BY DEF OneManager
  <2>2. CASE ResolveCommit(m) \/ ResolveAbort(m)
    BY <1>1, <2>1, <2>2 DEF ResolveCommit, ResolveAbort, IdleDesk
  <2>3. CASE LoadRequest(m) \/ LoadOrder(m) \/ LoadConversation(m)
    <3>1. desk[m] \in Desk /\ desk[m].at # "idle"
      BY <1>1, <2>3 DEF LoadRequest, LoadOrder, LoadConversation
    <3>2. ASSUME LoadRequest(m) PROVE desk'[m].ticket = desk[m].ticket
      BY <1>1, <3>1, <3>2 DEF LoadRequest, Desk
    <3>3. ASSUME LoadOrder(m) PROVE desk'[m].ticket = desk[m].ticket
      BY <1>1, <3>1, <3>3 DEF LoadOrder, Desk
    <3>4. ASSUME LoadConversation(m) PROVE desk'[m].ticket = desk[m].ticket
      BY <1>1, <3>1, <3>4 DEF LoadConversation, Desk
    <3> QED
      BY <2>1, <2>3, <3>1, <3>2, <3>3, <3>4
         DEF LoadRequest, LoadOrder, LoadConversation, database, PayoutInv
  <2>4. ASSUME NEW e \in DOMAIN escalations, NEW c \in {"approve", "deny"},
               ResolveTicket(m, e, c)
        PROVE  escalations'[desk'[n].ticket].status = "open"
    <3>1. desk'[m].ticket = e
      BY <1>1, <2>4 DEF ResolveTicket, IdleDesk
    <3> QED
      BY <2>1, <2>4, <3>1 DEF ResolveTicket, database
  <2> QED
    BY <1>6, <2>2, <2>3, <2>4 DEF ManagerStep
<1> QED
  BY <1>4, <1>5, <1>6 DEF Next

\* While no two managers are at work, every refund is backed by a record that
\* approves it, of the party that paid, whatever turns do meanwhile.  With two
\* managers on one ticket this fails: run decide_twice shows how.
THEOREM PaidAsDecided ==
  ASSUME OneManager
  PROVE  Spec => []PayoutHasApproval
<1>1. Init => PayoutInv
  BY DEF Init, PayoutInv, IdleDesk
<1>2. ASSUME Core, TicketInv, PayoutInv, [Next]_vars PROVE PayoutInv'
  <2>1. (\A i \in DOMAIN payouts : Recorded(payouts[i]))'
    <3>1. payouts \in Seq(Payout)
      BY <1>2 DEF Core, TypeOK
    <3>2. \A i \in DOMAIN payouts : Recorded(payouts[i])
      BY <1>2 DEF PayoutInv
    <3> QED
      BY <1>2, <3>1, <3>2, StepRecorded, RecordedStays
  <2>2. \A m \in Managers : desk'[m].at # "idle" =>
          escalations'[desk'[m].ticket].status = "open"
    BY <1>2, DeskTicketOpen
  <2> QED
    BY <2>1, <2>2 DEF PayoutInv
<1>3. PayoutInv => PayoutHasApproval
  BY DEF PayoutInv, Recorded, PayoutHasApproval
<1> QED
  BY <1>1, <1>2, <1>3, TicketInvariant, PTL DEF Spec
=============================================================================
