--------------------------- MODULE PolicyOverTime ---------------------------
(***************************************************************************)
(* One order and the customer asking about it, while time passes and the   *)
(* order is refunded by the agent or by a manager: the engine's result at  *)
(* every moment, for the row and the time it is given, against policy.md.  *)
(* (What a chat turn gives it -- a row its session keeps, a time fixed     *)
(* when the turn began -- is in RefundService.)                            *)
(***************************************************************************)
EXTENDS PolicyEngine

CONSTANTS
  CustomerIds,   \* the keys of table customers
  OrderRows,     \* the rows an order can be seeded with
  CustomerRows,  \* the customers that can ask
  MaxNow         \* bound on the clock

ASSUME OverTimeAssumption ==
  /\ OrderRows \subseteq OrderTable(CustomerIds)
  /\ CustomerRows \subseteq CustomerTable(CustomerIds)
  /\ MaxNow \in Nat

VARIABLES order, customer, now

vars == <<order, customer, now>>

Eligibility == CheckRefundEligibility(order, customer, now)

Init ==
  /\ order \in OrderRows
  /\ customer \in CustomerRows
  /\ now = 0

Tick ==
  /\ now < MaxNow
  /\ now' = now + 1
  /\ UNCHANGED <<order, customer>>

\* issue_refund re-checks eligibility and stamps the order.
AgentRefunds ==
  /\ Eligibility.verdict = "approve"
  /\ order' = [order EXCEPT !.refunded_at = now]
  /\ UNCHANGED <<customer, now>>

\* resolve_escalation("approve") stamps any order not refunded yet: the ticket
\* may have been opened for an order of any verdict.
ManagerRefunds ==
  /\ order.refunded_at = None
  /\ order' = [order EXCEPT !.refunded_at = now]
  /\ UNCHANGED <<customer, now>>

\* Mutant: a lookup that finds nobody forgets the customer.
OtherCustomerOrNobody ==
  /\ customer' \in CustomerRows \cup {None}
  /\ UNCHANGED <<order, now>>

\* The same conversation may be continued by another customer: the next
\* lookup_customer replaces the one on file.
OtherCustomerAsks ==
  /\ customer' \in CustomerRows
  /\ UNCHANGED <<order, now>>

Next == Tick \/ AgentRefunds \/ ManagerRefunds \/ OtherCustomerAsks

Spec == Init /\ [][Next]_vars
-----------------------------------------------------------------------------
\* Only refunded_at of an order ever changes, and the clock is an integer.
TypeOK ==
  /\ order \in OrderTable(CustomerIds)
  /\ customer \in CustomerRows
  /\ now \in Int

\* policy.md, read on its own: the last moment at which a refund can still be
\* asked for is one tick before the day after the window ends.
Deadline(tier) ==
  order.delivered_at
    + TicksPerDay * (1 + (IF tier = "vip" THEN VipReturnWindowDays
                                          ELSE ReturnWindowDays))

MeetsConditions ==
  /\ order.customer_id = customer.id
  /\ order.refunded_at = None
  /\ order.delivered_at # None /\ now < Deadline(customer.tier)
  /\ ~order.is_final_sale
  /\ ~order.is_opened \/ order.is_defective

NeedsManager == order.amount > ManagerApprovalThreshold

\* The Outcomes section of policy.md: approved when all conditions are met within
\* the limit, escalated when only the limit is exceeded, denied otherwise --
\* whatever the age of the order in ticks and wherever the day boundary falls.
VerdictMatchesPolicy ==
  Eligibility.verdict =
    CASE MeetsConditions /\ ~NeedsManager -> "approve"
      [] MeetsConditions /\ NeedsManager  -> "escalate"
      [] OTHER                            -> "deny"

\* What policy.md calls a violation, by the name of the check that reports it.
Violated(name) ==
  CASE name = "ownership"        -> order.customer_id # customer.id
    [] name = "already_refunded" -> order.refunded_at # None
    [] name = "return_window"    ->
         order.delivered_at = None \/ now >= Deadline(customer.tier)
    [] name = "item_condition"   ->
         order.is_final_sale \/ (order.is_opened /\ ~order.is_defective)
    [] name = "amount_threshold" -> NeedsManager

\* The customer is told why, and the truth: each check on the list failed exactly if
\* the policy is violated in its respect, and the reason is a violation, the manager's
\* limit only when there is no other.  A stranger is always told the ownership reason,
\* whatever else is wrong (engine.py: "ownership first") -- the list of checks, which
\* the tool returns as well, does describe the order to a stranger.
ReasonsAreTrue ==
  /\ \A i \in 1..5 :
       Eligibility.checks[i].passed <=> ~Violated(Eligibility.checks[i].name)
  /\ IF Eligibility.reason = "within_policy" THEN Eligibility.verdict = "approve"
     ELSE /\ Violated(Eligibility.reason)
          /\ Eligibility.reason = "amount_threshold" <=> Eligibility.verdict = "escalate"
  /\ order.customer_id # customer.id => Eligibility.reason = "ownership"

\* A VIP is never treated worse than a regular customer with the same order, as
\* the longer VIP window of policy.md section 1 is meant to ensure.
VipNeverWorse ==
  LET verdict(tier) ==
        CheckRefundEligibility(order, [customer EXCEPT !.tier = tier], now).verdict
  IN  verdict("regular") # "deny" => verdict("vip") = verdict("regular")
=============================================================================
