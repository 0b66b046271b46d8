---------------------------- MODULE PolicyEngine ----------------------------
(***************************************************************************)
(* The deterministic refund policy (backend/app/policy/engine.py).         *)
(*                                                                         *)
(* An order row is a record with the fields the rules read: customer_id,   *)
(* delivered_at, is_final_sale, is_opened, is_defective, amount and        *)
(* refunded_at.  A customer row is [id, tier].  Times are ticks of one     *)
(* clock, TicksPerDay of them in a day; money is an integer amount of      *)
(* paise.  None is SQL's NULL.                                             *)
(***************************************************************************)
EXTENDS Integers, Sequences

CONSTANTS
  None,                     \* NULL in a nullable column
  ReturnWindowDays,         \* policy_config.json: return_window_days
  VipReturnWindowDays,      \* policy_config.json: vip_return_window_days
  ManagerApprovalThreshold, \* policy_config.json: manager_approval_threshold
  TicksPerDay               \* resolution of the clock

ASSUME PolicyAssumption ==
  /\ None \notin Int
  /\ ReturnWindowDays \in Int
  /\ VipReturnWindowDays \in Int
  /\ ManagerApprovalThreshold \in Int
  /\ TicksPerDay \in Nat \ {0}

MaybeTime == Int \cup {None}
Verdicts == {"approve", "deny", "escalate"}
Tiers == {"regular", "vip"}

\* The rows of tables orders and customers, as far as the policy reads them.
OrderTable(ids) ==
  [customer_id : ids, delivered_at : MaybeTime, is_final_sale : BOOLEAN,
   is_opened : BOOLEAN, is_defective : BOOLEAN, amount : Int,
   refunded_at : MaybeTime]
CustomerTable(ids) == [id : ids, tier : Tiers]

CheckOwnership(order, customer) == order.customer_id = customer.id

\* Mutant: the refunded_at guard is missing.
NoRefundedCheck(order) == TRUE

CheckAlreadyRefunded(order) == order.refunded_at = None

\* timedelta.days rounds towards minus infinity, as \div does.
AgeDays(order, now) == (now - order.delivered_at) \div TicksPerDay

\* Mutant: the two windows are swapped.
WindowDaysSwapped(customer) ==
  IF customer.tier = "vip" THEN ReturnWindowDays ELSE VipReturnWindowDays

WindowDays(customer) ==
  IF customer.tier = "vip" THEN VipReturnWindowDays ELSE ReturnWindowDays

\* Mutants: the last day of the window does not count; the comparison is reversed.
ReturnWindowStrict(order, customer, now) ==
  order.delivered_at # None /\ AgeDays(order, now) < WindowDays(customer)
ReturnWindowReversed(order, customer, now) ==
  order.delivered_at # None /\ AgeDays(order, now) >= WindowDays(customer)

CheckReturnWindow(order, customer, now) ==
  /\ order.delivered_at # None
  /\ AgeDays(order, now) <= WindowDays(customer)

CheckItemCondition(order) ==
  /\ ~order.is_final_sale
  /\ order.is_opened => order.is_defective

CheckAmountThreshold(order) == order.amount <= ManagerApprovalThreshold

\* The checks in the order EligibilityResult.checks reports them.
CheckNames == << "ownership", "already_refunded", "return_window",
                 "item_condition", "amount_threshold" >>

\* Mutant: refunds are checked before ownership.
ChecksRefundedFirst(order, customer, now) ==
  << CheckAlreadyRefunded(order), CheckOwnership(order, customer),
     CheckReturnWindow(order, customer, now), CheckItemCondition(order),
     CheckAmountThreshold(order) >>

Checks(order, customer, now) ==
  << CheckOwnership(order, customer),
     CheckAlreadyRefunded(order),
     CheckReturnWindow(order, customer, now),
     CheckItemCondition(order),
     CheckAmountThreshold(order) >>

HardRules == 1..4

FirstFailure(checks) ==
  CHOOSE i \in DOMAIN checks : ~checks[i] /\ \A j \in 1..(i - 1) : checks[j]

Verdict(checks) ==
  IF \E i \in HardRules : ~checks[i] THEN "deny"
  ELSE IF checks[5] THEN "approve" ELSE "escalate"

\* What the detail of each check tells, besides whether it passed: the age and the
\* window in days, the condition of the item, the amount.
WindowDetail(order, customer, now) ==
  IF order.delivered_at = None THEN None
  ELSE <<AgeDays(order, now), WindowDays(customer)>>

ConditionDetail(order) ==
  IF order.is_final_sale THEN "final sale"
  ELSE IF ~order.is_opened THEN "sealed"
       ELSE IF order.is_defective THEN "defective" ELSE "opened"

Details(order, customer, now) ==
  << CheckOwnership(order, customer), CheckAlreadyRefunded(order),
     WindowDetail(order, customer, now), ConditionDetail(order), order.amount >>

\* The reason of an EligibilityResult is the detail of the first failed check;
\* it is named here by that check.
Reason(checks) ==
  IF \A i \in DOMAIN checks : checks[i] THEN "within_policy"
  ELSE CheckNames[FirstFailure(checks)]

\* The list of all checks goes with every verdict, a denial for ownership included.
CheckRefundEligibility(order, customer, now) ==
  LET checks == Checks(order, customer, now)
      details == Details(order, customer, now)
  IN  [verdict |-> Verdict(checks), reason |-> Reason(checks),
       checks |-> [i \in 1..5 |-> [name |-> CheckNames[i], passed |-> checks[i],
                                  detail |-> details[i]]]]
=============================================================================
