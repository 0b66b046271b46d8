---------------------------- MODULE PolicyProofs ----------------------------
EXTENDS PolicyOverTime, TLAPS

\* Whole days are counted downwards: at most w of them have passed exactly as long
\* as less than w + 1 days' worth of ticks has.
LEMMA DayBoundary ==
  ASSUME NEW a \in Int, NEW b \in Nat \ {0}, NEW w \in Int
  PROVE  (a \div b <= w) <=> (a < b * (w + 1))
<1> DEFINE q == a \div b
           r == a % b
<1>1. q \in Int /\ r \in 0..(b - 1) /\ a = b * q + r
  BY Z3
<1> HIDE DEF q, r
<1>2. ASSUME q <= w PROVE a < b * (w + 1)
  <2>1. b * q <= b * w
    BY <1>1, <1>2, Z3
  <2> QED
    BY <1>1, <2>1, Z3
<1>3. ASSUME q > w PROVE a >= b * (w + 1)
  <2>1. q >= w + 1
    BY <1>1, <1>3
  <2>2. b * q >= b * (w + 1)
    BY <1>1, <2>1, Z3
  <2> QED
    BY <1>1, <2>2, Z3
<1> QED
  BY <1>1, <1>2, <1>3 DEF q

\* What a verdict says about the five checks.
LEMMA VerdictByChecks ==
  ASSUME NEW o, NEW c, NEW t
  PROVE  CheckRefundEligibility(o, c, t).verdict =
           IF /\ CheckOwnership(o, c) /\ CheckAlreadyRefunded(o)
              /\ CheckReturnWindow(o, c, t) /\ CheckItemCondition(o)
           THEN IF CheckAmountThreshold(o) THEN "approve" ELSE "escalate"
           ELSE "deny"
<1> DEFINE k == Checks(o, c, t)
<1>1. /\ k[1] = CheckOwnership(o, c) /\ k[2] = CheckAlreadyRefunded(o)
      /\ k[3] = CheckReturnWindow(o, c, t) /\ k[4] = CheckItemCondition(o)
      /\ k[5] = CheckAmountThreshold(o)
  BY DEF Checks
<1>2. (\E i \in HardRules : ~k[i]) <=> (~k[1] \/ ~k[2] \/ ~k[3] \/ ~k[4])
  BY DEF HardRules
<1> QED
  BY <1>1, <1>2 DEF CheckRefundEligibility, Verdict

\* The window in ticks: the deadline of policy.md, in the form the code tests it.
LEMMA WindowIsDeadline ==
  ASSUME NEW o, NEW c, NEW t \in Int, o.delivered_at \in MaybeTime
  PROVE  CheckReturnWindow(o, c, t) <=>
           /\ o.delivered_at # None
           /\ t - o.delivered_at < TicksPerDay * (WindowDays(c) + 1)
<1>1. CASE o.delivered_at = None
  BY <1>1 DEF CheckReturnWindow
<1>2. CASE o.delivered_at # None
  <2>1. o.delivered_at \in Int /\ WindowDays(c) \in Int
    BY <1>2, PolicyAssumption DEF MaybeTime, WindowDays
  <2>2. t - o.delivered_at \in Int
    BY <2>1
  <2>3. AgeDays(o, t) <= WindowDays(c)
          <=> t - o.delivered_at < TicksPerDay * (WindowDays(c) + 1)
    BY <2>1, <2>2, PolicyAssumption, DayBoundary DEF AgeDays
  <2> QED
    BY <1>2, <2>3 DEF CheckReturnWindow
<1> QED
  BY <1>1, <1>2
-----------------------------------------------------------------------------
LEMMA StampedOrder ==
  ASSUME NEW o \in OrderTable(CustomerIds), NEW t \in Int
  PROVE  /\ [o EXCEPT !.refunded_at = t] \in OrderTable(CustomerIds)
         /\ [o EXCEPT !.refunded_at = t].refunded_at = t
         /\ [o EXCEPT !.refunded_at = t].customer_id = o.customer_id
  BY DEF OrderTable, MaybeTime

LEMMA TypeStep == TypeOK /\ [Next]_vars => TypeOK'
<1> SUFFICES ASSUME TypeOK, [Next]_vars PROVE TypeOK'
  OBVIOUS
<1>1. CASE Tick
  BY <1>1 DEF TypeOK, Tick
<1>2. CASE AgentRefunds \/ ManagerRefunds
  BY <1>2, StampedOrder DEF TypeOK, AgentRefunds, ManagerRefunds
<1>3. CASE OtherCustomerAsks
  BY <1>3 DEF TypeOK, OtherCustomerAsks
<1>4. CASE UNCHANGED vars
  BY <1>4 DEF TypeOK, vars
<1> QED
  BY <1>1, <1>2, <1>3, <1>4 DEF Next

\* Only the stamp of the order ever changes, so it stays an order of the table.
THEOREM PolicyTypes == Spec => []TypeOK
<1>1. Init => TypeOK
  BY OverTimeAssumption DEF Init, TypeOK
<1> QED
  BY <1>1, TypeStep, PTL DEF Spec

\* What each check finds, in the words of policy.md.
LEMMA ChecksMatchPolicy ==
  ASSUME TypeOK
  PROVE  /\ CheckOwnership(order, customer) <=> order.customer_id = customer.id
         /\ CheckAlreadyRefunded(order) <=> order.refunded_at = None
         /\ CheckReturnWindow(order, customer, now) <=>
              order.delivered_at # None /\ now < Deadline(customer.tier)
         /\ order.delivered_at # None =>
              (now < Deadline(customer.tier) <=> ~(now >= Deadline(customer.tier)))
         /\ CheckItemCondition(order) <=>
              ~order.is_final_sale /\ (~order.is_opened \/ order.is_defective)
         /\ CheckAmountThreshold(order) <=> ~NeedsManager
<1> DEFINE days == IF customer.tier = "vip" THEN VipReturnWindowDays ELSE ReturnWindowDays
<1>1. /\ order.delivered_at \in MaybeTime /\ order.amount \in Int
      /\ order.is_opened \in BOOLEAN /\ order.is_defective \in BOOLEAN
      /\ order.is_final_sale \in BOOLEAN /\ now \in Int
  BY DEF TypeOK, OrderTable
<1>2. /\ days \in Int /\ TicksPerDay * (days + 1) = TicksPerDay * (1 + days)
      /\ TicksPerDay * (days + 1) \in Int
  BY PolicyAssumption
<1>3. order.delivered_at # None => order.delivered_at \in Int
  BY <1>1 DEF MaybeTime
<1>4. CheckReturnWindow(order, customer, now) <=>
        order.delivered_at # None /\ now < Deadline(customer.tier)
  <2>1. CheckReturnWindow(order, customer, now) <=>
          /\ order.delivered_at # None
          /\ now - order.delivered_at < TicksPerDay * (WindowDays(customer) + 1)
    BY <1>1, WindowIsDeadline
  <2> HIDE DEF days
  <2>2. order.delivered_at # None =>
          (now - order.delivered_at < TicksPerDay * (days + 1)
             <=> now < order.delivered_at + TicksPerDay * (1 + days))
    BY <1>1, <1>2, <1>3
  <2> QED
    BY <2>1, <2>2 DEF Deadline, WindowDays, days
<1>5. order.delivered_at # None =>
        (now < Deadline(customer.tier) <=> ~(now >= Deadline(customer.tier)))
  <2>1. order.delivered_at # None => Deadline(customer.tier) \in Int
    <3> HIDE DEF days
    <3>1. order.delivered_at # None =>
            order.delivered_at + TicksPerDay * (1 + days) \in Int
      BY <1>2, <1>3
    <3> QED
      BY <3>1 DEF Deadline, days
  <2> HIDE DEF days
  <2> QED
    BY <1>1, <2>1
<1>6. CheckItemCondition(order) <=>
        ~order.is_final_sale /\ (~order.is_opened \/ order.is_defective)
  BY <1>1 DEF CheckItemCondition
<1>7. CheckAmountThreshold(order) <=> ~NeedsManager
  BY <1>1, PolicyAssumption DEF CheckAmountThreshold, NeedsManager
<1> QED
  BY <1>4, <1>5, <1>6, <1>7 DEF CheckOwnership, CheckAlreadyRefunded

\* For every policy configuration, order and clock, the engine's verdict is the
\* one policy.md defines.
THEOREM EngineMatchesPolicy == Spec => []VerdictMatchesPolicy
<1>1. TypeOK => VerdictMatchesPolicy
  <2> SUFFICES ASSUME TypeOK PROVE VerdictMatchesPolicy
    OBVIOUS
  <2>1. MeetsConditions <=>
          /\ CheckOwnership(order, customer) /\ CheckAlreadyRefunded(order)
          /\ CheckReturnWindow(order, customer, now) /\ CheckItemCondition(order)
    BY ChecksMatchPolicy DEF MeetsConditions
  <2>2. CheckAmountThreshold(order) <=> ~NeedsManager
    BY ChecksMatchPolicy
  <2> QED
    BY <2>1, <2>2, VerdictByChecks DEF VerdictMatchesPolicy, Eligibility
<1> QED
  BY <1>1, PolicyTypes, PTL

\* Where the VIP window is no shorter than the regular one, a VIP is never worse off.
THEOREM VipFavoured ==
  ASSUME VipReturnWindowDays >= ReturnWindowDays
  PROVE  Spec => []VipNeverWorse
<1> DEFINE regular == [customer EXCEPT !.tier = "regular"]
           vip == [customer EXCEPT !.tier = "vip"]
<1>1. TypeOK => VipNeverWorse
  <2> SUFFICES ASSUME TypeOK,
                      CheckRefundEligibility(order, regular, now).verdict # "deny"
               PROVE  CheckRefundEligibility(order, vip, now).verdict
                        = CheckRefundEligibility(order, regular, now).verdict
    BY DEF VipNeverWorse
  <2>1. customer \in CustomerTable(CustomerIds)
    BY OverTimeAssumption DEF TypeOK
  <2>2. /\ regular.tier = "regular" /\ vip.tier = "vip" /\ regular.id = vip.id
    BY <2>1 DEF CustomerTable
  <2>3. /\ CheckOwnership(order, regular) <=> CheckOwnership(order, vip)
    BY <2>2 DEF CheckOwnership
  <2>4. /\ order.delivered_at \in MaybeTime /\ now \in Int
    BY DEF TypeOK, OrderTable
  <2>5. CheckReturnWindow(order, regular, now) => CheckReturnWindow(order, vip, now)
    <3>1. WindowDays(regular) = ReturnWindowDays /\ WindowDays(vip) = VipReturnWindowDays
      BY <2>2 DEF WindowDays
    <3>2. order.delivered_at # None => AgeDays(order, now) \in Int
      BY <2>4, PolicyAssumption DEF AgeDays, MaybeTime
    <3> QED
      BY <3>1, <3>2, PolicyAssumption DEF CheckReturnWindow
  <2> QED
    BY <2>3, <2>5, VerdictByChecks
<1> QED
  BY <1>1, PolicyTypes, PTL
-----------------------------------------------------------------------------
\* The reason is the first check that failed.
LEMMA ReasonIsFirst ==
  ASSUME NEW k, DOMAIN k = 1..5, NEW i \in 1..5, ~k[i], \A j \in 1..(i - 1) : k[j]
  PROVE  Reason(k) = CheckNames[i]
<1>1. \A m \in DOMAIN k : (~k[m] /\ \A j \in 1..(m - 1) : k[j]) <=> m = i
  OBVIOUS
<1>2. FirstFailure(k) = i
  BY <1>1 DEF FirstFailure
<1> QED
  BY <1>2 DEF Reason

\* For every configuration and order: what a customer is told, check by check and as
\* the reason of the verdict, is what policy.md says of the order; a stranger's reason
\* is that the order is not theirs.
THEOREM ReasonsHold == Spec => []ReasonsAreTrue
<1>1. TypeOK => ReasonsAreTrue
  <2> SUFFICES ASSUME TypeOK PROVE ReasonsAreTrue
    OBVIOUS
  <2> DEFINE k == Checks(order, customer, now)
             r == Eligibility
  <2>1. /\ DOMAIN k = 1..5
        /\ k[1] = CheckOwnership(order, customer) /\ k[2] = CheckAlreadyRefunded(order)
        /\ k[3] = CheckReturnWindow(order, customer, now)
        /\ k[4] = CheckItemCondition(order) /\ k[5] = CheckAmountThreshold(order)
    BY DEF Checks
  <2>2. \A i \in 1..5 : k[i] <=> ~Violated(CheckNames[i])
    <3>1. k[1] <=> ~Violated("ownership")
      BY <2>1, ChecksMatchPolicy DEF Violated
    <3>2. k[2] <=> ~Violated("already_refunded")
      BY <2>1, ChecksMatchPolicy DEF Violated
    <3>3. k[3] <=> ~Violated("return_window")
      BY <2>1, ChecksMatchPolicy DEF Violated
    <3>4. k[4] <=> ~Violated("item_condition")
      <4>1. Violated("item_condition") <=>
              order.is_final_sale \/ (order.is_opened /\ ~order.is_defective)
        BY DEF Violated
      <4> QED
        BY <2>1, <4>1, ChecksMatchPolicy
    <3>5. k[5] <=> ~Violated("amount_threshold")
      BY <2>1, ChecksMatchPolicy DEF Violated
    <3> QED
      BY <3>1, <3>2, <3>3, <3>4, <3>5 DEF CheckNames
  <2>3. /\ r.verdict = Verdict(k) /\ r.reason = Reason(k)
        /\ \A i \in 1..5 : r.checks[i].name = CheckNames[i] /\ r.checks[i].passed = k[i]
    BY DEF Eligibility, CheckRefundEligibility
  <2>4. (order.customer_id # customer.id) <=> ~k[1]
    BY <2>1 DEF CheckOwnership
  <2>5. Verdict(k) = IF k[1] /\ k[2] /\ k[3] /\ k[4]
                     THEN IF k[5] THEN "approve" ELSE "escalate" ELSE "deny"
    <3>1. (\E i \in HardRules : ~k[i]) <=> (~k[1] \/ ~k[2] \/ ~k[3] \/ ~k[4])
      BY DEF HardRules
    <3> QED
      BY <3>1 DEF Verdict
  <2>6. \A i \in 1..5 : r.checks[i].passed <=> ~Violated(r.checks[i].name)
    BY <2>2, <2>3
  <2> HIDE DEF k, r
  <2>7. ASSUME NEW i \in 1..5, ~k[i], \A j \in 1..(i - 1) : k[j]
        PROVE  Reason(k) = CheckNames[i] /\ Violated(CheckNames[i])
    <3>1. Reason(k) = CheckNames[i]
      BY <2>1, <2>7, ReasonIsFirst
    <3> QED
      BY <2>2, <2>7, <3>1
  <2>8. CASE k[1] /\ k[2] /\ k[3] /\ k[4] /\ k[5]
    <3>1. Reason(k) = "within_policy"
      BY <2>1, <2>8 DEF Reason
    <3> QED
      BY <2>3, <2>4, <2>5, <2>6, <2>8, <3>1 DEF ReasonsAreTrue, r
  <2>9. ASSUME NEW i \in 1..5, ~k[i], \A j \in 1..(i - 1) : k[j]
        PROVE  ReasonsAreTrue
    <3>1. /\ r.reason = CheckNames[i] /\ Violated(r.reason)
          /\ CheckNames[i] # "within_policy"
          /\ CheckNames[i] = "amount_threshold" <=> i = 5
          /\ CheckNames[i] = "ownership" <=> i = 1
      BY <2>3, <2>7, <2>9 DEF CheckNames
    <3>2. r.verdict = "escalate" <=> i = 5
      BY <2>3, <2>5, <2>9
    <3>3. ~k[1] => i = 1
      BY <2>9
    <3> QED
      BY <2>4, <2>6, <3>1, <3>2, <3>3 DEF ReasonsAreTrue, r
  <2>10. \/ k[1] /\ k[2] /\ k[3] /\ k[4] /\ k[5]
         \/ \E i \in 1..5 : ~k[i] /\ \A j \in 1..(i - 1) : k[j]
    <3>1. CASE ~k[1]
      BY <3>1
    <3>2. CASE k[1] /\ ~k[2]
      BY <3>2
    <3>3. CASE k[1] /\ k[2] /\ ~k[3]
      BY <3>3
    <3>4. CASE k[1] /\ k[2] /\ k[3] /\ ~k[4]
      BY <3>4
    <3>5. CASE k[1] /\ k[2] /\ k[3] /\ k[4] /\ ~k[5]
      BY <3>5
    <3> QED
      BY <3>1, <3>2, <3>3, <3>4, <3>5
  <2> QED
    BY <2>8, <2>9, <2>10
<1> QED
  BY <1>1, PolicyTypes, PTL
=============================================================================
