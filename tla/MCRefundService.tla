--------------------------- MODULE MCRefundService ---------------------------
EXTENDS RefundService, TLC

\* Two orders of one customer: one the agent may refund today and not tomorrow,
\* and one above the threshold.  A second customer owns nothing; asking on its
\* behalf only makes the first one's rows collectable.
MCSeedOrder == [o \in Orders |->
  [customer_id |-> "cust-1", delivered_at |-> 0, is_final_sale |-> FALSE,
   is_opened |-> FALSE, is_defective |-> FALSE,
   amount |-> IF o = "small" THEN 1 ELSE 2, refunded_at |-> None]]

MCCustomerTier == [c \in CustomerIds |-> "regular"]

MCSymmetry == Permutations(Turns) \cup Permutations(Managers)
=============================================================================
