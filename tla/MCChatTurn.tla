----------------------------- MODULE MCChatTurn -----------------------------
EXTENDS ChatTurn, TLC

\* One order the agent may refund and one above the threshold, both of "cust-1".
MCSeedOrder == [o \in Orders |->
  [customer_id |-> "cust-1", delivered_at |-> 0, is_final_sale |-> FALSE,
   is_opened |-> FALSE, is_defective |-> FALSE,
   amount |-> IF o = "small" THEN 1 ELSE 2, refunded_at |-> None]]

MCCustomerTier == [c \in CustomerIds |-> "regular"]

MCTurnVerdicts == Verdicts \cup {None}

MCSymmetry == Permutations(Turns) \cup Permutations(Managers)
=============================================================================
