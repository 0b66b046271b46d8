-------------------------- MODULE MCPolicyOverTime --------------------------
EXTENDS PolicyOverTime

\* Orders of two customers: never delivered, delivered at the start of a day or
\* in the middle of a later one, in every condition, at the threshold and one
\* paisa above it.
MCOrderRows ==
  [customer_id : CustomerIds, delivered_at : {None, 0, 3},
   is_final_sale : BOOLEAN, is_opened : BOOLEAN, is_defective : BOOLEAN,
   amount : {5000000, 5000001}, refunded_at : {None}]

MCCustomerRows == [id : {"cust-1"}, tier : Tiers]
=============================================================================
