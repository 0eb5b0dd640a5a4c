SPECIFICATION Spec
CONSTANTS
  anna = anna
  bek = bek
  cA = cA
  cB = cB
  a1 = a1
  a2 = a2
  b1 = b1
  t1 = t1
  t2 = t2
  t3 = t3
  w1 = w1
  w2 = w2
  Customers = {anna, bek}
  Contracts = {cA, cB}
  Owner <- MCOwner
  Stages = {a1, a2, b1}
  ContractOf <- MCContractOf
  Price <- MCPrice
  Rank <- MCRank
  Late = {a1}
  Standing = {"ACTIVE"}
  Txns = {t1, t2, t3}
  Amount <- MCAmount
  Payer <- MCPayer
  NoCustomer = "none"
  Workers = {w1, w2}
  Serves <- ApartServes
  Reach <- ApartReach
  Ops = {"auto", "link", "unlink", "ignore"}
  Limit = 4
INVARIANTS TypeOK StagesBalanced
PROPERTIES OldestFirst AutoWithinPrice AutoCloses
CHECK_DEADLOCK FALSE
