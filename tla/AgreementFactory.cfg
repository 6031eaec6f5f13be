SPECIFICATION Spec
CONSTANTS
  Operators = {op1, op2, op3}
  NoContract = nocontract
  Terms = {cheap, dear}
  MaxTime = 4
  MaxAgreements = 3
INVARIANTS
  OneAgreementInForce
  RegistryNamesTheOneInForce
  OneAgreementPerNumber
CHECK_DEADLOCK FALSE
