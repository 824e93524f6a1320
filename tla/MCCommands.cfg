SPECIFICATION Spec
CONSTANTS
  c1 = c1
  c2 = c2
  write = write
  input = input
  call = call
  Client <- MCClient
  Gateway <- MCGateway
  Op <- MCOp
  AuthorOf <- MCAuthorOf
  KindOf <- MCKindOf
  None = None
  LeaseTime = 1
  MaxRenew = 1
  MaxConn = 2
  MaxSend <- MCMaxSend
  MaxTrouble = 1
  MaxCrash = 1
INVARIANTS
  AppliedOnce
  AnswersAreTrue

  
CHECK_DEADLOCK FALSE
