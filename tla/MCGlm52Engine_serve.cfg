SPECIFICATION Spec
CONSTANTS
  p1 = p1  p2 = p2  n1 = n1  n2 = n2  e1 = e1  b1 = b1
  Req = {p1, p2, n1, n2, e1, b1}
  NoReq = NoReq
  Page = 3
  Slots = 2
  Kind <- MCKind
  In <- MCIn
  MaxOut <- MCMaxOut
  MaxPolls = 2
  MaxDraft = 1
  Setups <- AllSetups
INVARIANTS TypeOK PromisesBacked NoLoadUnderReplay ArenasOutliveDMA
PROPERTIES LeasesReturned EveryoneAnswered
CHECK_DEADLOCK FALSE
