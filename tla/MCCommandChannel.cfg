CONSTANTS
  r1 = r1
  r2 = r2
  r3 = r3
  Req <- MCReq
  None = None

SPECIFICATION Spec

INVARIANTS
  AnswersOwnRequest
  NothingPendingOnceClosed
  ExecutedInSendOrder

PROPERTIES
  EverySendReturns
  ImplementsRpcChannel

CHECK_DEADLOCK FALSE
