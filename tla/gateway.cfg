SPECIFICATION Spec
CONSTANTS
  Threads = {t1, t2}
  Requests <- MCRequests
  UnknownTool = "invented_tool"
  MaximumCalls = 3
\* The inspector stops when nobody calls it any more.
CHECK_DEADLOCK FALSE
INVARIANTS
  TypeOK
  AuditFaithful
  TicketsAuthorized
  NumbersFollowCalls
  MetricMatchesAudit
PROPERTIES
  EveryCallAnswered
