SPECIFICATION Spec
CONSTANTS
  Callers = {c1, c2}
  MailboxCapacity = 1
  NoCaller = NoCaller
INVARIANTS
  TypeOK
  ActiveJobsExact
  IdleMeansSettled
  WaitingCallHasOnePlace
PROPERTIES
  EveryCallEnds
  ShutdownEndsActor
  ImplementsContract
CHECK_DEADLOCK FALSE
