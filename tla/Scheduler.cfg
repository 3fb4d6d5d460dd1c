SPECIFICATION SSpec
CONSTANTS
  u1 = u1
  u2 = u2
  u3 = u3
  Jobs <- MCJobs
  Kinds <- MCKinds
  KindOf <- MCKindOf
  MaxLimit = 2
  FailInQueue <- MCFailInQueue
INVARIANTS SlotsAgree QueueAgrees NoForgottenWaiter NoStrandedJob
PROPERTIES ImplementsAdmission
