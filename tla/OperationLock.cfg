CONSTANTS
  api = api
  cli = cli
  a1 = a1
  a2 = a2
  k1 = k1
  NoCaller = NoCaller
  Procs <- MCProcs
  Callers <- MCCallers
  ProcOf <- MCProcOf
SPECIFICATION FairLockSpec
INVARIANTS LockInv
PROPERTIES FlockIsHandedOver ImplementsExclusive
