SPECIFICATION FairSpec
CONSTANTS
  w1 = w1
  w2 = w2
  o1 = o1
  Node <- WindowsAndOutput
  Window <- TwoWindows
  Layout = {tiled}
  Blank = Blank
  Gone = Gone
  NoAtomic = FALSE
  TxnWait = FALSE
  TimerMayFail = TRUE
INVARIANTS TypeOK LocksAreCounted CallbacksAreSafe WaitIsBounded NoLostChange FrozenOnlyInTransaction NoUseAfterFree
PROPERTIES LayoutIsAtomic ChangesAreCommitted TransactionsEnd
CHECK_DEADLOCK FALSE
