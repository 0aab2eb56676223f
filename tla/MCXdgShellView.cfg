SPECIFICATION XSpec
CONSTANTS
  w1 = w1
  w2 = w2
  o1 = o1
  Node <- WindowAndOutput
  Window <- OneWindow
  Layout = {tiled, floating}
  Blank = Blank
  Gone = Gone
  NoAtomic = FALSE
  TxnWait = FALSE
  TimerMayFail = FALSE
  MaxSerial = 3
INVARIANTS ReadyMeansRendered AnswerIsComing
CHECK_DEADLOCK FALSE
