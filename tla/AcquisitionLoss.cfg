CONSTANTS
  DATA_BUF_CNT = 8
  I2S_RX_BUF_LEN = 2
  DATA24_BLK_CNT = 3
  WAKEUP = 1
  Scopes <- MCLossScopes
SPECIFICATION Spec
INVARIANT LossIsCounted
