\* The only fault: an answer of SendTransaction is lost.
CONSTANTS
  Calls = {c1}
  NoTx = NoTx
  Faults = {"lost"}
  MaxTx = 3
  MaxStarts = 2
SPECIFICATION WalletSpec
INVARIANT GasPaidMeansNonceBumped
CHECK_DEADLOCK FALSE
