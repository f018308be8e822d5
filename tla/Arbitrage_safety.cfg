\* Every fault; three starts; room for three trades.
CONSTANTS
  BuyEth = BuyEth
  TransferEth = TransferEth
  Calls = {BuyEth, TransferEth}
  Usdc0 = 3
  NoTx = NoTx
  Faults = {"refuse", "revert", "lost", "late", "drop", "crash", "slow"}
  MaxTx = 6
  MaxStarts = 3
SPECIFICATION ArbitrageFairSpec
INVARIANTS RetryIsSafe ExposureBound UnhedgedStaysOnChain DebtBound TransfersAreFunded
PROPERTIES BookSpec TradeEnds
CHECK_DEADLOCK FALSE
