\* Two pairs that share a token; every fault; three starts, seven transactions.
CONSTANTS
  usdc = usdc
  wftm = wftm
  dai = dai
  ApprovalOrder <- TwoPairs
  Operations = {buy}
  Calls = {usdc, wftm, dai, buy}
  NoTx = NoTx
  Faults = {"refuse", "lost", "late", "drop", "crash"}
  MaxTx = 7
  MaxStarts = 3
SPECIFICATION BrokerFairSpec
INVARIANTS ApprovedOnce OperationsNeedAllowance
  AtMostOneUnmined NoNonceGap CacheLagsByAtMostOne
PROPERTIES WalletSpec WedgedUntilRestart StartupEnds
CHECK_DEADLOCK FALSE
