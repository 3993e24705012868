SPECIFICATION Spec
CONSTANTS
  ma = ma
  mb = mb
  eth = eth
  bsc = bsc
  Tron = Tron
  None = None
  Merchants = {ma, mb}
  EvmChains = {eth, bsc}
  MaxContracts = 2
  MaxInFlight = 2
  MaxFaults = 1
  MaxHasty = 2
INVARIANTS
  ContractsBelong
  ShownIsRegistered
  ProgressIsShown
CHECK_DEADLOCK FALSE
