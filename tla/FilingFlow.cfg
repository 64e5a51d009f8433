\* A filing, the notes of an earlier one of the same company left to do, one
\* fault.  Everything may be settled.
SPECIFICATION FairSpec
CONSTANTS
  f1 = f1
  f2 = f2
  acme = acme
  Filings = {f1, f2}
  Tickers = {acme}
  NoTicker = NoTicker
  TickerOf <- OneCompany
  Earlier = {f2}
  MaxAttempts = 1
  MaxSize = 2
  MaxFaults = 1
INVARIANTS RelevantIsQueued
PROPERTIES UsesQueue ReplacedIsStashed SignalIsPushed
CHECK_DEADLOCK FALSE
