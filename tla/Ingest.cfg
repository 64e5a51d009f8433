\* A filing, a release on both feeds, two dropped files of which one can be
\* ingested, a fault.
SPECIFICATION FairSpec
CONSTANTS
  f1 = f1
  r1 = r1
  r2 = r2
  d1 = d1
  d2 = d2
  c1 = c1
  NoItem = NoItem
  Filings = {f1}
  USFeed = {r1}
  CAFeed = {r1}
  OnTSX = {r1}
  NoTicker = {}
  Drops = {d1, d2}
  Ingestible = {d1}
  Content <- SameContent
  MaxFaults = 1
INVARIANTS QueuedHasText AcceptedIsQueued RejectionStands
PROPERTIES ReleaseSettles InboxDrains
