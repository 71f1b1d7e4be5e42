\* One session, three generations of its worker, three streams; checks fire and time passes.
SPECIFICATION FairSpec
CONSTANTS
  Sessions = {s1}
  Streams = {t1, t2, t3}
  Null = Null
  StaleAfter = 2
  MaxEpoch = 3
  MaxSeq = 2
INVARIANTS OneLiveStream
PROPERTIES EvictedOnlyWhenGone ImplementsLifecycle SilentDropIsReaped
