\* Three tabs of one browser, one of which has no service workers, and a
\* deployment: one tag each, in the end.
SPECIFICATION FairSpec
CONSTANTS
  Page = {t1, t2, t3}
  Supported = {t1, t2}
  NoWorker = NoWorker
  MaxVersion = 2
INVARIANTS TypeOK OneTag ServedByWorker
PROPERTY AppStarts
