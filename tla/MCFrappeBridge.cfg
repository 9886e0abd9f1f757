\* With no punches the system rests once its event is settled, and so does the inbox.
CHECK_DEADLOCK FALSE
CONSTANTS
  Events = {e1}  Summary = summary  Punches = {p1, p2}
  Writers = {w1, w2}  Cron = cron  Dispatchers = {d1, d2}  MaxRetries = 2
  l1 = l1  l2 = l2  j1 = j1  j2 = j2
  Documents = {l1, l2}  Jobs = {j1, j2}  PullLimit = 1  CopyLimit = 2  LastTick = 2  MaxInbox = 4
SPECIFICATION MCSpec
INVARIANTS EventHeldOnce EventsTruthful SummaryIsSent MissedOnlyWhilePulling LeaveFollowsInbox
PROPERTIES EventsSettle
