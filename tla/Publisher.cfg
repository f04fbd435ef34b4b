SPECIFICATION Spec
CONSTANTS
    Filters = {f1}
    MaxLosses = 1
    Handlers = {h1}
    Unread = Unread
    Snapshotter = snapshotter
    Parts = {"device"}
    QueueSize = 2
    MaxChanges = 1
CHECK_DEADLOCK FALSE
INVARIANTS DrainedBeforeLeaving
PROPERTIES NoSendOnClosed QueueKept Heals SubscriptionsReturn
