SPECIFICATION FairSpec
INVARIANT OneReader
PROPERTIES LastCall Delivered CloseEndsReceiver
CHECK_DEADLOCK FALSE
