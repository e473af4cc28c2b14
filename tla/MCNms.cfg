\* The log buffer, smaller than the number of calls, and the feed with two rows that
\* change and three clients; both threads that log.
SPECIFICATION NmsSpec
CONSTANTS
    rx = rx
    hr = hr
    Logger = {rx, hr}
    MaxLog = 3
    Cap = 2
    Thread = {rx, hr}
    Rows = 2
    MaxClient = 3
    MaxVersion = 2
INVARIANTS
    TypeOK
    OnceInOrder
    ThreadSendsOnce
    GrowsByCalls
    SurvivesReset
PROPERTIES
    LogsFollowFeed
    FeedCatchesUp
