SPECIFICATION AllSpec
CONSTANTS
    TIME_SET = 8
    WdogValues <- MCWdogValues
    Timers = {t1, t2}
    Half = 4
INVARIANT FiresOnTime
PROPERTIES WatchdogHonest Barks GadgetLive
CHECK_DEADLOCK FALSE
