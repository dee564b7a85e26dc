SPECIFICATION GemSpec
INVARIANT GemSorts
PROPERTIES GemTransmits GemReceives
CHECK_DEADLOCK FALSE
