SPECIFICATION LocksSpec
CONSTANTS
    N = 3
    MaxNumber = 3
    MaxCalls = 2
\* In Bakery every CPU may have made its calls.
CHECK_DEADLOCK FALSE
INVARIANTS LockInvariant ServedInOrder
PROPERTIES CallIsServed ImplementsMutex EveryTrapReturns
