SPECIFICATION Spec
CONSTANT Bits = {tx, rx, key}
INVARIANTS TypeOK NoLostWakeup
PROPERTIES WaitReturns ImplementsAwait
