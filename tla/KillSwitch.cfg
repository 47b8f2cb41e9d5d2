SPECIFICATION Spec
CONSTANT MaxEvents = 3
INVARIANTS TypeOK FrozenOnDisk ResetIsDurable AuditChain
PROPERTY RestartKeepsBlocking
