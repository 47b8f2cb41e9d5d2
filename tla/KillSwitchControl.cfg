SPECIFICATION CtlSpec
CONSTANT MaxEvents = 2
INVARIANT EmergencyOnDisk
PROPERTY StopEndsByReset
