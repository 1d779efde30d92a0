\* No failure at all is needed, only a restart.
SPECIFICATION Spec
CONSTANTS
    MaxFaults = 0
    MaxCrashes = 0
INVARIANT PublicKeyIsReturned
