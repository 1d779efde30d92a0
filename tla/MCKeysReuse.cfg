\* One database failure is enough.
SPECIFICATION Spec
CONSTANTS
    MaxFaults = 1
    MaxCrashes = 0
PROPERTY SavedKeysAreUsed
