CONSTANTS
  sigterm = sigterm
  sigquit = sigquit
  Signal <- MCSignal
  TIME_SLOTS = 3
  MaxClock = 6
  MaxSignals = 4
SPECIFICATION Spec
SYMMETRY Symm
INVARIANTS
  PublishedIsComplete
  CopyIsIntact
  CachedTimeIsCurrent
PROPERTY NeverBackward
