CONSTANTS
  A = A
  B = B
  NULL = NULL
  Image = {A, B}
  Total <- MCTotal
  InFlight = 2
SPECIFICATION Spec
INVARIANTS TypeOK InOrder AckedInFlash BootsWhole
PROPERTY Completes
