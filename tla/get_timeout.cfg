\* Twenty nanoseconds and ten milliseconds to the second: 1 is the tenth of a
\* second every caller passes.  An int of a little more than two seconds.
CONSTANTS
  NsPerMs = 2
  MsPerSec = 10
  IntMax = 41
  Milliseconds <- AllMilliseconds
  LastSec = 3
SPECIFICATION Spec
INVARIANTS
  DeadlineRight
  TurninRight
  DifferBeyondOneCarry
