\* Five files, one that never opens, two that may not.
CONSTANTS
  CommandLines = {1, 2, 7}
  Lines <- FiveFiles
  Unopenable = {5}
  Flaky = {1, 4}
  OpenFails = TRUE
SPECIFICATION FairSpec
INVARIANT InInputOrder
PROPERTIES
  ImplementsHostLookup
  Ends
