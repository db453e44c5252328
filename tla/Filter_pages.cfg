SPECIFICATION FairSpec
CONSTANT
  Streams <- SmallStreams
  Drivers <- AllDrivers
INVARIANT
  TypeOK
PROPERTY
  FilterPromise
