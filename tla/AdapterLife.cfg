SPECIFICATION Spec
CONSTANTS
  Masks <- SmallMasks
  Timeouts <- SmallTimeouts
  NdefLimits <- SmallLimits
  NdefMax = 2
INVARIANTS
  OpenMeansReady
  RegistryOnlyWhileOpen
  CalibratedUnlessFailed
PROPERTIES
  RefinesSession
