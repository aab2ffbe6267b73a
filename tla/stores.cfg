SPECIFICATION StSpec
CONSTANTS
  MaxUpdates = 3
  MaxBoots = 4
  Rash = {}
  NoValue = NoValue
INVARIANTS
  BootsWhole RoutingSound  SavedIsLoaded LogSound  SlotsKeepMeaning
   LimitsHold 
PROPERTIES
    LeastRecentGoes ImplementsSequenceStore BatchingSound
   
CHECK_DEADLOCK FALSE
