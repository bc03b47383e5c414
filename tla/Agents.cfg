SPECIFICATION FairSpec
CONSTANTS
  CanLose = TRUE
  CanCrash = TRUE
  HasTtl = TRUE
  MaxBeats = 2
  Langs = {"py", "java"}
INVARIANTS
  TypeOK
  AdvertisedIsStarted
PROPERTY
  UnregisteredFades
