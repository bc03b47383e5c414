SPECIFICATION FairSpec
CONSTANTS
  CanLose = FALSE
  CanCrash = TRUE
  HasTtl = FALSE
  MaxBeats = 2
  Langs = {"py", "java"}
PROPERTY
  Recovers
