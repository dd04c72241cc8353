SPECIFICATION FairSpec
CONSTANTS
  MaxInt = 7
  Source <- LastWordSource
PROPERTIES
  LoopsEnd
CHECK_DEADLOCK FALSE
