SPECIFICATION ApplicationFairSpec
CONSTANTS
  MaxStarts = 1
  MaxUpdates = 2
PROPERTIES
  StopBegunExits
