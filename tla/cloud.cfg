SPECIFICATION FairSpec
CONSTANTS
  N = 2
  Size <- SizeThreeTwo
   
PROPERTIES RunningEnds 
