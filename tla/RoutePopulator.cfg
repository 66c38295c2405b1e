\* One publisher for the four routes and three for the others: five and eight
\* leave a remainder of the size of a part, seven a smaller one.
CONSTANTS
  RouteCounts = {4, 5, 7, 8}
  NumCPU = 3
  FewRoutes = 5
  MaxErrors = 2
SPECIFICATION FairSpec
PROPERTIES
  StopEnds
  AllRoutesPublished
CHECK_DEADLOCK FALSE
