\* All keys while text is printed.  The text is limited to three lines, later to four, which only
\* printed and entered lines fill, or the limit is never reached.
SPECIFICATION FairSpec
CONSTANTS
  None = None
  Outputs <- PartsOfOutput
  ScrollBacks = {4}
  ScrollBack = {3, 20}
  Careful = TRUE
  MaxInput = 1
  MaxText = 5
 
PROPERTIES  PrintedAppears
CHECK_DEADLOCK FALSE
