\* Keys, sessions, histories set by the application, and a limit it changes.
SPECIFICATION HistorySpec
CONSTANTS
  empty = empty  blank = blank  x = x  xspace = xspace  y = y  xy = xy
  Line = {empty, x, xspace, xy}
  Empty = empty
  Trim <- TrimSpaces
  Within <- Substrings
  Given <- OldHistory
  Limit = 2
  Sizes = {1, 3}
  MaxSaved = 1
PROPERTIES NavigationKeepsLines EnterKeepsOthers
CHECK_DEADLOCK FALSE
