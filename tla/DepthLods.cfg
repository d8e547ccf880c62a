\* Pictures up to 8 by 8 and 10 by 4, with three levels at most and up to three or four pixels measured.
CONSTANTS
  Least = 2
  Pictures <- MCPictures
SPECIFICATION LodsSpec
INVARIANT FilledFromNearest
INVARIANT HolesFromBehindOnly
\* One picture is filled once.
CHECK_DEADLOCK FALSE
