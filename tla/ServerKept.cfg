SPECIFICATION GuiSpec
CONSTANTS
  SearchUrls = {x}
  Options = {price, date}
  Unwritable = {date}
  Settings = {d, s}
  Default = d
  Missing = Missing
  MaxEdits = 1
INVARIANT ServerKept
CHECK_DEADLOCK FALSE
