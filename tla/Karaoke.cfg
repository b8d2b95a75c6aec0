SPECIFICATION KaraokeSpec
CONSTANTS
  Nothing = Nothing
  Unread = Unread
  Stages = 2
  MaxClicks = 1
  MaxLater = 0
  MaxTroubles = 1
INVARIANTS
  SettledView
  SelectedShown
CHECK_DEADLOCK FALSE
