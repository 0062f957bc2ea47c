SPECIFICATION BookSpec
CONSTANTS
  TicksPerDay = 1
  s1 = s1
  Student = s1
  Week <- MixedWeek
  MaxLogged = 4
  LastDate = 5
  Ahead = 1
INVARIANTS StreaksAgree CompletionAgrees FiguresAddUp
CHECK_DEADLOCK FALSE
