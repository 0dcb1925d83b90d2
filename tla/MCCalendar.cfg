CONSTANTS
  FirstYear = 2023
  LastYear = 2024
  MaxDates = 50
SPECIFICATION CalendarSpec
INVARIANTS
  OncePerPeriod
  DayDriftsToShortestMonth
