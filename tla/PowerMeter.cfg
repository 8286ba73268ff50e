\* Two domains, two pollers, counters that may go all the way round.
SPECIFICATION Spec
CONSTANTS
  Domains = {"package-0", "core"}
  Pollers = {"p1", "p2"}
  MaxRange = 2
  MaxDraw = 3
  MaxReadings = 3
INVARIANTS
  TypeOK
  ReadingRight
  HandedOutOnce
