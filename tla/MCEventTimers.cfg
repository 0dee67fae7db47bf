CONSTANTS
  e1 = e1
  e2 = e2
  e3 = e3
  Timer <- MCTimer
  Delay <- MCDelay
  Word = 32
  IntWord = 8
  MaxClock = 5
  MaxLag = 1
SPECIFICATION Spec
INVARIANTS
  TimersOnTime
  WakesInTime
PROPERTY TimerFires
