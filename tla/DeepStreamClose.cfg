SPECIFICATION Spec
CONSTANTS
  Symbol = {s1, s2}
  Route = {market, public}
  MaxChange = 3
  MaxBreak = 1
  MaxClose = 1
PROPERTIES
  Converges
