SPECIFICATION Spec
CONSTANTS
  Files <- MCFiles
  MaxSeeks = 1
INVARIANTS
  CountersExact PositionsTrue
PROPERTIES DeliversInOneGo
