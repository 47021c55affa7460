SPECIFICATION Spec
CONSTANTS
  Files <- SkippedGroup
  MaxSeeks = 0
PROPERTY DeliversInOneGo
