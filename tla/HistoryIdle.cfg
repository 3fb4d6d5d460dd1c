SPECIFICATION HSafety
CONSTANTS
  LastJob = 2
  TypeOf <- MCTwo
  MaxHistory = 2
PROPERTIES KeptByTimer
