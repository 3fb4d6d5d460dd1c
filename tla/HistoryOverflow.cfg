SPECIFICATION HSafety
CONSTANTS
  LastJob = 3
  TypeOf <- MCThree
  MaxHistory = 2
PROPERTIES KeptByOverflow
