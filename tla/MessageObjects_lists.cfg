\* Two lists with room for two users that have only a name, the empty one.
SPECIFICATION Spec
CONSTANTS
  Objects = {a, b}
  a = a
  b = b
  MaxUsers = 2
  Length <- MCEmptyOnly
  Numbers = {0}
  Fields <- MCName
SYMMETRY MCSymmetry
PROPERTY ImplementsRecords
