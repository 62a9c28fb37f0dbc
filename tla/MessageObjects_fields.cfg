\* Two lists with room for one user, that has a name and a number, of two
\* values each.
SPECIFICATION Spec
CONSTANTS
  Objects = {a, b}
  a = a
  b = b
  MaxUsers = 1
  Length <- MCTexts
  Numbers = {0, 1}
  Fields <- MCNamePort
SYMMETRY MCSymmetry
INVARIANTS
  UnsetIsDefault
  LengthsAgree
PROPERTY ImplementsRecords
