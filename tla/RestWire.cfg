\* Two users with any of two rows each, lines of up to five characters.
SPECIFICATION WireSpec
CONSTANTS
  Length <- MCLength
  Numbers = {0, 40000, 1700000000}
  Fields <- MCFields
  Letters = {"a", "b"}
  Blanks = {" "}
  Order <- MCOrder
  Rows <- MCRows
  Spelling <- MCSpelling
  MaxLine = 5
INVARIANTS
  ScreenShowsTheList
  AskedIsTyped
