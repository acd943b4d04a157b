SPECIFICATION Spec
CONSTANTS
  Texts <- MCTexts
  IntWidth = 8
  MaxLength = 5
INVARIANT ReadsTheText
PROPERTY CommentsEndAfterAnOddRun
PROPERTY Terminates
