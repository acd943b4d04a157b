SPECIFICATION Spec
CONSTANTS
  Names = {"a", "b", "f", "T"}
  Numbers = {"0", "1"}
  Scripts <- MCScripts
  Extra = 4
INVARIANT TreesAreThoseOfTheGrammar
INVARIANT TypesAndVariablesAreApart
INVARIANT AcceptsTheGrammar
PROPERTY Returns
