SPECIFICATION Spec
CONSTANTS
  print = print
  f = f
  g = g
  x = x
  Names = {print, f, g, x}
  Builtin = print
  MaxDeclarations = 5
  MaxContexts = 4
  MaxLoops = 2
SYMMETRY Alike
INVARIANT UsesBindAsChecked
INVARIANT AcceptedNamesAreFound
