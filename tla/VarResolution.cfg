SPECIFICATION Spec
CONSTANTS
  Names = {a, b}
  MaxCode = 4
  Ops = {"let", "export let", "export", "var", "share", "eval", "import", "mod", "block", "for", "arm"}
INVARIANTS
  NamesResolve
PROPERTIES
  DefinitionsHold
