SPECIFICATION Spec
CONSTANTS
  Word = 256
  Directive <- MCDirective
  Garbage <- MCGarbage
INVARIANTS InFormat ReadsBack FieldLaidOut
PROPERTIES Returns
CHECK_DEADLOCK FALSE
