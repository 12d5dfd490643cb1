SPECIFICATION Spec
CONSTANTS
  a = a
  b = b
  c = c
  Tasks = {a, b, c}
  None = None
  Depth = 50
  Kinds <- MCKinds
  Args <- MCArgs
  Contents <- MCContents
INVARIANTS OnOwnStack HandlerSeesCall ReturnsToTrampoline
PROPERTIES ResumedAsLeft SysCallKeepsRegisters
