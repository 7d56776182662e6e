\* Two commands at the same time, and one change by somebody else.
SPECIFICATION Spec
CONSTANTS
  Missing = Missing
  Given = Given
  Throws = Throws
  Blank = Blank
  i1 = i1
  i2 = i2
  i3 = i3
  i4 = i4
  i5 = i5
  i6 = i6
  i7 = i7
  i8 = i8
  i9 = i9
  Inodes = {i1, i2, i3, i4, i5, i6, i7, i8, i9}
  Processes = {"p1", "p2"}
  Paths <- MCPaths
  CommandLines <- MCCommandLines
  InlineKeys <- MCInlineKeys
  FileLists <- MCFileLists
  Links <- MCLinks
  Contents <- MCContents
  Movable = {"proof.json", "alias.json", "a", "new.svg"}
  MaxChanges = 1
INVARIANTS GateOnlyPassesSigned DigestsAreExact
PROPERTIES PresentationKeepsReceipt KeygenReplacesNothing
CHECK_DEADLOCK FALSE
