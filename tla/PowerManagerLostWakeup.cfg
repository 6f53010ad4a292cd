\* Is every change followed?  A notification while main does not wait is lost.
CONSTANTS
  Leftover = {FALSE}
  MuxDriver <- CMuxMockDriver
SPECIFICATION Spec
PROPERTIES
  ChangeIsFollowed
