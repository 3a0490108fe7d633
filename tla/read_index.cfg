CONSTANTS
  Follower = {f1, f2}
  Call = {c1}
  NoContext = NoContext
  MaxCommit = 1
SPECIFICATION Spec
CHECK_DEADLOCK FALSE
PROPERTY ReadAnswered
