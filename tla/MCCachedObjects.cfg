CONSTANTS
  p1 = p1
  p2 = p2
  Passes <- TwoPasses
  MaxVersions = 3
  MaxChanges = 1
SPECIFICATION Spec
INVARIANT CopiesAreApart
