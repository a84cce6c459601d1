SPECIFICATION Spec
CONSTANT MaxTexts = 2
INVARIANT NothingIsTorn
CHECK_DEADLOCK FALSE
