CONSTANT Frame = {f1, f2}
SPECIFICATION Spec
INVARIANT AliasOfTheFrame
CHECK_DEADLOCK FALSE
