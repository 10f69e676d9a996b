CONSTANT MaxLexemes = 4
SPECIFICATION StripSpec
INVARIANT StripsExactly
CHECK_DEADLOCK FALSE
