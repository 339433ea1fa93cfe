SPECIFICATION PureSpec
CONSTANTS
  Legible <- MCLegible
INVARIANTS
  ReadsBack
  NothingSkipped
  RowsReadBack
  TextFunctionsAgree
CHECK_DEADLOCK FALSE
