CONSTANTS
  NumMb = 2
  NumBlk = 2
  AreaBits <- MCAreaBits
  Words <- MCWords
  Eob <- MCEob
  ErrorWords <- MCErrorWords
  Run <- MCRun
  MaxCoeffs = 2
  NBlocks = 2
  Qualities = {"ac2"}
SPECIFICATION Spec
INVARIANT ErrorsAreSeen
CHECK_DEADLOCK FALSE
