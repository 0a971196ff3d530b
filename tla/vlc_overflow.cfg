CONSTANTS
  NumMb = 2
  NumBlk = 2
  AreaBits <- MCAreaBits
  Words <- MCWords
  Eob <- MCEob
  ErrorWords <- MCErrorWords
  Run <- MCRun
  MaxCoeffs = 6
  NBlocks = 2
  Qualities = {"ac2"}
  Coefs <- MCCoefs
  MaxCoefs = 2
  PassChoices = {1, 2}
SPECIFICATION Spec
INVARIANT OverflowOnlyDrops
CHECK_DEADLOCK FALSE
