CONSTANTS
  NumMb = 2
  NumBlk = 2
  AreaBits <- MCAreaBits
  Words <- MCWords
  Eob <- MCEob
  ErrorWords <- MCErrorWords
  Run <- MCRun
  MaxCoeffs = 6
  NBlocks = 2
  Qualities = {"ac1", "ac2"}
  Coefs <- MCCoefs
  MaxCoefs = 2
  PassChoices = {1, 2, 3}
SPECIFICATION Spec
INVARIANT TypeOK
INVARIANT InOrderOfSending
INVARIANT RoundTrip
CHECK_DEADLOCK FALSE
