CONSTANTS
  release = release  nightly = nightly  old = old
  Installers = {1}
  Window <- MCWindow
  HeaderMoves = FALSE
  Volatile <- MCVolatile  MaxHeader = 2  MaxProtocol = 2
SPECIFICATION Spec
INVARIANTS ServedWasSmoked FreshnessMirrorsGate SuccessIsServed
