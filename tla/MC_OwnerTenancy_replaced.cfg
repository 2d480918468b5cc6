SPECIFICATION ServingSpec
CONSTANTS
  a1 = a1
  a2 = a2
  b1 = b1
  old = old
  new = new
  NoDaemon = NoDaemon
  Daemon = {a1, b1}
  Verified = {a1, b1}
  BinaryOf <- Binaries
  MaxMishaps = 1
CHECK_DEADLOCK FALSE
PROPERTY ReplacedIsReaped
