\* A client that follows the protocol or sends what it likes, and accounts typed
\* meanwhile.
SPECIFICATION FairSpec
CONSTANTS
  Client = {"c1"}
  Name <- MCName
  Plain <- MCPlain
  Password <- MCPassword
  Lower <- MCLower
  Collated <- MCCollated
  ZeroKey = "zero"
  NoRow = NoRow
  MaxPackets = 3
  MaxAccounts = 2
INVARIANTS TypeOK LoginProven
PROPERTIES OneGuess HonestLogsIn
