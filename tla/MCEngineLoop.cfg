\* Four lines typed at any time, from before the engine runs to after it ended.
SPECIFICATION FairSpec
CONSTANTS
  Word <- MCWord
  Line <- MCLine
  Hash <- MCHash
  KeyRange = 65536
  MaxLines = 4
INVARIANTS TypeOK LeavesWithAllAnswers SystemsRunAlone NothingUnasked AccountSafeAfterAnswer
PROPERTIES QuitEnds PingAnswered
