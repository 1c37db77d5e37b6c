SPECIFICATION SessionSpec
CONSTANTS
  Games = {g1}
  NoGame = NoGame
  MaxSessions = 2
INVARIANTS NoWriteUnderGame
