SPECIFICATION ShellSpec
CONSTANTS
  Url = {u1}
  NoUrl = NoUrl
  Conn = {c1, c2}
  NoConn = NoConn
  MaxAttempts = 1
  Texts = {0, 1, 2}
  Short = {0}
  Carried <- PartOf
SYMMETRY Alike
INVARIANTS OneChannel StatusTells Recovers SearchAccounted
PROPERTIES PasteNeedsMove
