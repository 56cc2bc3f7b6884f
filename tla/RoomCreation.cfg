SPECIFICATION CreationSpec
CONSTANTS
  MainRoom = main
  SubRoom = {s1, s2}
  Elsewhere = elsewhere
  MaxAttempts = 2
  MaxClicks = 2
  MaxPosts = 3
INVARIANTS ScopingEnds PromptsAccounted
