SPECIFICATION Spec
CONSTANTS
  Main = main
  Sub = {s1}
  Review = {v1}
  NoRoom = none
  MaxLate = 1
INVARIANTS ListAccounted
PROPERTIES StaysInRoom
