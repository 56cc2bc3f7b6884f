SPECIFICATION Spec
CONSTANTS
  Room = {r1, r2}
  Sub = {r2}
  NoRoom = NoRoom
  Ask = {1}
  Other = {o1}
  w1 = w1
  Worker = {w1, w2}
  NoWorker = NoWorker
  On <- MCOn
  MaxVisits = 2
INVARIANTS MessagesAccounted LeftoversGo
PROPERTIES InputFrees
