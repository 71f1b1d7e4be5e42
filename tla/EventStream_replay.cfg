\* Two browsers, three connections between them, a window shorter than the session.
SPECIFICATION StreamSpec
CONSTANTS
  Clients = {c1, c2}
  Responses = {r1, r2, r3}
  Null = Null
  BufferSize = 2
  MaxEvents = 4
CHECK_DEADLOCK FALSE
SYMMETRY Symmetry
INVARIANTS InOrderOnce NothingRetainedIsLost FarewellIsLast
