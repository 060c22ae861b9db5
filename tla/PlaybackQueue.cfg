\* Two users edit the queue while tracks end.
CONSTANTS
  t1 = t1  t2 = t2  t3 = t3
  u1 = u1  u2 = u2
  NoUser = NoUser
  Track = {t1, t2, t3}
  User = {u1, u2}
  Commands <- QueueCommands
  ListLen = 2
  HasPool = FALSE
SPECIFICATION Spec
SYMMETRY Symmetry
INVARIANTS TypeOK TailNeverStarted FinishedTrackHasEvent
PROPERTIES OnlySkipsAndPanicsLeak OnlyRemoveStalls JukeboxSpec
