\* Every command and the whole TrackEndHandler, with fairness.
CONSTANTS
  t1 = t1  t2 = t2
  u1 = u1  u2 = u2
  NoUser = NoUser
  Track = {t1, t2}
  User = {u1}
  Commands <- PlayerCommands
  ListLen = 1
  HasPool = TRUE
SPECIFICATION FairSpec
INVARIANTS VotesDieWithTheirSong
PROPERTIES FinishedHeadLeaves CallIsReleased
