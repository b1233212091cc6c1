SPECIFICATION FairSpec
CONSTANTS
  Clients = {c1, c2}
  Nobody = nobody
  Dbs = {0, 1}
  Keys = {"j", "k"}
  Cmds <- MCCmds
  Watched <- MCWatched
  MaxElems = 2
  MaxAsked = 5
  SilentWrites = FALSE
INVARIANTS
  BlockingSafe
PROPERTIES
  WatchSound
  ExecIsolated
  BlockedIsServed
  QuitReleasesAll
CHECK_DEADLOCK FALSE
