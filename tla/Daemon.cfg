\* Starts, stops and restarts by root and by a user, from several directories, with other
\* programs, deaths and reboots.
SPECIFICATION Spec
CONSTANTS
  p1 = p1
  p2 = p2
  c1 = c1
  c2 = c2
  c3 = c3
  home = home
  elsewhere = elsewhere
  bare = bare
  Pids = {p1, p2}
  Commands = {c1, c2, c3}
  Dirs = 1
  Cwds = {home, elsewhere, bare}
  Writers <- MCWriters
  Users = {root, user}
  Root = root
SYMMETRY Symmetry
CONSTRAINT Ordered
INVARIANTS TypeOK OneDaemonListed
PROPERTIES KillsOnlyDaemons NotStartedIsTrue
