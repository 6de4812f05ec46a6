SPECIFICATION WorkspaceSpec
CONSTANTS
  Callers = {c1, c2}
  Visitors = {c1, c2}
  Keys = {k1}
  MaxEvents = 4
  None = None
  People = {anna, ben}
  Founder = anna
  Nobody = Nobody
  MaxVisits = 4
  Teams <- AnyTeam
SYMMETRY Symmetry
INVARIANTS
  TrailExplainsStatus
  AuthorityIsFresh
PROPERTIES
  LastAdminGoesOnlyStale
  JoinsByALiveInvite
CHECK_DEADLOCK FALSE
