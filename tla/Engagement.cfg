SPECIFICATION Spec
CONSTANTS
  Conns = {c1, c2}
  Actors = {a1}
  Users = {u1, u2}
  Subjects = {s1}
  Clicks = {k1}
  Completes = {k2}
  Saves = {k3}
  Others = {}
  NoUser = NoUser
  NoRow = NoRow
  NoActor = NoActor
  NoSubject = NoSubject
  NoBeacon = NoBeacon
SYMMETRY Symmetry
INVARIANTS TypeOK EachBeaconCountsOnce HistoryIsAccountedFor OneAccountPerSubject
PROPERTIES HistoryStaysPut
