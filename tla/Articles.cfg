CONSTANTS
  Conns = {c1, c2}
  Anchors = {h1, h2}
  Bodies = {{}, {h1}, {h2}, {h1, h2}}
  Fronts = {f1, f2}
  NoBody = NoBody
  NoFront = NoFront
  NoSource = NoSource
  NoAnchor = NoAnchor
  MaxEdits = 2
SPECIFICATION Spec
INVARIANTS TypeOK ReadersAreServed BodyIsWhole ArchivedIsToldOnce
PROPERTIES ImplementsShelf
SYMMETRY Symmetry
