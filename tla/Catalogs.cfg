SPECIFICATION Spec
CONSTANTS
  Conns = {c1, c2, c3}
  Blogs = {b1}
  Names = {saved, other}
  Saved = saved
  NoName = NoName
  NoBlog = NoBlog
SYMMETRY Symmetry
INVARIANTS TypeOK FirstSaveConverges
