SPECIFICATION DiscussionSpec
CONSTANTS
  Sessions = {c1, c2}
  Scripts = {s1, s2}
  Articles = {b1}
  Readers = {ann, bob}
  Admin = admin
  SeedAuthor = ann
  SeedGuest = bob
  MaxComments = 4
  MaxAsked = 3
  MaxRuns = 2
  NoArticle = NoArticle
  NoReader = NoReader
SYMMETRY Symmetry
INVARIANTS DiscussionTypeOK OneVoicePerReader SampleIsShownOnce
PROPERTIES TombstonesStay
