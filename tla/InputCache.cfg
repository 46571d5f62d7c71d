\* Four contents in a three-slot window whose positions just fit the wire; eight
\* pushes evict every content and bring each one back.
CONSTANTS
  Data = {w, x, y, z}
  CacheSize = 3
  PosValues = 3
  MaxPushes = 8
SPECIFICATION Spec
INVARIANTS TypeOK IndexExact FindReadsBack
PROPERTIES AnswersLikeAScan
