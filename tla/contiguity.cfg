SPECIFICATION CFairSpec
CONSTANTS
  Writers = {w1, w2, w3}
  MinHeight = 2
  MaxHeight = 5
  Entry = {e1}
  ZeroEntry = zero
INVARIANTS CTypeOK FloorSound FloorExact HighwaterExact
PROPERTIES FloorCatchesUp
