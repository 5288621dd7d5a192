\* Two organiser requests over a type of 2 units that may grow to 3.
SPECIFICATION Spec
CONSTANTS
  Update = {w1, w2}
  Initial = 2
  MaxSequence = 3
SYMMETRY Symmetry
PROPERTIES OccupiedAreKept CurrentReadKeepsBacking
