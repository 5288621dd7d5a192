\* One request shrinks a type while its units are reserved.
SPECIFICATION Spec
CONSTANTS
  Update = {w1}
  Initial = 2
  MaxSequence = 2
INVARIANTS CapacityCoversOccupied
