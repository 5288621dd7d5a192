\* Two edits at once of an event with up to three images, one failure or crash.
CONSTANTS
  Request = {r1, r2}  Image = {i1, i2, i3}  Content = {old, new}  Null = Null
  GalleryLimit = 2  MaxPosition = 3  MaxFailures = 1
SPECIFICATION Spec
SYMMETRY Symmetry
INVARIANTS ReviewTrail StaysAsAgreed GalleryNearLimit OneCover MediaInv
PROPERTIES AgreedLifeCycle
