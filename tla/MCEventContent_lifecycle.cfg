\* An edit of a rejected event is written after the event has moved on.
CONSTANTS
  Request = {r1}  Image = {i1}  Content = {old}  Null = Null
  GalleryLimit = 1  MaxPosition = 1  MaxFailures = 0
SPECIFICATION Spec
SYMMETRY Symmetry
PROPERTIES ImplementsLifeCycle
