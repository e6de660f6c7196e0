SPECIFICATION Spec
CONSTANTS
  Base = 3
  Capacity = 4
  Nodes <- SampleNodes
INVARIANT RoundTrip
INVARIANT Canonical
INVARIANT LeafHashAgrees
