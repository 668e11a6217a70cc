SPECIFICATION Spec
CONSTANTS
  NumValves = 2
  NumHco = 4
  NumSlots = 6
  NumChannels = 5
  NumKinds = 2
  Factories <- MCFactories
  Samples <- MCSamples
  Readings <- MCReadings
  MaxWrites = 2
INVARIANT ViewsAgree
INVARIANT RestatingIsHarmless
INVARIANT CloneReproduces
INVARIANT SaneMeansConsistent
