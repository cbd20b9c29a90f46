\* Every finished video carries its provenance mark.
SPECIFICATION Spec
CONSTANTS
  c1 = c1
  c2 = c2
  h1 = h1
  h2 = h2
  None = None
  Calls = {c1, c2}
  Handlers = {h1, h2}
  Engines <- MCEngines
  DefaultEngine = "comfy"
  Keys <- MCKeys
  Posted <- MCPosted
  MaxUpdates = 2
  InputSets <- MCInputSets
INVARIANT ProvenanceAttached
CHECK_DEADLOCK FALSE
