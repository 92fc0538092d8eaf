SPECIFICATION PipelineFairSpec
CONSTANTS
  Callers = {w1, w2}
  Keys = {k1}
  NoCaller = NoCaller
  MaxGen = 2
  Variants <- MCVariants
INVARIANTS HandlesInv RenderedNotNewer
PROPERTIES  VariantsConverge
