SPECIFICATION FairSpec
CONSTANTS
  Runners = {r1}
  Listeners = {l1}
  Plain = {p1}
INVARIANTS
  ReconnectHelps
PROPERTIES
  HarmIsOverlap
  ImplementsRouterCalls
  CallsReturn
