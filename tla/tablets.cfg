SPECIFICATION Spec
CONSTANTS
  ann = ann  bob = bob  cyd = cyd
  x = x  y = y  z = z
  Tablets = {ann, bob, cyd}
  Lines = {x, y, z}
  AuthorOf <- McAuthorOf
  SpotOf <- McSpotOf
  SentSpotOf <- McSentSpotOf
  Glyph <- McGlyph
  TopDigit = 1
  CounterSize = 3
  Watched = {cyd}
CHECK_DEADLOCK FALSE
INVARIANTS TypeOK CounterReadable GhostsAreKnown PaintedInCausalOrder
