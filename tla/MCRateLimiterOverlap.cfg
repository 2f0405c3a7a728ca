CONSTANTS
  g1 = g1
  g2 = g2
  r1 = r1
  r2 = r2
  r3 = r3
  NoCaller = NoCaller
  NoLimiter = NoLimiter
  Callers <- TwoCallers
  Limiters <- TwoCallerLimiters
  Limits <- FixedLimit
  Horizon = 3
  Kinds <- Chats
SPECIFICATION Spec
PROPERTIES
  MinimumSpacing
