SPECIFICATION QueueFairSpec
CONSTANTS
  n1 = n1  n2 = n2  n3 = n3  c1 = c1  c2 = c2  g1 = g1  g2 = g2  h1 = h1  h2 = h2
  NoGui = NoGui
  Notes = {n1, n3}
  Asking = {n1}
  NoEvent = {}
  HashOf <- TwoBinaries
  Guis = {g1, g2}
  Conns = {c1, c2}
  GuiOf <- TwoUsers
  Capacity = 1
  SilentMode = FALSE
  Silences = TRUE
  Overlap = TRUE
  MaxRuns = 2
INVARIANTS NoReplyLost
PROPERTIES UnsilencedAnswered
