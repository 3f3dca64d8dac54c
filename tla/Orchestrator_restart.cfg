SPECIFICATION Spec
CONSTANTS
  c1 = c1
  c2 = c2
  c3 = c3
  c4 = c4
  c5 = c5
  p = p
  q = q
  r = r
  t = t
  hp = hp
  hqr = hqr
  ht = ht
  None = None
  Call = {c1, c2, c3, c4, c5}
  Prompt <- MCPrompt
  PromptOf <- MCPromptOf
  Head <- MCHead
  HeadOf <- MCHeadOf
  Length <- MCLength
  Matches <- MCMatches
  Resembles <- MCResembles
  Ragged <- MCRagged
  MaxInflight = 2
  MaxStarts = 2
  MaxFaults = 1
INVARIANTS MemoryOpens
CHECK_DEADLOCK FALSE
