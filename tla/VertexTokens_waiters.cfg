CONSTANTS
  None = None
  k1 = k1
  k2 = k2
  k3 = k3
  Calls <- Three
  QueueCap = 1
  MaxTokens = 2
  Sources = {s1, s2, s3, s4}
SPECIFICATION TokensFairSpec
INVARIANTS WaitersAreServed AnswersAreValid
PROPERTIES Answered
