SPECIFICATION MCSpec
CONSTANTS
  Payloads <- MCPayloads
  MaxLines = 2
  Replies <- MCReplies
  Strays <- MCStrays
  Bursts <- MCBursts
INVARIANTS
  SurvivesNvs
  EchoedAsSent
  OnlyTheSentFrame
  IntactIsTaken
CHECK_DEADLOCK FALSE
