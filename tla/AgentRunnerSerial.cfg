SPECIFICATION FairSpec
CONSTANTS
  Starters = {s1}
  Reviewers = {r1}
  Replies <- AllReplies
  MaxTurns = 3
  MaxCrashes = 0
INVARIANTS
  WhatTheModelReads
PROPERTY RunsComeToRest
CHECK_DEADLOCK FALSE
