CONSTANTS
  AgvCount <- TwoTeams
  Clients = {c1, c2, c3, c4}
  MaxClient = 3
  Rounds = 2
SPECIFICATION FairBoot
CHECK_DEADLOCK FALSE
INVARIANTS BootTypeOK OwnSocket
PROPERTIES MeetUnlessRaced EverySeatTaken
