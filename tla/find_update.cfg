\* An update is requested while another chat session is active.
CONSTANTS
  Agent = Agent
  Display = Display
  Processes <- AgentAndDisplay
  Chats = {c1, c2}
  MaxRestarts = 2
  MaxFaults = 3
SPECIFICATION FairSpec
PROPERTIES
  UpdateApplied
CHECK_DEADLOCK FALSE
