SPECIFICATION ChannelSpec
CONSTANTS
  MaxCommits = 2
  MaxRequests = 3
  Shutdowns = TRUE
PROPERTY ResumesReady
