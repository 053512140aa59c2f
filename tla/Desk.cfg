SPECIFICATION Spec
CONSTANTS
  MaxQueues = 2
  MaxIdeas = 2
  MaxReplaced = 1
  Jobs <- MCJobs
  Rooms = {"portfolio", "market"}
  OpenPages = {"form", "list", "portfolio"}
  Row = r0
  Rows = {r1, r2}
  MaxSent = 4
  MaxLoads = 1
  Topics = {"x", "y"}
  MaxAsked = 4
  Indices = {1, 2}
  MaxTrips = 3
  Transcripts <- MCTranscripts
  MaxChars = 8
  MaxSpan = 60
  Contracts <- MCContracts
  Days <- MCDays
  Questions <- MCQuestions
  Instruments <- MCInstruments
  Reported <- MCReported
  MaxHistory = 2
  MaxMarket = 2
  MaxFound = 3
  MaxMentioned = 2
  MaxPosts = 2
  MaxAtOnce = 2
SYMMETRY RowSymmetry
INVARIANTS
  DaysFollowEachOther
  EntriesAvoidQueues
  CapitalIsConserved
  AdviceIsSound
  
  SubtitlesAreComplete
  
  
  FormsAreSound
  LastQuestionIsShown
  PageIsSound
CHECK_DEADLOCK FALSE
