\* Two generations at once of global and board digests, or a reader who turns
\* pages or opens one, while a change is made to what is visible.
SPECIFICATION Spec
CONSTANTS
  h1 = h1  h2 = h2  None = None  NoSignal = NoSignal
  Entries = {1, 2, 3, 4, 5, 6}
  Arriving = {5}
  Sources = {"wide", "narrow", "web"}
  Boards = {"ai", "software"}
  AnyBoard = "any"
  SourceOf <- MCSourceOf
  BoardOf <- MCBoardOf
  PublishedAt <- MCPublishedAt
  RightsOf <- MCRights
  Words = {"llm"}
  Blank = "  "
  EntryText <- MCEntryText
  SummaryTexts <- MCSummaryTexts
  FirstSummaries <- MCFirstSummaries
  Visits <- MCVisits
  FirstFeedbacks <- MCFeedbacks
  FeedbackTypes = {"duplicate", "rights_concern"}
  PageLimit = 2
  SourceItemLimit = 1
  CandidateMultiplier = 1
  MinimumCandidates = 4
  MaximumCandidates = 5
  MaxEdits = 1
  Groups = {7, 8}
  GroupOf <- MCGroupOf
  Representative <- MCRepresentative
  Signal <- MCSignal
  Trigram <- MCTrigram
  TextRank <- MCTextRank
  RelatedLimit = 2
  Handlers = {h1, h2}
  AskedDates = {"d", "no day"}
  NoDay = {"no day"}
  AskedBoards = {"any", "ai", "unknown"}
  Limits = {3}
  MaxRequests = 2
  MaxFaults = 1
SYMMETRY HandlerSymmetry
CONSTRAINT OneActivity
CHECK_DEADLOCK FALSE
INVARIANT EditionIsOneSelection
INVARIANT AnswersAgree
INVARIANT WalksMissNothing
PROPERTY SelectionsKeepPromises
 
