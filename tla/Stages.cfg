SPECIFICATION StagesSpec
CONSTANTS
  Sizes = {3, 8, 64, 75}
  ChannelMaxPolls = 2
  Retries = 2
  Models = 2
  MaxPolls = 2
  Variants = {"primary", "dark"}
  MaxRuns = 2
  Today = 1
  Weeks = 2
  WeekDays = 2
  MonthDays = 3
  WaveSize = 1
  PlanSizes = {1, 3, 4, 8}
  Tiers = {"standard", "hero"}
  ChainCap = 1
  MaxMotionRetries = 1
  MaxVideoCalls = 2
  MaxVideoPolls = 1
  MaxShots = 3
  Lengths = {100}
  Clips = {40}
  Wordings = {"", "a", "b"}
  MaxPhotos = 3
  MaxAttempts = 2
  Posts = {"linkedin"}
  Runs = {1, 2}
  Written = {1, 3}
  MaxDays = 2
  MaxRows = 2
  MaxEdits = 1
  Answers = {{}, {"pillars"}, {"positioning", "pillars", "audiences", "cadence", "themes"}}
  Nothing = Nothing
  Names = {"a", "b"}
  MaxFound = 1
  MaxJobs = 1
  MaxTwins = 2
  PageSlots = {1, 2}
  MaxPictures = 1
  MaxGallery = 1
  MaxStockRuns = 1
  Missing = Missing
  Calls = {1, 2}
  MAX_CONCURRENT = 1
  MAX_RETRIES = 1
  COOLDOWN = 2
  TOKEN_LIFE = 3
  MaxTime = 3
  MaxCalls = 3
INVARIANTS
  OutcomeIsTrue
  LeastBadLeaves
  ShipsWhatItShows
  SeamsAreSound
  CostRecorded
  PaidOnlyWhenMeant
  CaptionsFit
  KeepsItsLength
  AppliedWasSaid
  PlanIsVetted
  TwinsAreRaces
  DoomedBounded
PROPERTIES
  PlanIsReplacedWhole
  UploadIsRemembered
  ImageSurvivesRuns
CHECK_DEADLOCK FALSE
