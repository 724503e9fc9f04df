SPECIFICATION Spec
CONSTANTS
  MaxLines = 6
  PromptTokens = 2
  PromptLength = 5
  MediaCalls = {x1, x2}
  ImageRequests <- MCImageRequests
  ImageSizeRatios <- MCImageSizeRatios
  ImageGenerationAmounts <- MCImageGenerationAmounts
  ImagePromptLengthLimitations <- MCImagePromptLengthLimitations
  Speeches = {2}
  Transcripts = {2}
  PreConsumedQuota = 1
  TrustFactor = 2
  StartQuota = 2
  UnlimitedQuota = FALSE
  MaxExtra = 1
  LimitRequests = {x1, x2}
  maxRequestNum = 2
  duration = 2
  RateLimitKeyExpirationDuration = 2
  MaxNow = 6
  MaxAdmitted = 7
  WarnedUsers = {w1, w2}
  Reservers = {x1, x2}
  Costs = {1, 2}
  ThresholdQuota = 3
  FirstBalance = 4
  CooldownHours = 2
  MaxHours = 3
  MaxReservations = 4
  Admins = {x1, x2}
  Puts <- MCPuts
  FirstTables <- MCFirstTables
  PriceNames <- MCNames
  PriceChannels = {7}
  DefaultModelRatio <- MCDefaultModelRatio
  DefaultCompletionRatio <- MCDefaultCompletionRatio
  MaxPuts = 2
  MaxOptionFaults = 1
SYMMETRY Interchangeable
CHECK_DEADLOCK FALSE
INVARIANTS
  TypeOK
  
  
  
  
  
