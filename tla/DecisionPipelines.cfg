SPECIFICATION PipelinesSpec
CONSTANTS
  Requests <- MCRequests
  Manifests <- MCManifests
  ImageObservations <- MCImageObservations
  MaxFrames = 2
  Cities <- MCCities
  Years <- MCYears
  Short <- MCShort
  LegalSuffixes <- MCLegalSuffixes
  Identifiers <- MCIdentifiers
  Numbers <- MCNumbers
  NativeWords = 2
  MaxEvidence = 2
  Documents <- MCDocuments
  Jobs <- MCJobs
  Outputs <- MCOutputs
  Scenarios <- MCScenarios
  Findings <- MCFindings
  minimum_level <- MCMinimumLevel
  LevelChoices = {3, 4}
  MaxArtifacts = 2
  MaxTurns = 2
  Assets = {"poster", "clip"}
  ReferenceImages = {"logo"}
  MaxAssessed = 3
  Settings <- MCSettings
  Callers = {"c1", "c2"}
  Routes <- MCRoutes
  JobIds = {"j1", "j2"}
  Durations = {1, 2}
  Window = 2
  MaxMeasured = 3
  Sources <- MCSources
  ClimbingStems <- MCClimbingStems
  MaxChanges = 2
  TerritoryCodes <- MCTerritoryCodes
  Enrolments <- MCEnrolments
  Dossiers <- MCDossiers
  MaxControlEntries = 2
  LastRelease = 2
  LastDay = 2
CHECK_DEADLOCK FALSE
INVARIANTS
  PipelinesTypeOK
  NothingIsCleared
  UncoveredUseIsBlocked
  TamperingIsNeverOutvoted
  FailureIsNotAveragedAway
  DocumentsMeanWhatTheySay
  GraphTellsTheRights
  ReleasedRevealsNothing
  FaithfulOutputIsReleased
  LinkageIsKept
  ExposureIsTold
  EveryCandidateIsAnswered
  ReleaseFailsClosed
  VerifiersAcceptWhatWasBuilt
  ConsolesAreTruthful
  BoundaryIsKept
  RequestsAreCounted
