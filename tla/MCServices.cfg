SPECIFICATION Spec
CONSTANTS
  Waiters = {1, 2}
  MaxOutages = 2
  Servers = {0, 1}
  Readers = {"reader"}
  MaxAnnounced = 2
  Ttl = 1
  MaxTime = 2
  Songs = {1, 2}
  Catalogue <- MCCatalogue
  Callers = {1, 2}
  Queries = {1, 2}
  MaxSamples = 2
  MaxRequests = 4
  Durations = {30, 80}
  SkillCount = 3
  MaxPlays = 3
  MaxAlternatives = 2
  TopSize = 2
  Rounded <- MCRounded
  Inputs <- MCInputs
  Teams = {1, 2}
  Targets = {0, 1, 2}
  MaxTimers = 2
  MaxFetches = 2
  Players = {1, 2}
  Documents = 2
  MaxFaults = 1
  MaxRestarts = 1
INVARIANTS DownIsRecovering CacheKeepsKnown FreshIsFresh PlayersAreKept ShownIsCurrent ChoicesAgree OnlyOwnRanking DeckIsTotalled LevelsFollowSourceUnlessTorn TracksAreOneHistoryUnlessDisturbed PollingGoesOn TargetsAreInverted ScoresArePlayed PlaysReachTarget TableTellsHistory
PROPERTIES ReadyReturns ListNeverGoesBack
CHECK_DEADLOCK FALSE
