SPECIFICATION FairSpec
CONSTANTS
  home = home
  other = other
  NoDongle = NoDongle
  Home = home
  SHELL_CMDS = FALSE
  MSGQ_DEPTH = 2
  Dongles <- MCDongles
INVARIANTS EndpointTypeOK RadioHandedOver AdvertisingResynced OffNeverConnected FollowsPatientUser RecordMatchesRam
PROPERTIES RebindOnlyAfterForget SwitchTakesEffect
