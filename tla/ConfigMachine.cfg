CONSTANTS
  NumChannels = 2
  DeviceSteps = 1
  InitSteps = 2
  ReloadSteps = 1
SPECIFICATION FairSpec
INVARIANTS TransfersSound FlowOnlyConfigured ReloadRemembered
PROPERTIES WorkingChannelStays InitEnds PendingServed
