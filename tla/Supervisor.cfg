SPECIFICATION FairSpec
CONSTANTS
  NServices = 4
  NSlots = 3
  Shell = 1
  Optional = {4}
  Missing = {4}
  FirstDelay <- MCFirstDelay
  RetryCap = 3
  InboxCap = 2
  Reserve = 4
  MaxGeneration = 2
INVARIANTS TypeOK InitKnows OneInstance NeverForgotten RegistryAgrees RequestsOfTheDown
PROPERTIES ServicesComeBack
