CONSTANTS
  MaxVersion = 3
  None = None
  NoRelease = None
  Unparsable = Unparsable
  Ttl = 1
  Version <- MCVersion
  Lists <- MCLists
SPECIFICATION SystemSpec
INVARIANTS
  SystemTypeOK
  QuitsForInstaller
  OfferIsNewer
  OfferInChannel
  OfferIsBest
PROPERTIES
  ImplementsDownloadJob
  ImplementsLauncherUpdate
\* The launcher ends once an installer has been started.
CHECK_DEADLOCK FALSE
