CONSTANTS
  MaxVersion = 2
  Paths = {d1, d2}
  None = None
  Unparsable = Unparsable
  Broken = Broken
SPECIFICATION Spec
INVARIANTS
  TypeOK
  PartialOnlyInFlight
  CheckingHasFetch
  OfferConsistent
  OfferIsNewer
PROPERTIES
  CheckEnds
  ImplementsDownloadJob
