CONSTANTS
  Sizes <- MCSizes
  Mimes <- MCMimes
  StreamSets <- MCStreamSets
  Durations <- MCDurations
SPECIFICATION Spec
CHECK_DEADLOCK FALSE
INVARIANT AdvertisedFormatsPass
