CONSTANTS
  Group = 4
  Word = 512
  Half = 32
  MaxFrame = 28
  Statuses <- MCStatuses
  Messages <- MCMessages
  Updates <- MCUpdates
  Unknown <- MCUnknown
  Noise <- MCNoise
  Tails <- MCTails
SPECIFICATION Spec
CHECK_DEADLOCK FALSE
INVARIANTS TypeOK RoundTrip ForwardCompatible WholeFieldsOnly LastValueWins
