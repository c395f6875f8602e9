SPECIFICATION CompatSpec
CONSTANTS
  ascii = ascii
  both = both
  high = high
  mixed = mixed
  Words <- MCWords
  Plain <- MCPlain
  Flip <- MCFlip
  ServerWords <- MCServerWords
  DEFAULT_SERVER_NAME = ascii
  SubVersions <- MCSubVersions
  VersionFields <- MCVersionFields
  MaxOutbox = 2
INVARIANTS
  PlainClientUndisturbed
  
  ExtrasFollowVersion
