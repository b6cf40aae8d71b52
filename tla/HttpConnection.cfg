SPECIFICATION FairSpec
CONSTANTS
  Lines <- MCLines
  UriLines <- MCUriLines
  Header <- MCHeader
  LowerCase <- MCLowerCase
  Text <- MCText
  Body <- MCBody
  Streams <- MixedStreams
  ReadMax = 6
INVARIANTS StreamInv StreamFidelity
PROPERTIES ConnSpec ConnLive
