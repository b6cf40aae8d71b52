SPECIFICATION Spec
CONSTANTS
  Lines <- MCLines
  UriLines <- MCUriLines
  Header <- MCHeader
  LowerCase <- MCLowerCase
  Text <- MCText
  Body <- MCBody
  Streams <- MixedStreams
  ReadMax = 4
PROPERTIES ParseReports
