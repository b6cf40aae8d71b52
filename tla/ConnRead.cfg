SPECIFICATION Spec
CONSTANTS
  Lines <- MCLines
  UriLines <- MCUriLines
  Header <- MCHeader
  LowerCase <- MCLowerCase
  Text <- MCText
  Body <- MCBody
  Streams <- GoodStreams
  ReadMax = 4
PROPERTIES ReadReports
