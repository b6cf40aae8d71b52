SPECIFICATION Spec
CONSTANTS
  CharOf <- MCCharOf
  LowerCase <- MCLowerCase
  Docs <- MCDocs
  Others <- MCOthers
  LeadsTo <- MCLeadsTo
  WordsIn <- MCWordsIn
  Texts <- MCTexts
  Uris <- MCUris
  FormEncoding <- MCFormEncoding
  MaxRemoved = 1
  Cwd <- MCCwd
  Dirs <- MCDirs
  Roots <- MCRoots
  TestFiles <- MCTestFiles
  MaxText = 3
  MaxPath = 4
INVARIANTS TypeOK SearchRight LinksLeadBack DecodeExact EscapedOnce PathSafe
