CONSTANTS
  Texts <- MCTexts
  Blank = ""
  Noise = {"", "}"}
  HashOf <- MCHash
  NoHash = NoHash
  Files <- MCFiles
  Contents <- MCContents
  MaxOps = 3
  MaxStaleOps = 2
SPECIFICATION BatchSpec
PROPERTY FreshIdsVerify
