CONSTANTS
  c1 = c1
  c2 = c2
  c3 = c3
  Calls <- ThreeCalls
  Names = {1, 2}
  LinkOf <- NoLinks
  Present = {1}
  Ops = {"edit", "extract", "delete", "undo", "transaction", "view", "create"}
  FaultyOps = {}
  Absent = Absent
  None = None
  Texts <- MCTexts
  Blank = ""
  Noise = {"", "}"}
  HashOf <- MCHash
  NoHash = NoHash
  Files <- MCFiles
  Contents <- MCContents
  MaxOps = 3
  MaxStaleOps = 2
  SourceFiles <- MCSources
  Replacements <- MCReplacements
  Idle = Idle
  Pairs <- MCPairs
  MaxDistance = 5
  NotShown = NotShown
  Runs <- MCRuns
  ProgramLines <- MCProgramLines
  MaxIntrusions = 1
SPECIFICATION TextSpec
INVARIANTS CacheIsKnown ReaderKnowsTheFile NoShorterDiff OmittedIsNoise CutOutputIsRefused
PROPERTIES EditsLandWhereAsked ShiftNoteFindsEveryKeptLine
  OutdatedTargetsChangeNothing TerminatorsSurvive OnlyTheMatchIsReplaced FuzzyReplacesItsLines
  ShiftNoteIsRight
SYMMETRY Interchangeable
CHECK_DEADLOCK FALSE
