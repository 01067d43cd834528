SPECIFICATION Spec
CONSTANTS
  I8Max = 7
  UszMax = 200
  UrMax = 6
  Block = 4
  I64Max = 900
  SparseRatio = 2
  DenseRatio = 2
  Pack = 4
  Word = 4
  FltBits = 14
  RowBlock = 8
  Seeds <- AllSeeds
  Others <- MCOthers
  Operands <- MCOperands
  AxisArgs <- MCAxisArgs
  CellFunctions <- MCCellFunctions
  CellDyads <- MCCellDyads
  Ranks <- MCRanks
  CellSeeds <- MCCellSeeds
  CellArgs <- MCCellArgs
  KnownDiffer = FALSE
  MaxSteps = 1
  MaxProduct = 64
  MaxIa = 6
  MaxRank = 1
CHECK_DEADLOCK FALSE
INVARIANTS
  ResultsProper
  OperatorsAsDefined
  FillsFollow
  CellsAgree
