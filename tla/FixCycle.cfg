SPECIFICATION FixSpec
CONSTANTS
  Worlds <- MCWorlds
  Capable = {"CI-01", "CI-05", "CC-03", "SP-03", "SP-07", "LE-01", "LE-05", "LE-02", "LE-09", "PT-03", "PT-04"}
  MaxImports = 2
  MaxEdits = 1
  MaxWrites = 3
  SampleCap = 2
  BackfillCap = 2
  ConsentCap = 2
  OwnedBases = {"net_ltv"}
  ContractBases = {"age"}
  ValueSamples = 2
  NormaliseCap = 2
  GapCap = 2
  IngestCap = 1
  ProductCap = 2
CHECK_DEADLOCK FALSE
INVARIANTS
  ToldOnce
  PlansAreSound
PROPERTIES
  FixesSettle
  FixesKeepTheRest
