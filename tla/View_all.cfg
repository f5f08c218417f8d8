\* Two rules of three and four antecedents; keys for about five selections or
\* cases.
SPECIFICATION Spec
CONSTANTS
  Facts <- MCFacts
  Analogs <- MCAnalogs
  About <- MCAbout
  Inputs <- MCInputs
  Sustained <- MCSustained
  RuleOrder <- MCRuleOrder
  Tested <- MCTested
  KitTrace <- MCKitTrace
  KeyOf <- MCKeyOf
  MaxTraces <- MCMaxTraces
  MaxKey = 30
INVARIANTS
  TablesMatchOwners
  KronoShowsChain
  HeldKeysHold
