SPECIFICATION Spec
CONSTANTS
  None = None
  K = 2
  Discount <- MCDiscount
  Words <- MCWords
  Width <- MCWidth
  Casefolded <- MCCasefolded
  Normal <- MCNormal
  Cases <- MCCases
  Items <- MCItems
  Citations <- MCCitations
  Claims <- MCClaims
  TraceSpans <- MCTraceSpans
  Usages <- MCUsages
  BeforeSpan = 1
  AfterSpan = 2
  MaxReported = 5
  MaxRetrieved = 6

  
  
PROPERTIES
  MoreIsNotWorse
CHECK_DEADLOCK FALSE
