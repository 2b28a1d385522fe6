SPECIFICATION FairSpec
CONSTANTS
  NVars = 5
  Address = {1,2,3,4,5,6,7,8,9,10,11,12}
  Formulas <- Problems
  MaxUpkeep = 1
INVARIANT TypeOK ReasonsAreUnit PropagationComplete LearntIsAsserting ListsHoldTheirClauses VerdictIsRight ModelIsMinimal
PROPERTY Terminates
CHECK_DEADLOCK FALSE
