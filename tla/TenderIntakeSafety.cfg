SPECIFICATION Spec
CONSTANTS
  Workers = {w1, w2}
  Mails <- TheMails
  Mail <- TheMail
  Book <- TheBook
  PackCodes = {"A7"}
  Whole = {"1", "2", "10", "20", "30", "71", "72", "3", "4", "5", "6"}
  UnitOf <- TheUnits
  StateOf <- TheStates
  FetchAttempts = 2
  Failing <- Everything
  MaxDeliveries <- TwiceBoth
  MaxDeaths = 1
INVARIANTS ImportInv StrandedAccounted PositionsCovered
PROPERTIES OneTenderPerOrder OwnLocations
SYMMETRY Symmetry
CHECK_DEADLOCK FALSE
