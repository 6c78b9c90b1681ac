SPECIFICATION Spec
CONSTANTS
  Programs <- StoredValuePrograms
  Answers <- MCAnswers
  Unspecified <- MCUnspecified
  Address <- MCAddress
  Static <- MCStatic
  OptimizeChoices = {FALSE}
INVARIANT
  SameBehaviour
