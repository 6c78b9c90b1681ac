SPECIFICATION Spec
CONSTANTS
  Programs <- MCPrograms
  Answers <- MCAnswers
  Unspecified <- MCUnspecified
  Address <- MCAddress
  Static <- MCStatic
  OptimizeChoices = {TRUE, FALSE}
INVARIANTS
  JumpsBindInnermostLoop
  JumpsResolve
  SameBehaviour
  EdgesStayTrue
  NothingLeftToDo
PROPERTIES
  EveryChangeShrinks
  NeitherHangsAlone
