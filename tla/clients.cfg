SPECIFICATION Spec
CONSTANTS
  Files <- MCFiles
  Role <- MCRole
  SecureElements <- MCSecureElements
  StartsWithRadio <- MCRadio
  Scenarios <- MCScenarios
  MaxQueue = 1
INVARIANTS
  ReferencesMatch
  FollowsRadio
  PresenceAnswered
  CardResetBetweenClients
  NoCircularWait
  ArrivalServed
  OffWithoutOwner
