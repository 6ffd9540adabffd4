\* A server that stops, restarts, loses its schema and closes connections at any point.
SPECIFICATION Spec
CONSTANTS
  Keys <- MCKeys
  Values = {v1, v2, odd}
  Quotable <- MCQuotable
  Unknown = Unknown
  MaxConnections = 2
  lamp = lamp
  v1 = v1
  v2 = v2
  odd = odd
INVARIANTS EveryConnectionReturned CrashOnlyWithoutServer
PROPERTIES StoredIfConnectedAndServed TableSpec
