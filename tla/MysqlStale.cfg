\* An insertion through a connection that a failed request left open.
SPECIFICATION Spec
CONSTANTS
  Keys <- MCKeys
  Values = {v1, v2, odd}
  Quotable <- MCQuotable
  Unknown = Unknown
  MaxConnections = 2
  lamp = lamp
  v1 = v1
  v2 = v2
  odd = odd
PROPERTIES StoredIfServed
