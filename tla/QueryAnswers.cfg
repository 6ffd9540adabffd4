\* Every table of four seconds with numbers, switches and texts, every period and division,
\* in summer and in winter.
SPECIFICATION Spec
CONSTANTS
  Seconds <- FourSeconds
  Values <- Mixed
  NoExtreme = 5
  DstShift = 1
  MaxNumber = 4
INVARIANTS TypeOK AllButRemainderOrNothing AnswersDescribeSpans
  SwitchAnswersAreMajorities TextAnswersAreFirst
