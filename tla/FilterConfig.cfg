\* Filters added, changed, deleted and saved, with restarts, refused and interrupted saves;
\* and which filter a message meets.
SPECIFICATION Spec
CONSTANTS
  Names <- MCNames
  Twice <- MCTwice
  Given <- MCGiven
  XPL = 2
  Texts <- MCTexts
  Empty <- MCEmpty
  Cut <- MCCut
  Currrent <- MCCurrrent
  ToLower <- MCLower
  SampleSources <- MCSources
  SampleMessages <- MCMessages
INVARIANTS FiltersAsOrdered ListMatchesFilters FindsFirstThatCovers
