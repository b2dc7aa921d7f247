\* Two sources, one of them with patches, and a death or failure anywhere but
\* in the swap.
SPECIFICATION FairSpec
CONSTANTS
  Sources <- MCSources
  Versioned <- MCVersioned
  FilesOf <- MCFilesOf
  Changes <- InTurn
  Size <- Growing
  Offers <- MCOffers
  MaxRev = 3
  SwapBreaks = FALSE
INVARIANT TypeOK
INVARIANT SavedIsInstalled
PROPERTY NeverOlder
PROPERTY UpdatesRuleFiles
PROPERTY AlertsTruthful
PROPERTY CatchesUp
