\* Loading, every operation chip by chip, and two users of the files in
\* every interleaving of their port accesses.
SPECIFICATION Spec
CONSTANTS
  Caller <- Callers
  Jobs <- MCJobs
  Hardware <- MCBoards
  Contents <- MCContents
  Tries = 2
INVARIANT TypeOK
INVARIANT RestsClosed
INVARIANT Identified
INVARIANT StoreTakesEffect
INVARIANT ShowsWhatWasSet
PROPERTY ChangesOnlyAsked
