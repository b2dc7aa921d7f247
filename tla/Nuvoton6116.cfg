\* The inversion file of the NCT6116D.
SPECIFICATION Spec
CONSTANTS
  Caller <- One
  Jobs <- InverseJobs
  Hardware <- Board6116
  Contents <- Cleared
  Tries = 1
INVARIANT ShowsWhatWasSet
