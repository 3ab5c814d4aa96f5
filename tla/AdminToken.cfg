SPECIFICATION AdminSpec
CONSTANTS
  Jobs = {j1, j2}
  None = None
  MaxRevocations = 3
  MaxFailures = 2
SYMMETRY JobSymmetry
INVARIANTS SurvivesRevocation UpdateReported
