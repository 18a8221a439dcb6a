CONSTANTS
  Clients = {1, 2}
SPECIFICATION Spec
INVARIANTS CountIsCalibrated
