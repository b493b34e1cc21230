SPECIFICATION Spec
CONSTANTS
  Args = {0, 1, 3, 12}
  Asks = {0, 2, 20}
INVARIANT
  TypeOK
PROPERTY
  Patient
