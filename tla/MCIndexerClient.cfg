SPECIFICATION Spec
CONSTANTS
  Instances = {1}
  Heights = {1}
  Views = {1}
  Namespace <- MCNamespace
  ClientNamespace <- MCClientNamespace
  Foreign = {}
INVARIANTS
  UploadedIsAccepted
CHECK_DEADLOCK FALSE
