\* Nothing fails and one plugin's configuration changes.
CONSTANTS
  MaxFaults = 0
  MaxChanges = 1
SPECIFICATION Spec
INVARIANT ChangesTakeEffect
CHECK_DEADLOCK FALSE
