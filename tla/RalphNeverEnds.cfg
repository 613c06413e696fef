SPECIFICATION Spec
CONSTANTS
  Tracked = {edited, workflow}
  Untracked = {created}
  Sensitive = {workflow}
  MaxRetries = 1
  MaxReviews = 1
  MaxOthers = 1
  MaxFixes = 2
  MaxFaults = 0
PROPERTY
  PREndEndsLoop
