\* Two tags, of commits with any versions and requirements, in one series of
\* compatible versions; a wait polls twice.
SPECIFICATION Spec
CONSTANTS
  Version = {1, 2}
  Breaking = {}
  MaxPolls = 2
INVARIANTS
  TypeOK
  ReleaseIsComplete
  DependencyPropagated
  PublishedFromItsTag
PROPERTIES
  SpentForGood
  WorkflowEnds
CHECK_DEADLOCK FALSE
