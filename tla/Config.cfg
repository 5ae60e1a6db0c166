\* Pipelines of up to five phases, documents over every file, two versions of a document
\* on two files, and two members on two or three routes.
CONSTANTS
  None = None
  p1 = p1
  p2 = p2
SPECIFICATION Spec
PROPERTIES
  PipelineDelivers OverlayReHomesNothing RunConfigIsRatified RoutesAreMarked
CHECK_DEADLOCK FALSE
