\* Every marker, at the head, in the waits and at the watcher, across crashes and signals.
SPECIFICATION Spec
CONSTANT Configs <- MarkersConfigs
PROPERTIES MarkersAreHonoured ImplementsDaemon
CHECK_DEADLOCK FALSE
