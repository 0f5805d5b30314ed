\* The firmware's routes: more of them than places in the list, and one callback
\* for each topic.  With two the list does not route as its header promises.
CONSTANTS
  Routes <- FirmwareRoutes
  MaxSubscriptions = 4
  Free = Free
SPECIFICATION Spec
INVARIANTS NoDuplicates
PROPERTIES RoutesAsPromised
