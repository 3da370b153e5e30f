SPECIFICATION FairSpec
CONSTANTS
  Connected <- Order
  Publishes <- Published
  Capacity = 2
  MaxEvents = 3
INVARIANTS
  TypeOK
  OnceAndInOrder
PROPERTIES
  EveryEventIsLogged
  EveryEventIsObserved
