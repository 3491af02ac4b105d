\* A ring with room for two entries, two attempts per event: with five wakes
\* both consumers overtake each other and postEvent runs out of attempts.
CONSTANTS
  Slots = 3
  MaxTries = 2
  MaxWakes = 5
SPECIFICATION Spec
INVARIANTS TypeOK NoForgottenWake OnlyWrittenTaken
PROPERTY KeepsPromise
