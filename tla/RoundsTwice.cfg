\* Three rounds from a version without pages and one new one.
CONSTANTS
    LegacyRounds <- ThreeRounds
    MaxRound = 4
SPECIFICATION Spec
INVARIANT RoundsListedOnce
