SPECIFICATION Spec
CONSTANTS
  Migrators = {m1, m2}
  Accounts <- MCAccounts
  Goals = {0, 1, 2, 7}
CHECK_DEADLOCK FALSE
INVARIANTS CatalogMatchesVersion HeadMatchesModels OnlyDuplicatesStopACommand
PROPERTIES CommandIsAtomic EveryCommandEnds
