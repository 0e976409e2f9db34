SPECIFICATION Spec
CONSTANTS
  Waiters = {w1, w2, w3}
  Tasks = {t1, t2, t3}
  NULL = NULL
INVARIANTS
  EntriesOwned
PROPERTIES
  VacanciesReused
  ImplementsQueue
  CancelWakes
