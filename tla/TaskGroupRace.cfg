SPECIFICATION GroupSpec
CONSTANTS
  Coro = {o, t1, t2}
  Owner = o
  Task = {t1, t2}
  None = None
INVARIANTS JoinsAll
