SPECIFICATION Spec
CONSTANT Tids = {1, 2, 3, 4}
INVARIANTS
  TypeOK
  FirstVictimOnCycle
  NoVictimMeansNoCycle
