SPECIFICATION FairSpec
CONSTANTS
  N = 3
  Pracownicy = {p1, p2, p3}
  ITERACJE = 1
  Nikt = Nikt
INVARIANTS TypeOK TowarZachowany
PROPERTIES PorzadekRosnie ZmianaSieKonczy
CHECK_DEADLOCK FALSE
