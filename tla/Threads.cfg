CONSTANTS
  Konta = {"A", "B"}
  Kwoty = {2}
  INITIAL_BALANCE = 2
  ITERATIONS <- MCITERATIONS
  NUM_THREADS = 2
  Adiutanci = {"a1", "a2"}
  Tresc <- MCTresc
  STACK_SIZE = 2
  DIVISION_NAMES_SIZE = 1
  Wiersze = {0, 1}
  Kolumny = {0}
  Producenci = {"p1", "p2"}
  Konsumenci = {"k1", "k2"}
  BUFFER_SIZE = 2
  OBROTY = 3
  Czytelnicy = {"c1", "c2", "c3"}
  Pisarze = {"s1", "s2"}
  N = 3
  POSILKI = 2
SPECIFICATION Spec
INVARIANTS ZamkiChronia NiktNiePrzespi TylkoKrag
PROPERTIES KolejkiFifo WszyscyKoncza
CHECK_DEADLOCK FALSE
