SPECIFICATION Spec
CONSTANTS
  ann = ann
  ben = ben
  eve = eve
  Persons = {ann, ben, eve}
  PhoneOf <- Phones
  LidOf <- Lids
  CountryCode <- Code
  Groups = {g1}
  Group = g1
  Admins = {}
  MaxMoves = 3
  Sweeps = {s1, s2}
  Approved = {ann, ben}
  Written <- Spellings
INVARIANTS
  TypeOK
  OnlyListedLetIn
  ListedRecognised
  NobodyStranded
CHECK_DEADLOCK FALSE
