SPECIFICATION Spec
CONSTANTS
  ann = ann
  ben = ben
  g1 = g1
  g2 = g2
  Persons = {ann, ben}
  PhoneOf <- Phones
  LidOf <- Lids
  CountryCode <- Code
  Groups = {g1, g2}
  Admins = {}
  MaxMoves = 2
  Messages = {m1}
  Incoming <- Arrivals
  Contents <- VariedContents
  Settings <- VariedSettings
INVARIANTS
  TypeOK
  OnlyAdmitted
  MembersHeard
  SenderTold
  EnvelopeAgrees
CHECK_DEADLOCK FALSE
