SPECIFICATION Spec
CONSTANTS
  ann = ann
  bot = bot
  Persons = {ann, bot}
  PhoneOf <- Phones
  LidOf <- Lids
  CountryCode <- Code
  Groups = {g1}
  Admins = {ann, bot}
  MaxMoves = 2
  Queries = {q1}
  Bot = bot
  MaxAttempts = 4
  Alphabet <- Characters
  MaxLength = 5
INVARIANTS
  TypeOK
  MembersOnly
  MembersKnown
  OwnAdmin
  PhonesRight
PROPERTIES
  Answered
CHECK_DEADLOCK FALSE
