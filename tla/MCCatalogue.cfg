SPECIFICATION MCSpec
CONSTANTS
  pa = pa
  pb = pb
  pc = pc
  ann = ann
  bob = bob
  reader = reader
  Products = {pa, pb, pc}
  Shelf <- MCShelf
  Admins = {ann, bob}
  Readers = {reader}
  Amounts = {0, 1}
  Baskets <- MCBaskets
  FormLimit = 2
  PageSize = 1
  MaxWrites = 2
  NoForm = NoForm
SYMMETRY Symmetry
INVARIANTS
  TypeOK
  Accounted
  MissedOnlyByLeavers
  RepeatedOnlyByComers
