\* People who do not wait: registrations and sign-ins of one app overlap.
SPECIFICATION Spec
CONSTANTS
  max = max
  una = una
  uwe = uwe
  NoDoc = NoDoc
  NoUser = NoUser
  NftOf <- OneNft
  Seeded <- MaxIsThere
  MaxNfts = 1
  Uid = {max, una, uwe}
  App = {a1}
  Patient = FALSE
  Closers = {a1}
  Deletable = {max, una, uwe}
  MaxBusy = 2
INVARIANTS TypeOK DocumentsHaveAccounts
SYMMETRY Alike
