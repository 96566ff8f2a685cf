\* People who wait: a registration only ever creates a document, and does.
SPECIFICATION FairSpec
CONSTANTS
  max = max
  una = una
  uwe = uwe
  NoDoc = NoDoc
  NoUser = NoUser
  NftOf <- OneNft
  Seeded <- MaxIsThere
  MaxNfts = 1
  Uid = {max, una, uwe}
  App = {a1, a2}
  Patient = TRUE
  Closers = {a2}
  Deletable = {max, una, uwe}
  MaxBusy = 1
PROPERTIES OnlyNewDocuments RegistrationIsAtomic AccountsGetDocuments
