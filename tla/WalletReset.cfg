\* Somebody signs in while a registration is still awaiting an answer.
SPECIFICATION Spec
CONSTANTS
  max = max
  una = una
  uwe = uwe
  NoDoc = NoDoc
  NoUser = NoUser
  NftOf <- OneNft
  Seeded <- MaxIsThere
  MaxNfts = 1
  Uid = {max, una}
  App = {a1}
  Patient = FALSE
  Closers = {}
  Deletable = {}
  MaxBusy = 1
PROPERTY OnlyNewDocuments
