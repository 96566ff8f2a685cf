\* A role change written back over a wallet that an upload has changed.
SPECIFICATION Spec
CONSTANTS
  ada = ada
  una = una
  NoDoc = NoDoc
  NoUser = NoUser
  Uid = {ada, una}
  NftOf <- NftsOfUna
  Session = {s1}
  Seeded <- EmptyWallets
  Buttons = {"role"}
  Grants = {"manager"}
  Clients = {una}
  Closers = {}
  MaxNfts = 2
  MaxInFlight = 2
  MaxStack = 3
PROPERTY UploadsKept
