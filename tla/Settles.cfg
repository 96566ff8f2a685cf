\* One tab: nobody is left in front of a progress indicator.
SPECIFICATION FairSpec
CONSTANTS
  ada = ada
  una = una
  NoDoc = NoDoc
  NoUser = NoUser
  Uid = {ada, una}
  NftOf <- OneNftEach
  Session = {s1}
  Seeded <- EmptyWallets
  Buttons = {"delete", "role", "add", "edit"}
  Grants = {"manager"}
  Clients = {}
  Closers = {s1}
  MaxNfts = 1
  MaxInFlight = 1
  MaxStack = 3
PROPERTIES ListsSettle 
