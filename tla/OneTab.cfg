\* One tab beside the wallet app: each button takes effect at once, a role
\* change may replace any page from below, and nothing deleted comes back.
SPECIFICATION Spec
CONSTANTS
  ada = ada
  una = una
  NoDoc = NoDoc
  NoUser = NoUser
  Uid = {ada, una}
  NftOf <- OneNftOfUna
  Session = {s1}
  Seeded <- UnaIsNew
  Buttons = {"delete", "role", "add", "remove"}
  Grants = {"manager"}
  Clients = {una}
  Closers = {}
  MaxNfts = 1
  MaxInFlight = 2
  MaxStack = 3
INVARIANTS TypeOK LeavesOnTheirList  WalletsSeparate
  
