\* Deleting by position while the page still shows the NFT it removed.
SPECIFICATION Spec
CONSTANTS
  ada = ada
  una = una
  NoDoc = NoDoc
  NoUser = NoUser
  Uid = {ada, una}
  NftOf <- NftsOfUna
  Session = {s1}
  Seeded <- UnaCollects
  Buttons = {"remove"}
  Grants = {"manager"}
  Clients = {}
  Closers = {}
  MaxNfts = 2
  MaxInFlight = 2
  MaxStack = 3
PROPERTY RemovesWhatIsShown
