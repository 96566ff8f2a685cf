\* max's lists may fail to load and his document may be deleted; una waits
\* for her uploads. Two pages may be busy and two reads overlap.
SPECIFICATION FairSpec
CONSTANTS
  NoPicture = NoPicture
  NoWallet = NoWallet
  Uid = {max, una}
  File = {f1}
  Picture = {p1}
  Deletable = {max}
  Patient = {una}
  Flaky = {max}
  MaxNfts = 2
  MaxBusy = 2
  MaxReads = 2
INVARIANTS TypeOK LinksResolve 
PROPERTIES  QuietWalletsSettle
