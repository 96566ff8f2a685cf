\* The texts are read after the picture was put.
SPECIFICATION Spec
CONSTANTS
  NoPicture = NoPicture
  NoWallet = NoWallet
  Uid = {una}
  File = {f1}
  Picture = {p1}
  Deletable = {}
  Patient = {una}
  Flaky = {}
  MaxNfts = 1
  MaxBusy = 1
  MaxReads = 2
INVARIANT TextsAreThere
