\* Two pictures of one name.
SPECIFICATION Spec
CONSTANTS
  NoPicture = NoPicture
  NoWallet = NoWallet
  Uid = {max, una}
  File = {f1}
  Picture = {p1, p2}
  Deletable = {}
  Patient = {max, una}
  Flaky = {}
  MaxNfts = 1
  MaxBusy = 1
  MaxReads = 2
INVARIANT PicturesKept
