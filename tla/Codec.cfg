\* Answers of the backend with up to two tiers, cut, changed in one byte, or
\* sent twice; numbers of 5 bits a byte, 8 and 16 bits wide. The process ends
\* when the message is disposed of.
SPECIFICATION FairSpec
CONSTANTS
  GroupBits = 5
  Bits32 = 8
  Bits64 = 16
  Message <- Types
  Fields <- Descriptors
  ItemSize = 2
  Samples <- Mixed
  Root = "Response"
  Noise = {0, 2, 5, 9, 10, 16, 18, 26, 33, 63}
INVARIANTS DecoderTypeOK StaysInside Fits NothingLeaks FailuresHoldNothing SecondPassFits NumbersArrive RoundTrip
PROPERTIES Decides Shrinks
CHECK_DEADLOCK FALSE
