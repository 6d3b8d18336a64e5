SPECIFICATION Spec
CONSTANTS
  Wallets = {w1, w2, w3, w4}
  w1 = w1
  w2 = w2
  w3 = w3
  w4 = w4
  NoWallet = NoWallet
INVARIANTS
  OfferIsCurrent
PROPERTIES
  HandOverByOffer
CHECK_DEADLOCK FALSE
