SPECIFICATION FairSpec
CONSTANTS
  MaxFires = 2
  MaxLosses = 2
  MaxTenures = 3
  MaxFaults = 1
  Refused = {1}
  Lapses = FALSE
INVARIANTS TypeOK HandledOnce FiredOrder NoAppendLost
PROPERTIES SentOrder DeliveredIsHandled AppendsHandled
