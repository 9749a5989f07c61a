SPECIFICATION FairSpec
CONSTANTS
  b1 = b1
  b2 = b2
  b3 = b3
  i1 = i1
  Bills = {b1, b2, b3}
  Invoices = {i1}
  Handlers = {h1, h2}
  Gateway <- MCGateway
  Target <- MCTarget
  Total <- MCTotal
  Price <- MCPrice
  Subscription = Subscription
  Nobody = Nobody
  MaxFaults = 2
CHECK_DEADLOCK FALSE
INVARIANTS SettledOnce  PaymentBacked PaidCheckIsClosed
PROPERTIES OnlyStaleReadOverpays SettledIsFinal AtMostOnce 
