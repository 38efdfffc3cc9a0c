SPECIFICATION MCSpec
CONSTANTS
  r1 = r1
  r2 = r2
  q1 = q1
  q2 = q2
  h1 = h1
  h2 = h2
  Runners = {r1, r2}
  Recoverers = {q1, q2}
  Hosts = {h1, h2}
  Nobody = Nobody
  Duration = 2
  Window = 3
  Drain = 1
  Latency = 1
  MaxFaults = 2
INVARIANTS ReceiptTrue OneOwner
PROPERTIES WriteOwned Recovered
