SPECIFICATION FairSpec
CONSTANTS
  a = a
  b = b
  p = p
  NoIP = NoIP
  Loop = loop
  Workers = {w1}
  IP = {a}
  Protected = {}
  Ttls = {1}
  MaxActive = 1
  MaxTime = 3
PROPERTIES ExpiredBanLifted 
