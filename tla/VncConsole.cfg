SPECIFICATION FairSpec
CONSTANTS
  Vms = {v1, v2}
  Ports = {p1, p2}
  Tickets = {t1, t2}
  Requests = {r1, r2}
  Lifetime = 2
  Off = Off
  NoPort = NoPort
  NoTicket = NoTicket
INVARIANTS
  RightGuest
PROPERTIES
  TicketsHonoured
  
