\* Two requests at a time on two suggestions, while servers come and go.
SPECIFICATION Spec
CONSTANTS
  Sids = {s1, s2}
  Hosts = {h1, h2}
  NoHost = NoHost
  NoSid = NoSid
  Requests = {r1, r2}
INVARIANTS OpenUnique ApprovedWasTracked ApprovalsMatchServers
PROPERTY ApprovalsStand
