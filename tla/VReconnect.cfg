CONSTANTS
  Tunnels = {web}
  Udp = {}
  Local = {}
  Links = {l1, l2}
  MaxQueue = 2
  NoLink = NoLink
  NoTunnel = NoTunnel
SPECIFICATION FairSpec
PROPERTY ReconnectRestores
