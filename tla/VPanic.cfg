CONSTANTS
  Tunnels = {web, dns}
  Udp = {dns}
  Local = {web}
  Links = {l1, l2}
  MaxQueue = 2
  NoLink = NoLink
  NoTunnel = NoTunnel
SPECIFICATION Spec
INVARIANT SurvivesDisconnect
