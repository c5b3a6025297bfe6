CONSTANTS
  Tunnels = {web, dns}
  Udp = {dns}
  Local = {web}
  Links = {l1}
  MaxQueue = 2
  NoLink = NoLink
  NoTunnel = NoTunnel
SPECIFICATION FairSpec
INVARIANTS TypeOK ChannelsTracked
PROPERTY ConnectReturns
