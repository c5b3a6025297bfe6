CONSTANTS
  Tunnels = {dns, ntp}
  Udp = {dns, ntp}
  Local = {dns, ntp}
  Links = {l1}
  MaxQueue = 2
  NoLink = NoLink
  NoTunnel = NoTunnel
SPECIFICATION Spec
INVARIANT ChannelIsOwn
