SPECIFICATION LiveSpec
CONSTANTS
  EL_SDES_INTERVAL = 1
  EL_PEER_STALE_SEC = 3
  FIRST_RELOGIN = 4
  LoginInterval = 4
  ListInterval = 4
  RTP_FRAMES = 1
  STICKY = 1
  CONF_TIMEOUT = 5
  RECONNECT_SEC = 2
  DirTime = 1
  MaxHeld = 0
  ProxyThread = {TRUE}
  DirectThread = {FALSE}
  Addrs = {1}
  MaxFaults = 1
PROPERTIES ProxyReconnects
CHECK_DEADLOCK FALSE
