\* A listener configured with handshake_timeout = 70s: four ticks of 16.4 s
\* pass 65535 ms but not the configured time.
CONSTANTS
    h1 = h1
    h2 = h2
    h3 = h3
    Conn = {h1, h2, h3}
    Limit = 2
    CfgTimeout <- MCTimeoutPastU16
    Step <- MCStep
    MaxClock <- MCMaxClock
SPECIFICATION Spec
PROPERTY NoEarlyTimeout
