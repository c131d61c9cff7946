------------------------ MODULE MC_HandshakeAdmission ------------------------
EXTENDS HandshakeAdmission, TLC

CONSTANTS h1, h2, h3

\* A tick of 2^14 ms: four of them pass the u16 limit of 65535 ms.
MCStep == 16384
MCMaxClock == 4 * 16384

\* A configured handshake_timeout of 70 s, past the u16 range.
MCTimeoutPastU16 == 70000
=============================================================================
