------------------------- MODULE HandshakeAdmission -------------------------
(***************************************************************************)
(* Admission of MQTT v5 handshakes (rmqtt/src/broker/v5.rs, handshake):    *)
(* the start time is taken when the CONNECT arrives, the handshake future  *)
(* is spawned on the listening port's exec queue, which runs at most       *)
(* max_handshaking_limit of them at once, and when the future starts it    *)
(* refuses the handshake if more than listen_cfg.handshake_timeout() ms    *)
(* have passed.  handshake_timeout() (settings/listener.rs) converts the   *)
(* configured Duration to u16 milliseconds, saturating at 0xffff.          *)
(* _handshake itself (authentication, lock, kick, commit) is one step      *)
(* here, ending accepted or refused; ClusterSession models its inside.     *)
(* Time is a clock in milliseconds advanced by Step.                       *)
(***************************************************************************)
EXTENDS Naturals, FiniteSets

CONSTANTS
    Conn,        \* incoming connections on one listening port
    Limit,       \* max_handshaking_limit: the exec queue's concurrency
    CfgTimeout,  \* the configured handshake_timeout, in ms
    Step,        \* ms the clock advances per tick
    MaxClock     \* the end of the modelled time

\* What the listener configuration guarantees of the constants.
AdmissionAssumption ==
    /\ IsFiniteSet(Conn)
    /\ Limit \in Nat \ {0}
    /\ CfgTimeout \in Nat
    /\ Step \in Nat \ {0}
    /\ MaxClock \in Nat

\* Listener::handshake_timeout: the Duration as u16 milliseconds, saturated.
HandshakeTimeout ==
    IF CfgTimeout > 65535 THEN 65535 ELSE CfgTimeout

Ended == {"accepted", "refused", "timedout"}

VARIABLES
    clock,   \* chrono::Local::now(), in ms
    pc,      \* pc[c]: where connection c's handshake is
    start    \* start[c]: the time its CONNECT arrived

vars == <<clock, pc, start>>

\* The futures the exec queue is running.
Running == {c \in Conn : pc[c] = "running"}

TypeOK ==
    /\ clock \in 0..MaxClock
    /\ pc \in [Conn -> {"idle", "queued", "running"} \cup Ended]
    /\ start \in [Conn -> 0..MaxClock]

Init ==
    /\ clock = 0
    /\ pc = [c \in Conn |-> "idle"]
    /\ start = [c \in Conn |-> 0]

\* handshake(): the start time is read and the future is spawned.
Arrive(c) ==
    /\ pc[c] = "idle"
    /\ pc' = [pc EXCEPT ![c] = "queued"]
    /\ start' = [start EXCEPT ![c] = clock]
    /\ UNCHANGED clock

(***************************************************************************)
(* The exec queue starts the future when a slot is free; its first act is  *)
(* the elapsed-time check, which ends it as "execute handshake timeout".   *)
(***************************************************************************)
Start(c) ==
    /\ pc[c] = "queued"
    /\ Cardinality(Running) < Limit
    /\ pc' = [pc EXCEPT ![c] =
                IF clock - start[c] > HandshakeTimeout THEN "timedout" ELSE "running"]
    /\ UNCHANGED <<clock, start>>

\* _handshake returns: a ConnectAck of success or a refusal.
Finish(c) ==
    /\ pc[c] = "running"
    /\ \E r \in {"accepted", "refused"} : pc' = [pc EXCEPT ![c] = r]
    /\ UNCHANGED <<clock, start>>

\* Time passes.
Tick ==
    /\ clock + Step <= MaxClock
    /\ clock' = clock + Step
    /\ UNCHANGED <<pc, start>>

\* The end of the modelled time, or every handshake has ended.
Horizon ==
    /\ clock + Step > MaxClock \/ \A c \in Conn : pc[c] \in Ended
    /\ UNCHANGED vars

Next ==
    \/ \E c \in Conn : Arrive(c) \/ Start(c) \/ Finish(c)
    \/ Tick
    \/ Horizon

Spec == Init /\ [][Next]_vars

-----------------------------------------------------------------------------
(***************************************************************************)
(* NoEarlyTimeout: a handshake is refused as timed out only after waiting  *)
(* longer than the configured handshake timeout (spec, handshake step 1).  *)
(* The check at v5.rs:65 compares with Listener::handshake_timeout, which  *)
(* saturates at 65535 ms, so a longer configured timeout refuses early.    *)
(***************************************************************************)
NoEarlyTimeout ==
    [][\A c \in Conn : pc'[c] = "timedout" /\ pc[c] # "timedout"
                          => clock - start[c] > CfgTimeout]_vars
=============================================================================
