----------------------- MODULE HandshakeAdmissionProofs -----------------------
(***************************************************************************)
(* Proofs about the admission of v5 handshakes for every set of            *)
(* connections, queue limit, tick and time bound that the listener         *)
(* configuration allows: the type invariant.  That the timeout check       *)
(* refuses no handshake early is false past 65535 ms (run                  *)
(* handshake_timeout_saturates), so it is not stated here.                 *)
(***************************************************************************)
EXTENDS HandshakeAdmission, TLAPS

LEMMA InitTypeOK == AdmissionAssumption /\ Init => TypeOK
BY DEF AdmissionAssumption, Init, TypeOK

LEMMA NextTypeOK == AdmissionAssumption /\ TypeOK /\ [Next]_vars => TypeOK'
<1> SUFFICES ASSUME AdmissionAssumption, TypeOK, [Next]_vars PROVE TypeOK'
    OBVIOUS
<1>1. ASSUME NEW c \in Conn, Arrive(c) PROVE TypeOK'
    BY <1>1 DEF Arrive, TypeOK
<1>2. ASSUME NEW c \in Conn, Start(c) PROVE TypeOK'
    BY <1>2 DEF Start, TypeOK, Ended
<1>3. ASSUME NEW c \in Conn, Finish(c) PROVE TypeOK'
    BY <1>3 DEF Finish, TypeOK, Ended
<1>4. CASE Tick
    BY <1>4 DEF Tick, TypeOK, AdmissionAssumption
<1>5. CASE UNCHANGED vars
    BY <1>5 DEF vars, TypeOK
<1>. QED
    BY <1>1, <1>2, <1>3, <1>4, <1>5 DEF Next, Horizon

(***************************************************************************)
(* Every reachable state is well typed: the clock and every start time,    *)
(* read from chrono::Local::now() when the CONNECT arrives, stay within    *)
(* the modelled time, and every handshake is in one of its phases.         *)
(***************************************************************************)
THEOREM AdmissionTypeCorrect ==
    ASSUME AdmissionAssumption
    PROVE  Spec => []TypeOK
<1>1. Init => TypeOK
    BY InitTypeOK
<1>2. TypeOK /\ [Next]_vars => TypeOK'
    BY NextTypeOK
<1>. QED
    BY <1>1, <1>2, PTL DEF Spec
=============================================================================
