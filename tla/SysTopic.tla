------------------------------ MODULE SysTopic ------------------------------
(***************************************************************************)
(* The $SYS topic plugin (rmqtt-sys-topic/src/lib.rs).  Its hook handler   *)
(* turns each session and client event (created, connected, subscribed,   *)
(* unsubscribed, message dropped, disconnected, terminated) into a         *)
(* $SYS/brokers/<node>/... message and publishes it from a task of its own *)
(* (spawn(sys_publish(..)), lib.rs:376); a background loop publishes the   *)
(* node's stats and metrics every publish_interval (at least 1 s) while    *)
(* the plugin runs.  start()/stop() switch the hooks and the loop's        *)
(* running flag.  Messages and topics are abstracted to the event they     *)
(* report: <<client, index of the event in the client's life>>.            *)
(***************************************************************************)
EXTENDS Naturals, Sequences, FiniteSets

CONSTANTS
    Client,     \* clients whose events are reported
    MaxRounds   \* stats rounds of the background loop that are modelled

\* The events of one client's life, in the order the broker raises them.
Life == <<"created", "connected", "subscribed", "dropped",
          "unsubscribed", "disconnected", "terminated">>

VARIABLES
    running,  \* the plugin is started: hooks registered and running = true
    step,     \* step[c]: how many of c's events the broker has raised
    tasks,    \* spawned sys_publish tasks, each with its event
    pubd,     \* pubd[c]: indexes of c's events published to $SYS
    loop,     \* where the stats loop is: asleep, or before stats/metrics
    rounds    \* stats rounds published

vars == <<running, step, tasks, pubd, loop, rounds>>

Event == Client \X (1..Len(Life))

TypeOK ==
    /\ running \in BOOLEAN
    /\ step \in [Client -> 0..Len(Life)]
    /\ tasks \subseteq Event
    /\ pubd \in [Client -> SUBSET (1..Len(Life))]
    /\ loop \in {"sleep", "stats", "metrics"}
    /\ rounds \in 0..MaxRounds

\* init(): the hooks are added and the loop spawned; start() not yet called.
Init ==
    /\ running = FALSE
    /\ step = [c \in Client |-> 0]
    /\ tasks = {}
    /\ pubd = [c \in Client |-> {}]
    /\ loop = "sleep"
    /\ rounds = 0

\* Plugin::start: register.start() and running.store(true).
Start ==
    /\ ~running
    /\ running' = TRUE
    /\ UNCHANGED <<step, tasks, pubd, loop, rounds>>

\* Plugin::stop: register.stop() and running.store(false).
Stop ==
    /\ running
    /\ running' = FALSE
    /\ UNCHANGED <<step, tasks, pubd, loop, rounds>>

(***************************************************************************)
(* The broker raises the next event of client c.  While the plugin runs,   *)
(* its hook matches the event type, reads the config and spawns            *)
(* sys_publish; while it is stopped, the hook is not called.               *)
(***************************************************************************)
Raise(c) ==
    /\ step[c] < Len(Life)
    /\ step' = [step EXCEPT ![c] = @ + 1]
    /\ tasks' = IF running THEN tasks \cup {<<c, step[c] + 1>>} ELSE tasks
    /\ UNCHANGED <<running, pubd, loop, rounds>>

(***************************************************************************)
(* sys_publish of one event: the JSON payload is serialised, the           *)
(* message_publish hook runs and SessionState::forwards delivers the       *)
(* message to the $SYS subscribers.  Tasks run in any order.               *)
(***************************************************************************)
Publish(t) ==
    /\ t \in tasks
    /\ tasks' = tasks \ {t}
    /\ pubd' = [pubd EXCEPT ![t[1]] = @ \cup {t[2]}]
    /\ UNCHANGED <<running, step, loop, rounds>>

(***************************************************************************)
(* The stats loop: sleep(max(publish_interval, 1 s)); then, if running,    *)
(* send_stats and send_metrics, two awaits in a row.                       *)
(***************************************************************************)
LoopWake ==
    /\ loop = "sleep"
    /\ rounds < MaxRounds
    /\ loop' = IF running THEN "stats" ELSE "sleep"
    /\ rounds' = IF running THEN rounds + 1 ELSE rounds
    /\ UNCHANGED <<running, step, tasks, pubd>>

SendStats ==
    /\ loop = "stats"
    /\ loop' = "metrics"
    /\ UNCHANGED <<running, step, tasks, pubd, rounds>>

SendMetrics ==
    /\ loop = "metrics"
    /\ loop' = "sleep"
    /\ UNCHANGED <<running, step, tasks, pubd, rounds>>

\* Every event raised and published, and the loop's modelled rounds done.
Done ==
    /\ \A c \in Client : step[c] = Len(Life)
    /\ tasks = {}
    /\ loop = "sleep"
    /\ UNCHANGED vars

Next ==
    \/ Start \/ Stop
    \/ \E c \in Client : Raise(c)
    \/ \E t \in tasks : Publish(t)
    \/ LoopWake \/ SendStats \/ SendMetrics
    \/ Done

Spec == Init /\ [][Next]_vars

-----------------------------------------------------------------------------
(***************************************************************************)
(* EventsInOrder: a $SYS subscriber receives the events of one client in   *)
(* the order they happened (connected before disconnected, subscribed      *)
(* before unsubscribed): no newly published event precedes one already    *)
(* published.                                                              *)
(***************************************************************************)
EventsInOrder ==
    [][\A c \in Client : \A i \in pubd'[c] \ pubd[c] : \A j \in pubd[c] : j < i]_vars
=============================================================================
