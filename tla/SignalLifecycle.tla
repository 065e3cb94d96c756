-------------------------- MODULE SignalLifecycle --------------------------
(***************************************************************************)
(* The lifecycle monitor of open SWING, SPOT and GEM signals               *)
(* (src/signal_lifecycle.py).  Every minute it walks over a snapshot of    *)
(* the open signals; one whose interval has passed is assessed, gets an    *)
(* alert level, and its channel a message (and a chart) that is awaited,   *)
(* while signals open and close.                                           *)
(*                                                                         *)
(* An assessment is a traffic light, "none" when the data is missing.      *)
(* Progress towards the targets carries no light and is left out.          *)
(***************************************************************************)
EXTENDS Integers, FiniteSets

CONSTANTS
    Watched,    \* signals of the monitored channels
    Gems,       \* those of the GEM channel, which get a chart
    Interval    \* Interval[t]: LIFECYCLE_CHECK_INTERVAL in ticks

ASSUME LifecycleAssumption ==
    /\ IsFiniteSet(Watched) /\ Gems \subseteq Watched
    /\ Interval \in [Watched -> Nat \ {0}]

VARIABLES
    held,       \* router.active_signals
    past,       \* signals that are closed
    waited,     \* ticks since the last check, or the creation, of a signal
    alert,      \* lifecycle_alert_level of each signal
    round,      \* the rest of the snapshot of this round, {} outside a round
    checking,   \* the signal whose message is awaited: <<>> or <<t, step>>
    late        \* history: messages posted about a signal after its end

slVars == <<held, past, waited, alert, round, checking, late>>

SlInit ==
    /\ held = {} /\ past = {}
    /\ waited = [t \in Watched |-> 0]
    /\ alert = [t \in Watched |-> "GREEN"]
    /\ round = {} /\ checking = <<>>
    /\ late = [t \in Watched |-> 0]

-----------------------------------------------------------------------------
(* The assessments                                                         *)

Lights == {"none", "green", "yellow", "red"}
Slopes == {"with", "flat", "against"}
Drops == {"none", "small", "yellow", "red"}

(* What the market says about a trade: is there data, was the regime at    *)
(* its entry the present one, another or unknown, is the present one       *)
(* against it (a downtrend or high volatility for a LONG, an uptrend for a *)
(* SHORT), the EMA slope, a break of structure and the confidence lost.    *)
Markets ==
    [data : BOOLEAN, entry : {"same", "other", "unknown"}, against : BOOLEAN,
     slope : Slopes, broken : BOOLEAN, lost : Drops]

RegimeLight(m) ==
    IF ~ m.data THEN "none"
    ELSE IF m.entry \in {"same", "unknown"} THEN "green"
    ELSE IF m.against THEN "red" ELSE "yellow"

MomentumLight(m) ==
    IF ~ m.data THEN "none"
    ELSE [with |-> "green", flat |-> "yellow", against |-> "red"][m.slope]

StructureLight(m) ==
    IF ~ m.data THEN "none" ELSE IF m.broken THEN "red" ELSE "green"

ConfidenceLight(m) == IF m.lost \in {"yellow", "red"} THEN m.lost ELSE "none"

Assessments(m) == <<RegimeLight(m), MomentumLight(m), StructureLight(m), ConfidenceLight(m)>>
Lit(light, m) == Cardinality({i \in 1..4 : Assessments(m)[i] = light})

(* Two red lights are of two categories: each category has one light.      *)
ShouldClose(m) == Lit("red", m) >= 2

Level(m) ==
    CASE ShouldClose(m) -> "RED"
      [] ~ ShouldClose(m) /\ (Lit("red", m) = 1 \/ Lit("yellow", m) >= 2) -> "YELLOW"
      [] OTHER -> "GREEN"

Levels == {"GREEN", "YELLOW", "RED"}
Reachable == {Level(m) : m \in Markets}

-----------------------------------------------------------------------------
(* The monitor                                                             *)

Due(t) == waited[t] >= Interval[t]

SnapshotFaulty == held \cup past

(* The signals are copied once, at the start of the round.                 *)
Snapshot == held

RoundStarts ==
    /\ round = {} /\ checking = <<>>
    /\ held # {}
    /\ round' = Snapshot
    /\ UNCHANGED <<held, past, waited, alert, checking, late>>

NotDue(t) ==
    /\ checking = <<>>
    /\ t \in round /\ ~ Due(t)
    /\ round' = round \ {t}
    /\ UNCHANGED <<held, past, waited, alert, checking, late>>

(* update_signal changes a signal that is still open; the message goes out *)
(* in any case.                                                            *)
CheckSignal(t) ==
    /\ checking = <<>>
    /\ t \in round /\ Due(t)
    /\ round' = round \ {t}
    /\ IF t \in held
         THEN /\ alert' \in {[alert EXCEPT ![t] = v] : v \in Reachable}
              /\ waited' = [waited EXCEPT ![t] = 0]
         ELSE UNCHANGED <<alert, waited>>
    /\ checking' = <<t, "message">>
    /\ late' = [late EXCEPT ![t] = IF t \in past THEN @ + 1 ELSE @]
    /\ UNCHANGED <<held, past>>

(* The message is posted or has failed; a GEM signal's chart follows, when *)
(* there is enough data for one.                                           *)
Posted ==
    /\ checking # <<>> /\ checking[2] = "message"
    /\ checking' \in {<<>>} \cup {<<t, "chart">> : t \in Gems \cap {checking[1]}}
    /\ UNCHANGED <<held, past, waited, alert, round, late>>

ChartPosted ==
    /\ checking # <<>> /\ checking[2] = "chart"
    /\ checking' = <<>>
    /\ UNCHANGED <<held, past, waited, alert, round, late>>

-----------------------------------------------------------------------------
(* The router, the trade monitor and the clock                             *)

SignalOpens(t) ==
    /\ t \notin held \cup past
    /\ held' = held \cup {t}
    /\ UNCHANGED <<past, waited, alert, round, checking, late>>

SignalCloses(t) ==
    /\ t \in held
    /\ held' = held \ {t}
    /\ past' = past \cup {t}
    /\ UNCHANGED <<waited, alert, round, checking, late>>

LifeTick ==
    /\ waited' = [t \in Watched |->
         IF t \in held \cup past /\ ~ Due(t) THEN waited[t] + 1 ELSE waited[t]]
    /\ UNCHANGED <<held, past, alert, round, checking, late>>

SlNext ==
    \/ RoundStarts \/ Posted \/ ChartPosted \/ LifeTick
    \/ \E t \in Watched : NotDue(t) \/ CheckSignal(t) \/ SignalOpens(t) \/ SignalCloses(t)

SlSpec == SlInit /\ [][SlNext]_slVars

-----------------------------------------------------------------------------
SlTypeOK ==
    /\ held \subseteq Watched /\ past \subseteq Watched /\ round \subseteq Watched
    /\ waited \in [Watched -> Nat]
    /\ alert \in [Watched -> Levels]
    /\ checking \in {<<>>} \cup (Watched \X {"message", "chart"})
    /\ late \in [Watched -> Nat]

(* A signal may close while the messages of others are awaited, and its    *)
(* snapshot still holds it.  It gets one more update at most, however long *)
(* the messages take: nobody is advised again and again on a closed trade. *)
OneLateUpdate == \A t \in Watched : late[t] <= 1

(* The code's doc: "Evaluate all open signals that are due".               *)
OnlyOpenSignals == \A t \in Watched : late[t] = 0
=============================================================================
