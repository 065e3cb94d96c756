------------------------------ MODULE Scanner ------------------------------
(***************************************************************************)
(* The scan loop (src/scanner/__init__.py): every cycle it picks the pairs *)
(* of its turn, scans them as concurrent jobs under a semaphore, and waits *)
(* for all of them.  A job goes through the channels one after another;    *)
(* each candidate signal is checked, verified with awaits in between, and  *)
(* put on the signal queue.  The router takes signals from the queue and   *)
(* registers or drops them, trades end, and the clock goes on meanwhile.   *)
(*                                                                         *)
(* What the candle data says is a free choice: which candidates appear,    *)
(* and every verdict on them; SignalPipeline computes the verdicts.  The   *)
(* order-book spread cache is left out: the spread is part of the finding. *)
(***************************************************************************)
EXTENDS Integers, Sequences, FiniteSets

CONSTANTS
    Symbols,        \* PairManager.pairs
    Rank,           \* Rank[s]: position of s by 24 h volume, 1 is the largest
    Thin,           \* symbols below SCAN_MIN_VOLUME_USD
    ChannelOrder,       \* the channel strategies, in the order they are tried
    ScalpChannels,  \* _SCALP_CHANNELS
    Tier2Excluded,  \* channels a Tier 2 pair skips (360_SCALP)
    Patient,        \* channels that tolerate a volatile market (SPOT, GEM)
    Sides,
    Findings,       \* what a job may find, see FindingType
    Reranked,       \* symbols whose tier changes; the others stay Tier 1 (a bound)
    CycleMod,       \* cycles are counted modulo this common multiple
    Tier2Every,     \* TIER2_SCAN_EVERY_N_CYCLES
    Tier3Every,     \* TIER3_SCAN_EVERY_N_CYCLES
    MaxConcurrent,  \* _MAX_CONCURRENT_SCANS, permits of the semaphore
    DegradedPairs,  \* WS_DEGRADED_MAX_PAIRS
    Cooldown,       \* Cooldown[c]: SIGNAL_SCAN_COOLDOWN_SECONDS, in ticks
    ScalpCap,       \* MAX_CORRELATED_SCALP_SIGNALS
    Backlog,        \* signals the queue and the router hold at most
    NoJob           \* no candidate

ChannelSet == {ChannelOrder[i] : i \in DOMAIN ChannelOrder}

FindingType ==
    [quality : {"passes", "passes for channel", "fails"}, unsuitable : BOOLEAN,
     paused : BOOLEAN, tripped : BOOLEAN, weak_range : BOOLEAN,
     compatible : SUBSET ChannelSet]

ASSUME ScannerAssumption ==
    /\ IsFiniteSet(Symbols)
    /\ Rank \in [Symbols -> Nat \ {0}]
    /\ Thin \subseteq Symbols
    /\ ChannelOrder \in Seq(ChannelSet)
    /\ \A i, j \in DOMAIN ChannelOrder : ChannelOrder[i] = ChannelOrder[j] => i = j
    /\ ScalpChannels \subseteq ChannelSet
    /\ Findings \subseteq FindingType
    /\ Reranked \subseteq Symbols
    /\ CycleMod \in Nat \ {0}
    /\ Tier2Every \in Nat \ {0} /\ Tier3Every \in Nat \ {0}
    /\ MaxConcurrent \in Nat \ {0}
    /\ DegradedPairs \in Nat
    /\ Cooldown \in [ChannelSet -> Nat]
    /\ ScalpCap \in Nat \ {0}
    /\ Backlog \in Nat \ {0}

VARIABLES
    phase,      \* of the loop: "start", "prefetch", "jobs"
    cycle,      \* _scan_cycle_count modulo CycleMod
    slow,       \* the last cycle asks to skip Tier 2 and 3 (latency)
    picked,     \* the pairs of this cycle
    tier,       \* each pair's tier in PairManager
    job,        \* each pair's scan job: where it is suspended, with what
    permits,    \* free permits of _scan_semaphore
    cooldown,   \* _cooldown_until, as ticks that remain
    queue,      \* signals put and not yet decided by the router
    active,     \* router.active_signals
    since       \* history: ticks since a signal of (symbol, channel) was
                \* accepted, saturating at the channel's cooldown

loop == <<phase, cycle, slow, picked, tier>>
scVars == <<phase, cycle, slow, picked, tier, job, permits, cooldown, queue, active, since>>

Signal == [sym : Symbols, ch : ChannelSet, dir : Sides]
Sig(s, c, d) == [sym |-> s, ch |-> c, dir |-> d]

(* A job is "idle" (no job), "waiting" for the semaphore, in "context"     *)
(* (spread and on-chain data), or suspended with a candidate: in "verify"  *)
(* (other exchanges, AI insight), "put" (the signal is on its way into the *)
(* queue) or "pushed" (put() answers).  The predictive engine is awaited   *)
(* too, but never suspends: scoring and put() follow without a pause.      *)
Job(pc, x) == [pc |-> pc, sig |-> x]
Idle == Job("idle", NoJob)
Suspended == {"verify", "put", "pushed"}
Running(s) == job[s].pc \in {"context"} \cup Suspended

ScInit ==
    /\ phase = "start"
    /\ cycle = 0
    /\ slow = FALSE
    /\ picked = {}
    /\ tier = [s \in Symbols |-> 1]
    /\ job = [s \in Symbols |-> Idle]
    /\ permits = MaxConcurrent
    /\ cooldown = [s \in Symbols |-> [c \in ChannelSet |-> 0]]
    /\ queue = <<>>
    /\ active = {}
    /\ since = [s \in Symbols |-> [c \in ChannelSet |-> Cooldown[c]]]

-----------------------------------------------------------------------------
(* The loop                                                                *)

InCooldown(s, c) == cooldown[s][c] > 0
HasActive(act, s, c) == \E x \in act : x.sym = s /\ x.ch = c

(* Tier 1 is scanned every cycle, the others when it is their turn and     *)
(* the last cycle was not too slow.                                        *)
Turn(s, n) ==
    \/ tier[s] = 1
    \/ tier[s] = 2 /\ n % Tier2Every = 0 /\ ~ slow
    \/ tier[s] = 3 /\ n % Tier3Every = 0 /\ ~ slow

(* _prefilter_pairs: enough volume, and some channel that has no active    *)
(* signal and some channel that is not cooling down.                       *)
Worthwhile(act, s) ==
    /\ s \notin Thin
    /\ \E c \in ChannelSet : ~ HasActive(act, s, c)
    /\ \E c \in ChannelSet : ~ InCooldown(s, c)

(* With a WebSocket degraded only the pairs with the largest volume.       *)
Largest(S, n) == {s \in S : Cardinality({t \in S : Rank[t] < Rank[s]}) < n}

PickPairs(act, n, degraded) ==
    LET kept == {s \in Symbols : Turn(s, n) /\ Worthwhile(act, s)}
    IN  IF degraded THEN Largest(kept, DegradedPairs) ELSE kept

NextCycle == (cycle + 1) % CycleMod

(* The loop drops expired signals, finds the breaker tripped or both       *)
(* WebSocket managers unhealthy, sleeps and starts over.                   *)
CycleSkipped ==
    /\ phase = "start"
    /\ cycle' = NextCycle
    /\ active' \in SUBSET active
    /\ UNCHANGED <<phase, slow, picked, tier, job, permits, cooldown, queue, since>>

Launch(S) ==
    /\ phase' = "jobs"
    /\ job' = [s \in Symbols |-> IF s \in S THEN Job("waiting", NoJob) ELSE Idle]

(* Expired signals are dropped and the pairs picked.  All are scanned as   *)
(* jobs, in a degraded cycle after one request for all book tickers.       *)
CycleStarts ==
    /\ phase = "start"
    /\ cycle' = NextCycle
    /\ active' \in SUBSET active
    /\ \E degraded \in BOOLEAN :
         /\ picked' = PickPairs(active', NextCycle, degraded)
         /\ IF degraded
              THEN phase' = "prefetch" /\ UNCHANGED job
              ELSE Launch(picked')
    /\ UNCHANGED <<slow, tier, permits, cooldown, queue, since>>

(* The tickers are there, or the request failed or timed out.              *)
Prefetched ==
    /\ phase = "prefetch"
    /\ Launch(picked)
    /\ UNCHANGED <<cycle, slow, picked, tier, permits, cooldown, queue, active, since>>

(* All jobs have ended, with or without an exception.  When its interval   *)
(* has passed, the lightweight scan promotes Tier 3 pairs with a volume    *)
(* surge; the cycle's latency is noted.                                    *)
CycleEnds ==
    /\ phase = "jobs"
    /\ \A s \in Symbols : job[s] = Idle
    /\ phase' = "start"
    /\ slow' \in BOOLEAN
    /\ \E surging \in SUBSET {s \in Symbols : tier[s] = 3} :
         tier' = [s \in Symbols |-> IF s \in surging THEN 2 ELSE tier[s]]
    /\ UNCHANGED <<cycle, picked, job, permits, cooldown, queue, active, since>>

(* PairManager ranks the pairs anew.                                       *)
Retier(s) ==
    /\ s \in Reranked
    /\ \E t \in 1..3 \ {tier[s]} : tier' = [tier EXCEPT ![s] = t]
    /\ UNCHANGED <<phase, cycle, slow, picked, job, permits, cooldown, queue, active, since>>

-----------------------------------------------------------------------------
(* A scan job                                                              *)

(* _should_skip_channel, where x is what the job's context says.           *)
Skips(s, c, x) ==
    \/ tier[s] = 2 /\ c \in Tier2Excluded
    \/ x.quality = "fails"
    \/ x.unsuitable /\ c \notin Patient
    \/ x.paused
    \/ InCooldown(s, c)
    \/ x.tripped
    \/ HasActive(active, s, c)
    \/ x.weak_range /\ c \in Tier2Excluded
    \/ c \notin x.compatible

ScalpsOf(d) == {x \in active : x.ch \in ScalpChannels /\ x.dir = d}

(* The cap of correlated scalps counts the registered signals only.        *)
WithinScalpCap(c, d) == c \in ScalpChannels => Cardinality(ScalpsOf(d)) < ScalpCap

Position(c) == CHOOSE i \in DOMAIN ChannelOrder : ChannelOrder[i] = c

JobDone(s) ==
    /\ job' = [job EXCEPT ![s] = Idle]
    /\ permits' = permits + 1

(* The job goes on with the channels from position i on, without an await: *)
(* to a candidate that passes the gates of _prepare_signal and waits for   *)
(* the other exchanges or, a scalp, for the queue, or to its end.          *)
GoesOn(s, i) ==
    \/ JobDone(s)
    \/ /\ \E k \in i..Len(ChannelOrder), d \in Sides, x \in Findings :
            /\ ~ Skips(s, ChannelOrder[k], x)
            /\ WithinScalpCap(ChannelOrder[k], d)
            /\ job' = [job EXCEPT ![s] =
                 Job(IF ChannelOrder[k] \in ScalpChannels THEN "put" ELSE "verify",
                     Sig(s, ChannelOrder[k], d))]
       /\ UNCHANGED permits

NextChannel(s) == GoesOn(s, Position(job[s].sig.ch) + 1)

(* The job gets its permit.  A pair without candles is done at once.       *)
JobStarts(s) ==
    /\ job[s].pc = "waiting"
    /\ permits > 0
    /\ \/ /\ job' = [job EXCEPT ![s] = Job("context", NoJob)]
          /\ permits' = permits - 1
       \/ /\ job' = [job EXCEPT ![s] = Idle]
          /\ UNCHANGED permits
    /\ UNCHANGED <<phase, cycle, slow, picked, tier, cooldown, queue, active, since>>

(* Spread and on-chain data are there (or their fallbacks).                *)
ContextReady(s) ==
    /\ job[s].pc = "context"
    /\ GoesOn(s, 1)
    /\ UNCHANGED <<phase, cycle, slow, picked, tier, cooldown, queue, active, since>>

(* The other exchanges and the AI insight have answered: the scoring of    *)
(* SignalPipeline rejects the candidate, or put() is called.               *)
Verified(s) ==
    /\ job[s].pc = "verify"
    /\ \/ /\ job' = [job EXCEPT ![s].pc = "put"]
          /\ UNCHANGED permits
       \/ NextChannel(s)
    /\ UNCHANGED <<phase, cycle, slow, picked, tier, cooldown, queue, active, since>>

PushedFaulty(s) ==
    /\ job[s].pc = "put"
    /\ queue' = Append(queue, job[s].sig)
    /\ job' = [job EXCEPT ![s].pc = "pushed"]
    /\ UNCHANGED <<phase, cycle, slow, picked, tier, permits, cooldown, active, since>>

(* The signal is stored: from now on the router can see it.                *)
Pushed(s) ==
    /\ job[s].pc = "put"
    /\ Len(queue) < Backlog
    /\ queue' = Append(queue, job[s].sig)
    /\ job' = [job EXCEPT ![s].pc = "pushed"]
    /\ UNCHANGED <<phase, cycle, slow, picked, tier, permits, cooldown, active, since>>

AcceptedFaulty(s) ==
    /\ job[s].pc = "pushed"
    /\ since' = [since EXCEPT ![s][job[s].sig.ch] = 0]
    /\ NextChannel(s)
    /\ UNCHANGED <<phase, cycle, slow, picked, tier, cooldown, queue, active>>

(* put() returns True: only now the cooldown of (symbol, channel) starts.  *)
Accepted(s) ==
    /\ job[s].pc = "pushed"
    /\ LET c == job[s].sig.ch
       IN  /\ cooldown' = [cooldown EXCEPT ![s][c] = Cooldown[c]]
           /\ since' = [since EXCEPT ![s][c] = 0]
    /\ NextChannel(s)
    /\ UNCHANGED <<phase, cycle, slow, picked, tier, queue, active>>

(* put() returns False: the queue is full, or Redis failed, perhaps after  *)
(* it had stored the signal, and the fallback is full.                     *)
Refused(s) ==
    /\ job[s].pc \in {"put", "pushed"}
    /\ NextChannel(s)
    /\ UNCHANGED <<phase, cycle, slow, picked, tier, cooldown, queue, active, since>>

JobFailsFaulty(s) ==
    /\ job[s].pc \in {"context", "verify"}
    /\ job' = [job EXCEPT ![s] = Idle]
    /\ UNCHANGED <<phase, cycle, slow, picked, tier, permits, cooldown, queue, active, since>>

(* An exception ends the job: gather collects it, the permit is released.  *)
JobFails(s) ==
    /\ job[s].pc \in {"context", "verify"}
    /\ JobDone(s)
    /\ UNCHANGED <<phase, cycle, slow, picked, tier, cooldown, queue, active, since>>

-----------------------------------------------------------------------------
(* The router, the trade monitor and the clock                             *)

(* The router decides about its next signal: it registers it, when its     *)
(* symbol has no position, or drops it at one of its gates.                *)
RouterDecides ==
    /\ queue # <<>>
    /\ queue' = Tail(queue)
    /\ \/ /\ \A x \in active : x.sym # Head(queue).sym
          /\ active' = active \cup {Head(queue)}
       \/ UNCHANGED active
    /\ UNCHANGED <<phase, cycle, slow, picked, tier, job, permits, cooldown, since>>

TradeEnds ==
    /\ \E x \in active : active' = active \ {x}
    /\ UNCHANGED <<phase, cycle, slow, picked, tier, job, permits, cooldown, queue, since>>

Tick ==
    /\ cooldown' = [s \in Symbols |-> [c \in ChannelSet |->
                      IF InCooldown(s, c) THEN cooldown[s][c] - 1 ELSE 0]]
    /\ since' = [s \in Symbols |-> [c \in ChannelSet |->
                      IF since[s][c] < Cooldown[c] THEN since[s][c] + 1 ELSE Cooldown[c]]]
    /\ UNCHANGED <<phase, cycle, slow, picked, tier, job, permits, queue, active>>

JobStep(s) ==
    \/ JobStarts(s) \/ ContextReady(s) \/ Verified(s)
    \/ Pushed(s) \/ Accepted(s) \/ Refused(s) \/ JobFails(s)

LoopStep == CycleSkipped \/ CycleStarts \/ Prefetched \/ CycleEnds

ScNext ==
    \/ LoopStep
    \/ \E s \in Symbols : JobStep(s) \/ Retier(s)
    \/ RouterDecides \/ TradeEnds \/ Tick

ScSpec == ScInit /\ [][ScNext]_scVars

(* The event loop runs every coroutine that can go on, and every await of  *)
(* a job has a timeout or ends with its remote call.                       *)
ScFairSpec == ScSpec /\ WF_scVars(LoopStep) /\ \A s \in Symbols : WF_scVars(JobStep(s))

-----------------------------------------------------------------------------
Jobs ==
    {Idle, Job("waiting", NoJob), Job("context", NoJob)}
    \cup [pc : Suspended, sig : Signal]

ScTypeOK ==
    /\ phase \in {"start", "prefetch", "jobs"}
    /\ cycle \in 0..(CycleMod - 1)
    /\ slow \in BOOLEAN
    /\ picked \subseteq Symbols
    /\ tier \in [Symbols -> 1..3]
    /\ job \in [Symbols -> Jobs]
    /\ permits \in 0..MaxConcurrent
    /\ cooldown \in [Symbols -> [ChannelSet -> Nat]]
    /\ queue \in Seq(Signal)
    /\ active \subseteq Signal
    /\ since \in [Symbols -> [ChannelSet -> Nat]]

(* A pair's channel cools down exactly from an accepted signal on ("after  *)
(* the signal has been accepted by the queue"), and no candidate is under  *)
(* way while it does: two accepted signals of a pair and channel are a     *)
(* whole cooldown apart although the cooldown is checked before the awaits *)
(* of a candidate and set after them.                                      *)
SignalsSpaced ==
    \A s \in Symbols :
      /\ \A c \in ChannelSet : cooldown[s][c] = Cooldown[c] - since[s][c]
      /\ job[s].pc \in Suspended => since[s][job[s].sig.ch] = Cooldown[job[s].sig.ch]

(* The cap of correlated scalps is checked against the registered signals, *)
(* while other candidates are under way and signals wait in the queue.     *)
(* So it is overshot, but by no more than these: what is open, queued and  *)
(* under way in one direction is bounded.                                  *)
QueuedScalps(d) == {i \in DOMAIN queue : queue[i].ch \in ScalpChannels /\ queue[i].dir = d}
CandidateScalps(d) ==
    {s \in Symbols : /\ job[s].pc \in {"verify", "put"}
                     /\ job[s].sig.ch \in ScalpChannels
                     /\ job[s].sig.dir = d}

ScalpOvershootBounded ==
    \A d \in Sides :
      Cardinality(ScalpsOf(d)) + Cardinality(QueuedScalps(d)) + Cardinality(CandidateScalps(d))
        <= ScalpCap - 1 + Backlog + MaxConcurrent

(* The loop comes back to its start, where it checks the breaker and the   *)
(* WebSockets, out of every cycle: no job keeps its permit, and no queue   *)
(* that is full or router that hangs holds the gather up.                  *)
EveryCycleEnds == phase # "start" ~> phase = "start"

(* What config/__init__.py says of MAX_CORRELATED_SCALP_SIGNALS: the       *)
(* maximum of same-direction active scalp signals allowed concurrently.    *)
ScalpCapRespected == \A d \in Sides : Cardinality(ScalpsOf(d)) <= ScalpCap
=============================================================================
