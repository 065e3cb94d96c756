-------------------------- MODULE ScanningProofs --------------------------
(***************************************************************************)
(* Theorems about the scan loop, the way of a signal through one scan and  *)
(* the regime detector the scans ask.                                      *)
(*                                                                         *)
(* The scan loop (Scanner): the signals of a symbol on a channel are       *)
(* spaced by the channel's cooldown, and the scalp cap, which a job reads  *)
(* before it verifies and puts its candidate, is overshot by a bounded     *)
(* number.  For the first, a job that is suspended over a candidate has    *)
(* found its channel cool, and no other job is of that symbol.  For the    *)
(* second, the scalps of a direction are counted where they are: as        *)
(* candidates, in the queue and among the active signals.  A candidate     *)
(* moves from one count to the next and a new one enters only while the    *)
(* active ones are below the cap; the permits bound the candidates and the *)
(* capacity bounds the queue.                                              *)
(*                                                                         *)
(* One scan (SignalPipeline): a signal that is handed to the queue has     *)
(* earned its tier, has its levels in order and goes against no open       *)
(* position.  The tier is one of four bands of a number, so that most      *)
(* lemmas say that a score, a level or a ratio is a number for whatever a  *)
(* scan may find: no division is by zero and no minimum is of nothing.     *)
(* The order of the levels rests on the plan: its targets lie at multiples *)
(* of the risk that rounding to a whole price does not bring together.     *)
(*                                                                         *)
(* The regime detector (RegimeDetector): the count of a pending regime is  *)
(* the length of the row of equal readings the history ends with.          *)
(***************************************************************************)
EXTENDS Scanner, SignalPipeline, RegimeDetector, SequenceTheorems, FiniteSetTheorems,
        WellFoundedInduction, TLAPS

-----------------------------------------------------------------------------
(***************************************************************************)
(* Scanner: the spacing of the signals                                     *)
(***************************************************************************)

(* Types, with what the history variable since counts.                     *)
ScanTypes ==
    /\ job \in [Symbols -> Jobs]
    /\ cooldown \in [Symbols -> [ChannelSet -> Nat]]
    /\ since \in [Symbols -> [ChannelSet -> Nat]]
    /\ queue \in Seq(Signal)

(* The inductive invariant of the spacing: a cooldown and the time since   *)
(* its start add up, and a job is suspended over a candidate only on a     *)
(* channel that is not cooling down.                                       *)
Spacing ==
    \A s \in Symbols :
      /\ \A c \in ChannelSet : since[s][c] <= Cooldown[c] /\ cooldown[s][c] = Cooldown[c] - since[s][c]
      /\ job[s].pc \in Suspended => since[s][job[s].sig.ch] = Cooldown[job[s].sig.ch]

(* A channel has one place in the order of the channels.                   *)
LEMMA OrderedChannels ==
    /\ \A i \in DOMAIN ChannelOrder : ChannelOrder[i] \in ChannelSet
    /\ \A c \in ChannelSet : Position(c) \in DOMAIN ChannelOrder /\ ChannelOrder[Position(c)] = c
    /\ \A c \in ChannelSet : \A k \in (Position(c) + 1)..Len(ChannelOrder) :
         k \in DOMAIN ChannelOrder /\ ChannelOrder[k] # c
    /\ DOMAIN ChannelOrder = 1..Len(ChannelOrder) /\ Len(ChannelOrder) \in Nat
<1>1. DOMAIN ChannelOrder = 1..Len(ChannelOrder) /\ Len(ChannelOrder) \in Nat
    BY ScannerAssumption
<1>2. \A c \in ChannelSet : Position(c) \in DOMAIN ChannelOrder /\ ChannelOrder[Position(c)] = c
    BY DEF ChannelSet, Position
<1>3. ASSUME NEW c \in ChannelSet, NEW k \in (Position(c) + 1)..Len(ChannelOrder)
      PROVE  k \in DOMAIN ChannelOrder /\ ChannelOrder[k] # c
    <2>1. Position(c) \in 1..Len(ChannelOrder) /\ k \in DOMAIN ChannelOrder /\ k # Position(c)
        BY <1>1, <1>2
    <2> QED
        BY <1>2, <2>1, ScannerAssumption
<1> QED
    BY <1>1, <1>2, <1>3 DEF ChannelSet

(* The shapes of a job.                                                    *)
LEMMA JobTypes ==
    ASSUME NEW j \in Jobs
    PROVE  /\ j.pc \in {"idle", "waiting", "context", "verify", "put", "pushed"}
           /\ j.pc \in Suspended => j.sig \in Signal /\ j = Job(j.pc, j.sig)
           /\ j.pc \in Suspended => j.sig.ch \in ChannelSet /\ j.sig.dir \in Sides
           /\ j.pc = "idle" => j = Idle
BY DEF Jobs, Idle, Job, Suspended, Signal

(* A job that goes on: it ends, or proposes a candidate of a later channel *)
(* that is neither cooling down nor against the cap.                       *)
GoesOnTo(s, i) ==
    \/ job'[s] = Idle /\ permits' = permits + 1
    \/ \E k \in i..Len(ChannelOrder), d \in Sides :
         /\ ~ InCooldown(s, ChannelOrder[k])
         /\ WithinScalpCap(ChannelOrder[k], d)
         /\ \E pc \in {"put", "verify"} : job'[s] = Job(pc, Sig(s, ChannelOrder[k], d))
         /\ permits' = permits

(* A job that goes on touches no other symbol's job.                       *)
LEMMA GoesOnJob ==
    ASSUME job \in [Symbols -> Jobs], NEW s \in Symbols, NEW i \in Nat \ {0}, GoesOn(s, i)
    PROVE  /\ job' \in [Symbols -> Jobs]
           /\ \A t \in Symbols : t # s => job'[t] = job[t]
           /\ GoesOnTo(s, i)
<1>1. CASE JobDone(s)
    BY <1>1 DEF JobDone, GoesOnTo, Jobs
<1>2. ASSUME NEW k \in i..Len(ChannelOrder), NEW d \in Sides, NEW x \in Findings,
             ~ Skips(s, ChannelOrder[k], x), WithinScalpCap(ChannelOrder[k], d),
             job' = [job EXCEPT ![s] =
                       Job(IF ChannelOrder[k] \in ScalpChannels THEN "put" ELSE "verify",
                           Sig(s, ChannelOrder[k], d))],
             UNCHANGED permits
      PROVE  /\ job' \in [Symbols -> Jobs]
             /\ \A t \in Symbols : t # s => job'[t] = job[t]
             /\ GoesOnTo(s, i)
    <2> DEFINE pc == IF ChannelOrder[k] \in ScalpChannels THEN "put" ELSE "verify"
               new == Job(pc, Sig(s, ChannelOrder[k], d))
    <2>1. k \in DOMAIN ChannelOrder
        BY OrderedChannels
    <2>2. pc \in {"put", "verify"} /\ ChannelOrder[k] \in ChannelSet
        BY <2>1, OrderedChannels
    <2>3. new \in Jobs
        BY <2>2 DEF Jobs, Job, Sig, Signal, Suspended
    <2>4. ~ InCooldown(s, ChannelOrder[k])
        BY <1>2 DEF Skips
    <2>5. job' = [job EXCEPT ![s] = new]
        BY <1>2
    <2> HIDE DEF pc
    <2> QED
        BY <1>2, <2>2, <2>3, <2>4, <2>5 DEF GoesOnTo
<1> QED
    BY <1>1, <1>2 DEF GoesOn

(* At the start no job runs and no channel cools down.                     *)
LEMMA ScanInitInv == ScInit => ScanTypes /\ Spacing
BY ScannerAssumption DEF ScInit, ScanTypes, Spacing, Jobs, Idle, Job, Suspended

(* Every step of the scan loop and its jobs keeps the types.               *)
LEMMA TypesStep ==
    ASSUME ScanTypes, [ScNext]_scVars
    PROVE  ScanTypes'
<1> USE DEF ScanTypes
<1>1. CASE CycleSkipped \/ CycleEnds \/ TradeEnds \/ UNCHANGED scVars
    BY <1>1 DEF CycleSkipped, CycleEnds, TradeEnds, scVars
<1>2. ASSUME NEW S, Launch(S) PROVE job' \in [Symbols -> Jobs]
    BY <1>2 DEF Launch, Jobs
<1>3. CASE CycleStarts \/ Prefetched
    BY <1>2, <1>3 DEF CycleStarts, Prefetched
<1>4. ASSUME NEW s \in Symbols, Retier(s) PROVE ScanTypes'
    BY <1>4 DEF Retier
<1>5. ASSUME NEW s \in Symbols, JobStarts(s) PROVE ScanTypes'
    BY <1>5 DEF JobStarts, Jobs
<1>6. ASSUME NEW s \in Symbols, ContextReady(s) PROVE ScanTypes'
    BY <1>6, GoesOnJob DEF ContextReady
<1>7. ASSUME NEW s \in Symbols, job[s].pc \in Suspended, NextChannel(s) PROVE job' \in [Symbols -> Jobs]
    <2>1. Position(job[s].sig.ch) + 1 \in Nat \ {0}
        BY <1>7, JobTypes, OrderedChannels
    <2> QED
        BY <1>7, <2>1, GoesOnJob DEF NextChannel
<1>8. ASSUME NEW s \in Symbols, NEW pc \in Suspended, job[s].pc \in Suspended,
             job' = [job EXCEPT ![s].pc = pc]
      PROVE  job' \in [Symbols -> Jobs]
    <2>1. job[s] = Job(job[s].pc, job[s].sig) /\ job[s].sig \in Signal
        BY <1>8, JobTypes
    <2>2. [job[s] EXCEPT !.pc = pc] \in Jobs
        BY <2>1 DEF Job, Jobs
    <2> QED
        BY <1>8, <2>2
<1>9. ASSUME NEW s \in Symbols, Verified(s) PROVE ScanTypes'
    BY <1>7, <1>8, <1>9 DEF Verified, Suspended
<1>10. ASSUME NEW s \in Symbols, Pushed(s) PROVE ScanTypes'
    <2>1. job' \in [Symbols -> Jobs] /\ job[s].sig \in Signal
        BY <1>8, <1>10, JobTypes DEF Pushed, Suspended
    <2> QED
        BY <1>10, <2>1 DEF Pushed
<1>11. ASSUME NEW s \in Symbols, Accepted(s) PROVE ScanTypes'
    <2>1. job' \in [Symbols -> Jobs] /\ job[s].sig.ch \in ChannelSet
        BY <1>7, <1>11, JobTypes DEF Accepted, Suspended
    <2>2. Cooldown[job[s].sig.ch] \in Nat
        BY <2>1, ScannerAssumption
    <2> QED
        BY <1>11, <2>1, <2>2 DEF Accepted
<1>12. ASSUME NEW s \in Symbols, Refused(s) PROVE ScanTypes'
    BY <1>7, <1>12 DEF Refused, Suspended
<1>13. ASSUME NEW s \in Symbols, JobFails(s) PROVE ScanTypes'
    BY <1>13 DEF JobFails, JobDone, Jobs
<1>14. CASE RouterDecides
    BY <1>14 DEF RouterDecides
<1>15. CASE Tick
    BY <1>15, ScannerAssumption DEF Tick, InCooldown
<1> QED
    BY <1>1, <1>3, <1>4, <1>5, <1>6, <1>9, <1>10, <1>11, <1>12, <1>13, <1>14, <1>15
    DEF ScNext, LoopStep, JobStep

(* A candidate's channel is not cooling down, also when another channel    *)
(* has just started to.                                                    *)
LEMMA CandidateSpaced ==
    ASSUME ScanTypes, Spacing, NEW s \in Symbols, NEW i \in Nat \ {0}, GoesOn(s, i),
           \A c \in ChannelSet : since'[s][c] <= Cooldown[c] /\ cooldown'[s][c] = Cooldown[c] - since'[s][c],
           \A k \in i..Len(ChannelOrder) : since'[s][ChannelOrder[k]] = since[s][ChannelOrder[k]],
           \A t \in Symbols : t # s => since'[t] = since[t] /\ cooldown'[t] = cooldown[t]
    PROVE  Spacing'
<1>1. /\ \A t \in Symbols : t # s => job'[t] = job[t]
      /\ GoesOnTo(s, i)
    BY GoesOnJob DEF ScanTypes
<1>2. ASSUME NEW k \in i..Len(ChannelOrder), NEW d \in Sides, NEW pc,
             ~ InCooldown(s, ChannelOrder[k]), job'[s] = Job(pc, Sig(s, ChannelOrder[k], d))
      PROVE  since'[s][job'[s].sig.ch] = Cooldown[job'[s].sig.ch]
    <2>1. k \in DOMAIN ChannelOrder /\ ChannelOrder[k] \in ChannelSet
        BY OrderedChannels
    <2>2. job'[s].sig.ch = ChannelOrder[k]
        BY <1>2 DEF Job, Sig
    <2>3. since[s][ChannelOrder[k]] = Cooldown[ChannelOrder[k]]
        BY <1>2, <2>1, ScannerAssumption DEF InCooldown, ScanTypes, Spacing
    <2> QED
        BY <2>2, <2>3
<1>3. job'[s].pc \in Suspended => since'[s][job'[s].sig.ch] = Cooldown[job'[s].sig.ch]
    <2>1. CASE job'[s] = Idle
        BY <2>1 DEF Idle, Job, Suspended
    <2>2. ASSUME NEW k \in i..Len(ChannelOrder), NEW d \in Sides, NEW pc,
                 ~ InCooldown(s, ChannelOrder[k]), job'[s] = Job(pc, Sig(s, ChannelOrder[k], d))
          PROVE  since'[s][job'[s].sig.ch] = Cooldown[job'[s].sig.ch]
        BY <1>2, <2>2
    <2> QED
        BY <1>1, <2>1, <2>2 DEF GoesOnTo
<1> QED
    BY <1>1, <1>3 DEF Spacing

(* Every step keeps the spacing: the channels that are still to be scanned *)
(* in this cycle are not the one whose signal was just accepted.           *)
LEMMA SpacingStep ==
    ASSUME ScanTypes, ScanTypes', Spacing, [ScNext]_scVars
    PROVE  Spacing'
<1>0. ASSUME UNCHANGED <<cooldown, since>>,
             \A s \in Symbols : job'[s].pc \in Suspended =>
                job[s].pc \in Suspended /\ job'[s].sig = job[s].sig
      PROVE  Spacing'
    BY <1>0 DEF Spacing
<1>1. CASE CycleSkipped \/ CycleEnds \/ TradeEnds \/ RouterDecides \/ UNCHANGED scVars
    <2>1. UNCHANGED <<job, cooldown, since>>
        BY <1>1 DEF CycleSkipped, CycleEnds, TradeEnds, RouterDecides, scVars
    <2> QED
        BY <1>0, <2>1
<1>3. CASE CycleStarts \/ Prefetched
    <2>1. cooldown' = cooldown /\ since' = since
        BY <1>3 DEF CycleStarts, Prefetched
    <2>2. job' = job \/ \A s \in Symbols : job'[s].pc \notin Suspended
        BY <1>3 DEF CycleStarts, Prefetched, Launch, Job, Idle, Suspended
    <2>3. CASE \A s \in Symbols : job'[s].pc \notin Suspended
        BY <1>0, <2>1, <2>3
    <2>4. CASE job' = job
        BY <1>0, <2>1, <2>4
    <2> QED
        BY <2>2, <2>3, <2>4
<1>4. ASSUME NEW s \in Symbols, Retier(s) PROVE Spacing'
    BY <1>0, <1>4 DEF Retier
<1>5. ASSUME NEW s \in Symbols, JobStarts(s) PROVE Spacing'
    <2>1. job'[s].pc \notin Suspended /\ \A t \in Symbols : t # s => job'[t] = job[t]
        BY <1>5 DEF JobStarts, ScanTypes, Job, Idle, Suspended
    <2>2. cooldown' = cooldown /\ since' = since
        BY <1>5 DEF JobStarts
    <2> QED
        BY <1>0, <2>1, <2>2
<1>6. ASSUME NEW s \in Symbols, ContextReady(s) PROVE Spacing'
    BY <1>6, CandidateSpaced DEF ContextReady, Spacing
<1>7. ASSUME NEW s \in Symbols, job[s].pc \in Suspended, NextChannel(s), UNCHANGED <<cooldown, since>>
      PROVE  Spacing'
    <2>1. Position(job[s].sig.ch) + 1 \in Nat \ {0}
        BY <1>7, JobTypes, OrderedChannels DEF ScanTypes
    <2> QED
        BY <1>7, <2>1, CandidateSpaced DEF NextChannel, Spacing
<1>8. ASSUME NEW s \in Symbols, NEW pc \in Suspended, job[s].pc \in Suspended,
             job' = [job EXCEPT ![s].pc = pc], UNCHANGED <<cooldown, since>>
      PROVE  Spacing'
    BY <1>0, <1>8 DEF ScanTypes
<1>9. ASSUME NEW s \in Symbols, Verified(s) PROVE Spacing'
    BY <1>7, <1>8, <1>9 DEF Verified, Suspended
<1>10. ASSUME NEW s \in Symbols, Pushed(s) PROVE Spacing'
    BY <1>8, <1>10 DEF Pushed, Suspended
<1>11. ASSUME NEW s \in Symbols, Accepted(s) PROVE Spacing'
    <2> DEFINE c == job[s].sig.ch
    <2>1. c \in ChannelSet /\ Position(c) + 1 \in Nat \ {0}
        BY <1>11, JobTypes, OrderedChannels DEF Accepted, ScanTypes, Suspended
    <2>2. /\ cooldown' = [cooldown EXCEPT ![s][c] = Cooldown[c]]
          /\ since' = [since EXCEPT ![s][c] = 0]
          /\ GoesOn(s, Position(c) + 1)
        BY <1>11 DEF Accepted, NextChannel
    <2> HIDE DEF c
    <2>3. \A e \in ChannelSet : /\ cooldown'[s][e] = IF e = c THEN Cooldown[c] ELSE cooldown[s][e]
                                /\ since'[s][e] = IF e = c THEN 0 ELSE since[s][e]
        BY <2>2 DEF ScanTypes
    <2>4. \A e \in ChannelSet : since'[s][e] <= Cooldown[e] /\ cooldown'[s][e] = Cooldown[e] - since'[s][e]
        BY <2>1, <2>3, ScannerAssumption DEF Spacing
    <2>5. \A k \in (Position(c) + 1)..Len(ChannelOrder) : since'[s][ChannelOrder[k]] = since[s][ChannelOrder[k]]
        BY <2>1, <2>3, OrderedChannels
    <2>6. \A t \in Symbols : t # s => since'[t] = since[t] /\ cooldown'[t] = cooldown[t]
        BY <2>2 DEF ScanTypes
    <2> QED
        BY <2>1, <2>2, <2>4, <2>5, <2>6, CandidateSpaced
<1>12. ASSUME NEW s \in Symbols, Refused(s) PROVE Spacing'
    BY <1>7, <1>12 DEF Refused, Suspended
<1>13. ASSUME NEW s \in Symbols, JobFails(s) PROVE Spacing'
    BY <1>0, <1>13 DEF JobFails, JobDone, ScanTypes, Idle, Job, Suspended
<1>15. CASE Tick
    <2>1. job' = job
        BY <1>15 DEF Tick
    <2>2. ASSUME NEW s \in Symbols, NEW c \in ChannelSet
          PROVE  /\ since'[s][c] <= Cooldown[c] /\ cooldown'[s][c] = Cooldown[c] - since'[s][c]
                 /\ since[s][c] = Cooldown[c] => since'[s][c] = Cooldown[c]
        <3>1. /\ cooldown'[s][c] = IF cooldown[s][c] > 0 THEN cooldown[s][c] - 1 ELSE 0
              /\ since'[s][c] = IF since[s][c] < Cooldown[c] THEN since[s][c] + 1 ELSE Cooldown[c]
            BY <1>15 DEF Tick, InCooldown
        <3>2. /\ since[s][c] \in Nat /\ Cooldown[c] \in Nat /\ since[s][c] <= Cooldown[c]
              /\ cooldown[s][c] = Cooldown[c] - since[s][c]
            BY ScannerAssumption DEF ScanTypes, Spacing
        <3> QED
            BY <3>1, <3>2
    <2>3. \A s \in Symbols : job[s].pc \in Suspended => job[s].sig.ch \in ChannelSet
        BY JobTypes DEF ScanTypes
    <2> QED
        BY <2>1, <2>2, <2>3 DEF Spacing
<1> QED
    BY <1>1, <1>3, <1>4, <1>5, <1>6, <1>9, <1>10, <1>11, <1>12, <1>13, <1>15
    DEF ScNext, LoopStep, JobStep

(* Two signals of a symbol on the same channel are at least the channel's  *)
(* cooldown apart, for any symbols, channel order, cooldowns, limits and   *)
(* queue, however the jobs of a cycle interleave.                          *)
THEOREM SpacingHolds == ScSpec => []SignalsSpaced
<1>1. ScanTypes /\ Spacing => SignalsSpaced
    BY DEF Spacing, SignalsSpaced
<1>2. ScanTypes /\ Spacing /\ [ScNext]_scVars => ScanTypes' /\ Spacing'
    BY TypesStep, SpacingStep
<1> QED
    BY <1>1, <1>2, ScanInitInv, PTL DEF ScSpec

-----------------------------------------------------------------------------
(***************************************************************************)
(* Scanner: the scalp cap                                                  *)
(***************************************************************************)

(* A scalp of direction d.                                                 *)
IsScalp(x, d) == x.ch \in ScalpChannels /\ x.dir = d
(* Where the scalps of direction d stand in a queue.                       *)
Picked(q, d) == {i \in DOMAIN q : IsScalp(q[i], d)}
(* The jobs that hold a permit.                                            *)
RunningJobs == {s \in Symbols : Running(s)}

(* The numbers that bound the overshoot: permits are what the running jobs *)
(* leave, jobs run in the job phase only, and the queue is bounded.        *)
Capacity ==
    /\ permits \in Nat
    /\ Cardinality(RunningJobs) + permits = MaxConcurrent
    /\ phase # "jobs" => \A s \in Symbols : job[s] = Idle
    /\ Len(queue) <= Backlog
    /\ IsFiniteSet(active)

(* A queue holds at most as many scalps as signals.                        *)
LEMMA PickedBound ==
    ASSUME NEW q \in Seq(Signal), NEW d
    PROVE  /\ IsFiniteSet(Picked(q, d)) /\ Cardinality(Picked(q, d)) \in Nat
           /\ Cardinality(Picked(q, d)) <= Len(q)
<1>0. Len(q) \in Nat /\ 1 \in Int
    OBVIOUS
<1>1. IsFiniteSet(1..Len(q)) /\ Cardinality(1..Len(q)) = Len(q)
    BY <1>0, FS_Interval
<1>2. Picked(q, d) \in SUBSET (1..Len(q))
    BY DEF Picked
<1> QED
    BY <1>1, <1>2, FS_Subset, FS_CardinalityType

(* A put adds at most one scalp, and none by putting another signal.       *)
LEMMA PickedAppend ==
    ASSUME NEW q \in Seq(Signal), NEW x \in Signal, NEW d
    PROVE  /\ Cardinality(Picked(Append(q, x), d)) <= Cardinality(Picked(q, d)) + 1
           /\ ~ IsScalp(x, d) => Picked(Append(q, x), d) = Picked(q, d)
<1> DEFINE r == Append(q, x)
<1>1. /\ DOMAIN r = DOMAIN q \cup {Len(q) + 1}
      /\ \A i \in DOMAIN q : r[i] = q[i]
      /\ r[Len(q) + 1] = x
    OBVIOUS
<1>2. r \in Seq(Signal)
    OBVIOUS
<1> HIDE DEF r
<1>3. Picked(r, d) \in SUBSET (Picked(q, d) \cup {Len(q) + 1})
    BY <1>1 DEF Picked
<1>4. ~ IsScalp(x, d) => Picked(r, d) = Picked(q, d)
    BY <1>1 DEF Picked
<1>5. /\ IsFiniteSet(Picked(q, d) \cup {Len(q) + 1})
      /\ Cardinality(Picked(q, d) \cup {Len(q) + 1}) <= Cardinality(Picked(q, d)) + 1
    <2>1. IsFiniteSet(Picked(q, d)) /\ Cardinality(Picked(q, d)) \in Nat
        BY PickedBound
    <2>2. /\ IsFiniteSet(Picked(q, d) \cup {Len(q) + 1})
          /\ Cardinality(Picked(q, d) \cup {Len(q) + 1}) =
               IF Len(q) + 1 \in Picked(q, d) THEN Cardinality(Picked(q, d)) ELSE Cardinality(Picked(q, d)) + 1
        BY <2>1, FS_AddElement
    <2> QED
        BY <2>1, <2>2
<1>6. /\ Cardinality(Picked(r, d)) <= Cardinality(Picked(q, d) \cup {Len(q) + 1})
    BY <1>3, <1>5, FS_Subset
<1>7. Cardinality(Picked(r, d)) <= Cardinality(Picked(q, d)) + 1
    <2>1. Cardinality(Picked(r, d)) \in Nat /\ Cardinality(Picked(q, d)) \in Nat
        BY <1>2, PickedBound
    <2>2. Cardinality(Picked(q, d) \cup {Len(q) + 1}) \in Nat
        BY <1>5, FS_CardinalityType
    <2> QED
        BY <1>5, <1>6, <2>1, <2>2
<1> QED
    BY <1>4, <1>7 DEF r

(* A get takes the scalp it hands out off the queue.                       *)
LEMMA PickedTail ==
    ASSUME NEW q \in Seq(Signal), q # <<>>, NEW d
    PROVE  /\ Cardinality(Picked(Tail(q), d)) <= Cardinality(Picked(q, d))
           /\ IsScalp(Head(q), d) => Cardinality(Picked(Tail(q), d)) <= Cardinality(Picked(q, d)) - 1
<1> DEFINE t == Tail(q)
           f == [i \in Picked(t, d) |-> i + 1]
<1>1. /\ DOMAIN t = 1..(Len(q) - 1) /\ DOMAIN q = 1..Len(q) /\ Len(q) \in Nat /\ Len(q) >= 1
      /\ \A i \in DOMAIN t : t[i] = q[i + 1]
      /\ Head(q) = q[1]
    BY HeadTailProperties
<1>2. t \in Seq(Signal)
    OBVIOUS
<1> HIDE DEF t
<1>3. Picked(t, d) \subseteq Int
    BY <1>1 DEF Picked
<1>4. \A i \in Picked(t, d) : i + 1 \in Picked(q, d) \ {1}
    BY <1>1 DEF Picked
<1>5. f \in Injection(Picked(t, d), Picked(q, d) \ {1})
    <2>1. f \in [Picked(t, d) -> Picked(q, d) \ {1}]
        BY <1>4
    <2>2. \A i, j \in Picked(t, d) : f[i] = f[j] => i = j
        BY <1>3
    <2> QED
        BY <2>1, <2>2 DEF Injection, IsInjective
<1> HIDE DEF f
<1>6. /\ IsFiniteSet(Picked(q, d) \ {1})
      /\ Cardinality(Picked(q, d) \ {1}) =
           IF 1 \in Picked(q, d) THEN Cardinality(Picked(q, d)) - 1 ELSE Cardinality(Picked(q, d))
    BY PickedBound, FS_RemoveElement
<1>7. Cardinality(Picked(t, d)) <= Cardinality(Picked(q, d) \ {1})
    BY <1>5, <1>6, FS_Injection
<1>8. Cardinality(Picked(t, d)) \in Nat /\ Cardinality(Picked(q, d)) \in Nat
    BY <1>2, PickedBound
<1>9. IsScalp(Head(q), d) => 1 \in Picked(q, d)
    BY <1>1 DEF Picked
<1> QED
    BY <1>6, <1>7, <1>8, <1>9 DEF t

(* The sets that are counted are finite.                                   *)
LEMMA RunningFinite ==
    /\ IsFiniteSet(RunningJobs) /\ Cardinality(RunningJobs) \in Nat
    /\ IsFiniteSet(RunningJobs)' /\ Cardinality(RunningJobs)' \in Nat
    /\ \A d \in Sides : IsFiniteSet(CandidateScalps(d)) /\ IsFiniteSet(CandidateScalps(d)')
<1>1. RunningJobs \in SUBSET Symbols /\ RunningJobs' \in SUBSET Symbols
    BY DEF RunningJobs
<1>2. \A d \in Sides : CandidateScalps(d) \in SUBSET Symbols /\ CandidateScalps(d)' \in SUBSET Symbols
    BY DEF CandidateScalps
<1> QED
    BY <1>1, <1>2, FS_Subset, FS_CardinalityType, ScannerAssumption

(* What a step of one job does to the number of running jobs.              *)
LEMMA RunningStep ==
    ASSUME NEW s \in Symbols, \A t \in Symbols : t # s => job'[t] = job[t]
    PROVE  /\ Running(s) /\ Running(s)' => RunningJobs' = RunningJobs
           /\ ~ Running(s) /\ ~ Running(s)' => RunningJobs' = RunningJobs
           /\ ~ Running(s) /\ Running(s)' => Cardinality(RunningJobs)' = Cardinality(RunningJobs) + 1
           /\ Running(s) /\ ~ Running(s)' => Cardinality(RunningJobs)' = Cardinality(RunningJobs) - 1
<1>1. \A t \in Symbols : t # s => (Running(t)' <=> Running(t))
    BY DEF Running
<1>2. Running(s) /\ Running(s)' => RunningJobs' = RunningJobs
    BY <1>1 DEF RunningJobs
<1>3. ~ Running(s) /\ ~ Running(s)' => RunningJobs' = RunningJobs
    BY <1>1 DEF RunningJobs
<1>4. ASSUME ~ Running(s), Running(s)' PROVE Cardinality(RunningJobs)' = Cardinality(RunningJobs) + 1
    <2>1. RunningJobs' = RunningJobs \cup {s} /\ s \notin RunningJobs
        BY <1>1, <1>4 DEF RunningJobs
    <2> QED
        BY <2>1, RunningFinite, FS_AddElement
<1>5. ASSUME Running(s), ~ Running(s)' PROVE Cardinality(RunningJobs)' = Cardinality(RunningJobs) - 1
    <2>1. RunningJobs' = RunningJobs \ {s} /\ s \in RunningJobs
        BY <1>1, <1>5 DEF RunningJobs
    <2> QED
        BY <2>1, RunningFinite, FS_RemoveElement
<1> QED
    BY <1>2, <1>3, <1>4, <1>5

(* At the start all permits are free.                                      *)
LEMMA CapacityInit == ScInit => Capacity
<1> SUFFICES ASSUME ScInit PROVE Capacity
    OBVIOUS
<1>1. RunningJobs = {}
    BY DEF ScInit, RunningJobs, Running, Suspended, Idle, Job
<1>2. Cardinality(RunningJobs) = 0 /\ IsFiniteSet(active)
    BY <1>1, FS_EmptySet DEF ScInit
<1> QED
    BY <1>2, ScannerAssumption DEF ScInit, Capacity

(* What a running job that goes on leaves of the permits.                  *)
LEMMA GoesOnCapacity ==
    ASSUME ScanTypes, Capacity, NEW s \in Symbols, Running(s), NEW i \in Nat \ {0}, GoesOn(s, i)
    PROVE  /\ permits' \in Nat
           /\ Cardinality(RunningJobs)' + permits' = MaxConcurrent
<1>1. /\ \A t \in Symbols : t # s => job'[t] = job[t]
      /\ GoesOnTo(s, i)
    BY GoesOnJob DEF ScanTypes
<1>2. CASE job'[s] = Idle /\ permits' = permits + 1
    <2>1. ~ Running(s)'
        BY <1>2 DEF Running, Idle, Job, Suspended
    <2>2. Cardinality(RunningJobs)' = Cardinality(RunningJobs) - 1
        BY <1>1, <2>1, RunningStep
    <2> QED
        BY <1>2, <2>2, RunningFinite, ScannerAssumption DEF Capacity
<1>3. CASE job'[s].pc \in {"put", "verify"} /\ permits' = permits
    <2>1. Running(s)'
        BY <1>3 DEF Running, Suspended
    <2>2. RunningJobs' = RunningJobs
        BY <1>1, <2>1, RunningStep
    <2> QED
        BY <1>3, <2>2 DEF Capacity
<1>4. ASSUME NEW k, NEW d, NEW pc \in {"put", "verify"},
             job'[s] = Job(pc, Sig(s, ChannelOrder[k], d)), permits' = permits
      PROVE  job'[s].pc \in {"put", "verify"} /\ permits' = permits
    BY <1>4 DEF Job
<1> QED
    BY <1>1, <1>2, <1>3, <1>4 DEF GoesOnTo

(* Between the cycles no job runs.                                         *)
LEMMA AllIdle ==
    ASSUME \A s \in Symbols : job[s] = Idle
    PROVE  RunningJobs = {} /\ \A d \in Sides : CandidateScalps(d) = {}
BY DEF RunningJobs, Running, Suspended, Idle, Job, CandidateScalps

(* A job that is launched waits for its permit.                            *)
LEMMA JobsLaunched ==
    ASSUME \A s \in Symbols : job'[s] \in {Idle, Job("waiting", NoJob)}
    PROVE  RunningJobs' = {} /\ \A d \in Sides : CandidateScalps(d)' = {}
BY DEF RunningJobs, Running, Suspended, Idle, Job, CandidateScalps

(* A job takes one permit and gives it back when it ends.                  *)
LEMMA JobNumbers ==
    ASSUME ScanTypes, ScanTypes', Capacity, NEW s \in Symbols, JobStep(s)
    PROVE  permits' \in Nat /\ Cardinality(RunningJobs)' + permits' = MaxConcurrent
<1>0. /\ \A t \in Symbols : job[t] \in Jobs
      /\ permits \in Nat /\ Cardinality(RunningJobs) + permits = MaxConcurrent
      /\ Cardinality(RunningJobs) \in Nat /\ Cardinality(RunningJobs)' \in Nat
      /\ MaxConcurrent \in Nat
    BY RunningFinite, ScannerAssumption DEF ScanTypes, Capacity
<1>1. CASE JobStarts(s)
    <2>1. ~ Running(s) /\ \A t \in Symbols : t # s => job'[t] = job[t]
        BY <1>1 DEF JobStarts, ScanTypes, Running, Suspended
    <2>2. CASE job' = [job EXCEPT ![s] = Job("context", NoJob)] /\ permits' = permits - 1
        <3>1. Running(s)'
            BY <2>2 DEF ScanTypes, Running, Job
        <3>2. Cardinality(RunningJobs)' = Cardinality(RunningJobs) + 1
            BY <2>1, <3>1, RunningStep
        <3>3. permits > 0
            BY <1>1 DEF JobStarts
        <3> QED
            BY <1>0, <2>2, <3>2, <3>3
    <2>3. CASE job' = [job EXCEPT ![s] = Idle] /\ permits' = permits
        <3>1. ~ Running(s)'
            BY <2>3 DEF ScanTypes, Running, Idle, Job, Suspended
        <3>2. RunningJobs' = RunningJobs
            BY <2>1, <3>1, RunningStep
        <3> QED
            BY <1>0, <2>3, <3>2
    <2> QED
        BY <1>1, <2>2, <2>3 DEF JobStarts
<1>2. CASE ContextReady(s)
    BY <1>2, GoesOnCapacity DEF ContextReady, Running
<1>3. ASSUME job[s].pc \in Suspended, NextChannel(s)
      PROVE  permits' \in Nat /\ Cardinality(RunningJobs)' + permits' = MaxConcurrent
    <2>1. Position(job[s].sig.ch) + 1 \in Nat \ {0}
        BY <1>0, <1>3, JobTypes, OrderedChannels
    <2> QED
        BY <1>3, <2>1, GoesOnCapacity DEF NextChannel, Running
<1>4. ASSUME NEW pc \in Suspended, job[s].pc \in Suspended, job' = [job EXCEPT ![s].pc = pc],
             permits' = permits
      PROVE  permits' \in Nat /\ Cardinality(RunningJobs)' + permits' = MaxConcurrent
    <2>1. \A t \in Symbols : t # s => job'[t] = job[t]
        BY <1>4 DEF ScanTypes
    <2>2. job[s] = Job(job[s].pc, job[s].sig)
        BY <1>0, <1>4, JobTypes
    <2>3. job'[s].pc = pc
        BY <1>4, <2>2 DEF ScanTypes, Job
    <2>4. Running(s) /\ Running(s)'
        BY <1>4, <2>3 DEF Running
    <2>5. RunningJobs' = RunningJobs
        BY <2>1, <2>4, RunningStep
    <2> QED
        BY <1>0, <1>4, <2>5
<1>5. CASE Verified(s)
    BY <1>3, <1>4, <1>5 DEF Verified, Suspended
<1>6. CASE Pushed(s)
    BY <1>4, <1>6 DEF Pushed, Suspended
<1>7. CASE Accepted(s)
    BY <1>3, <1>7 DEF Accepted, Suspended
<1>8. CASE Refused(s)
    BY <1>3, <1>8 DEF Refused, Suspended
<1>9. CASE JobFails(s)
    <2>1. Running(s) /\ \A t \in Symbols : t # s => job'[t] = job[t]
        BY <1>9 DEF JobFails, JobDone, ScanTypes, Running, Suspended
    <2>2. ~ Running(s)'
        BY <1>9 DEF JobFails, JobDone, ScanTypes, Running, Idle, Job, Suspended
    <2>3. Cardinality(RunningJobs)' = Cardinality(RunningJobs) - 1
        BY <2>1, <2>2, RunningStep
    <2>4. permits' = permits + 1
        BY <1>9 DEF JobFails, JobDone
    <2> QED
        BY <1>0, <2>3, <2>4
<1> QED
    BY <1>1, <1>2, <1>5, <1>6, <1>7, <1>8, <1>9 DEF JobStep

(* Every step keeps the account of the permits and the bound of the queue. *)
LEMMA CapacityStep ==
    ASSUME ScanTypes, ScanTypes', Capacity, [ScNext]_scVars
    PROVE  Capacity'
<1>0. /\ permits \in Nat /\ Cardinality(RunningJobs) + permits = MaxConcurrent
      /\ queue \in Seq(Signal) /\ Len(queue) \in Nat /\ Len(queue) <= Backlog /\ IsFiniteSet(active)
    BY DEF Capacity, ScanTypes
<1>1. ASSUME NEW S, S \subseteq active PROVE IsFiniteSet(S)
    BY <1>0, <1>1, FS_Subset
<1>2. ASSUME UNCHANGED <<job, permits>>
      PROVE  permits' \in Nat /\ Cardinality(RunningJobs)' + permits' = MaxConcurrent
    BY <1>0, <1>2 DEF RunningJobs, Running
<1>3. CASE CycleSkipped \/ TradeEnds
    <2>1. UNCHANGED <<phase, job, permits, queue>> /\ active' \subseteq active
        BY <1>3 DEF CycleSkipped, TradeEnds
    <2> QED
        BY <1>0, <1>1, <1>2, <2>1 DEF Capacity
<1>4. CASE CycleStarts \/ Prefetched
    <2>1. UNCHANGED <<permits, queue>> /\ active' \subseteq active /\ phase # "jobs"
        BY <1>4 DEF CycleStarts, Prefetched
    <2>2. \A s \in Symbols : job[s] = Idle
        BY <2>1 DEF Capacity
    <2>3. RunningJobs = {}
        BY <2>2, AllIdle
    <2>4. \A s \in Symbols : job'[s] \in {Idle, Job("waiting", NoJob)}
        BY <1>4, <2>2 DEF CycleStarts, Prefetched, Launch
    <2>5. RunningJobs' = {}
        BY <2>4, JobsLaunched
    <2>6. phase' # "jobs" => job' = job
        BY <1>4 DEF CycleStarts, Prefetched, Launch
    <2> QED
        BY <1>0, <1>1, <2>1, <2>2, <2>3, <2>5, <2>6 DEF Capacity
<1>5. CASE CycleEnds
    <2>1. UNCHANGED <<job, permits, queue, active>> /\ \A s \in Symbols : job[s] = Idle
        BY <1>5 DEF CycleEnds
    <2> QED
        BY <1>0, <1>2, <2>1 DEF Capacity
<1>6. CASE (\E s \in Symbols : Retier(s)) \/ Tick \/ UNCHANGED scVars
    <2>1. UNCHANGED <<phase, job, permits, queue, active>>
        BY <1>6 DEF Retier, Tick, scVars
    <2> QED
        BY <1>0, <1>2, <2>1 DEF Capacity
<1>7. CASE RouterDecides
    <2>1. UNCHANGED <<phase, job, permits>> /\ active' \subseteq active \cup {Head(queue)}
          /\ queue # <<>> /\ queue' = Tail(queue)
        BY <1>7 DEF RouterDecides
    <2>2. IsFiniteSet(active \cup {Head(queue)})
        BY <1>0, FS_AddElement
    <2>3. IsFiniteSet(active')
        BY <2>1, <2>2, FS_Subset
    <2>4. Len(queue') = Len(queue) - 1
        BY <1>0, <2>1, HeadTailProperties
    <2> QED
        BY <1>0, <1>2, <2>1, <2>3, <2>4, ScannerAssumption DEF Capacity
<1>8. ASSUME NEW s \in Symbols, JobStep(s) PROVE Capacity'
    <2>1. permits' \in Nat /\ Cardinality(RunningJobs)' + permits' = MaxConcurrent
        BY <1>8, JobNumbers
    <2>2. UNCHANGED <<phase, active>>
        BY <1>8 DEF JobStep, JobStarts, ContextReady, Verified, Pushed, Accepted, Refused, JobFails
    <2>3. phase = "jobs"
        <3>1. job[s] # Idle
            BY <1>8 DEF JobStep, JobStarts, ContextReady, Verified, Pushed, Accepted, Refused, JobFails,
               Idle, Job
        <3> QED
            BY <3>1 DEF Capacity
    <2>4. Len(queue') <= Backlog
        <3>1. CASE Pushed(s)
            <4>1. job[s].sig \in Signal /\ Len(queue) < Backlog /\ queue' = Append(queue, job[s].sig)
                BY <3>1, JobTypes DEF Pushed, ScanTypes, Suspended
            <4> QED
                BY <1>0, <4>1, ScannerAssumption
        <3>2. CASE ~ Pushed(s)
            BY <1>0, <1>8, <3>2 DEF JobStep, JobStarts, ContextReady, Verified, Accepted, Refused, JobFails
        <3> QED
            BY <3>1, <3>2
    <2> QED
        BY <1>0, <2>1, <2>2, <2>3, <2>4 DEF Capacity
<1> QED
    BY <1>3, <1>4, <1>5, <1>6, <1>7, <1>8 DEF ScNext, LoopStep

(* The scalps of one direction: registered, queued and under way.          *)
ScalpsUnderWay(d) ==
    Cardinality(ScalpsOf(d)) + Cardinality(Picked(queue, d)) + Cardinality(CandidateScalps(d))

(* The inductive invariant of the overshoot, which counts what the         *)
(* property counts.                                                        *)
Overshoot == \A d \in Sides : ScalpsUnderWay(d) <= ScalpCap - 1 + Backlog + MaxConcurrent

(* The sets that are counted are finite, and the queue and the running     *)
(* jobs bound two of them.                                                 *)
LEMMA ScalpNumbers ==
    ASSUME ScanTypes, ScanTypes', Capacity, Capacity', NEW d \in Sides
    PROVE  /\ IsFiniteSet(ScalpsOf(d)) /\ IsFiniteSet(ScalpsOf(d)')
           /\ Cardinality(ScalpsOf(d)) \in Nat /\ Cardinality(ScalpsOf(d)') \in Nat
           /\ Cardinality(Picked(queue, d)) \in Nat /\ Cardinality(Picked(queue', d)) \in Nat
           /\ IsFiniteSet(CandidateScalps(d)) /\ IsFiniteSet(CandidateScalps(d)')
           /\ Cardinality(CandidateScalps(d)) \in Nat /\ Cardinality(CandidateScalps(d)') \in Nat
           /\ Cardinality(Picked(queue', d)) <= Backlog
           /\ Cardinality(CandidateScalps(d)') <= MaxConcurrent
<1>1. /\ IsFiniteSet(ScalpsOf(d)) /\ IsFiniteSet(ScalpsOf(d)')
    <2>1. ScalpsOf(d) \in SUBSET active /\ ScalpsOf(d)' \in SUBSET active'
        BY DEF ScalpsOf
    <2> QED
        BY <2>1, FS_Subset DEF Capacity
<1>2. /\ Cardinality(Picked(queue, d)) \in Nat /\ Cardinality(Picked(queue', d)) \in Nat
      /\ Cardinality(Picked(queue', d)) <= Backlog
    <2>1. queue' \in Seq(Signal) /\ Len(queue') \in Nat /\ Len(queue') <= Backlog
        BY DEF ScanTypes, Capacity
    <2>2. Cardinality(Picked(queue', d)) \in Nat /\ Cardinality(Picked(queue', d)) <= Len(queue')
        BY <2>1, PickedBound
    <2>3. Cardinality(Picked(queue, d)) \in Nat
        BY PickedBound DEF ScanTypes
    <2> QED
        BY <2>1, <2>2, <2>3, ScannerAssumption
<1>3. CandidateScalps(d)' \in SUBSET RunningJobs'
    BY DEF CandidateScalps, RunningJobs, Running, Suspended
<1>4. Cardinality(CandidateScalps(d)') <= MaxConcurrent
    <2>1. Cardinality(CandidateScalps(d)') <= Cardinality(RunningJobs')
        BY <1>3, RunningFinite, FS_Subset
    <2>2. Cardinality(RunningJobs') <= MaxConcurrent
        BY RunningFinite, ScannerAssumption DEF Capacity
    <2> QED
        BY <2>1, <2>2, RunningFinite, FS_CardinalityType, ScannerAssumption
<1> QED
    BY <1>1, <1>2, <1>4, RunningFinite, FS_CardinalityType

(* A step that registers, queues and proposes nothing.                     *)
LEMMA NoMoreScalps ==
    ASSUME ScanTypes, ScanTypes', Capacity, Capacity', Overshoot, NEW d \in Sides,
           ScalpsOf(d)' \subseteq ScalpsOf(d), queue' = queue,
           CandidateScalps(d)' \subseteq CandidateScalps(d)
    PROVE  ScalpsUnderWay(d)' <= ScalpCap - 1 + Backlog + MaxConcurrent
<1>1. Cardinality(ScalpsOf(d)') <= Cardinality(ScalpsOf(d))
    BY ScalpNumbers, FS_Subset
<1>2. Cardinality(CandidateScalps(d)') <= Cardinality(CandidateScalps(d))
    BY ScalpNumbers, FS_Subset
<1>3. ScalpsUnderWay(d) <= ScalpCap - 1 + Backlog + MaxConcurrent
    BY DEF Overshoot
<1>4. ScalpsUnderWay(d)' =
        Cardinality(ScalpsOf(d)') + Cardinality(Picked(queue', d)) + Cardinality(CandidateScalps(d)')
    BY DEF ScalpsUnderWay
<1> QED
    BY <1>1, <1>2, <1>3, <1>4, ScalpNumbers, ScannerAssumption DEF ScalpsUnderWay

(* A new candidate found the cap unreached.                                *)
LEMMA CandidateWithinCap ==
    ASSUME ScanTypes, ScanTypes', Capacity, Capacity', NEW d \in Sides,
           active' = active, Cardinality(ScalpsOf(d)) < ScalpCap
    PROVE  ScalpsUnderWay(d)' <= ScalpCap - 1 + Backlog + MaxConcurrent
<1>1. ScalpsOf(d)' = ScalpsOf(d)
    BY DEF ScalpsOf
<1>2. ScalpsUnderWay(d)' =
        Cardinality(ScalpsOf(d)) + Cardinality(Picked(queue', d)) + Cardinality(CandidateScalps(d)')
    BY <1>1 DEF ScalpsUnderWay
<1> QED
    BY <1>2, ScalpNumbers, ScannerAssumption

(* A job that goes on proposes at most a candidate that found the cap      *)
(* unreached.                                                              *)
LEMMA GoesOnScalps ==
    ASSUME ScanTypes, ScanTypes', Capacity, Capacity', Overshoot, NEW d \in Sides,
           NEW s \in Symbols, NEW i \in Nat \ {0}, GoesOn(s, i), active' = active, queue' = queue
    PROVE  ScalpsUnderWay(d)' <= ScalpCap - 1 + Backlog + MaxConcurrent
<1>1. /\ \A t \in Symbols : t # s => job'[t] = job[t]
      /\ GoesOnTo(s, i)
    BY GoesOnJob DEF ScanTypes
<1>2. ScalpsOf(d)' \subseteq ScalpsOf(d)
    BY DEF ScalpsOf
<1>3. CASE s \notin CandidateScalps(d)'
    <2>1. CandidateScalps(d)' \subseteq CandidateScalps(d)
        BY <1>1, <1>3 DEF CandidateScalps
    <2> QED
        BY <1>2, <2>1, NoMoreScalps
<1>4. CASE s \in CandidateScalps(d)'
    <2>1. job'[s].pc \in {"verify", "put"} /\ job'[s].sig.ch \in ScalpChannels /\ job'[s].sig.dir = d
        BY <1>4 DEF CandidateScalps
    <2>2. job'[s] # Idle
        BY <2>1 DEF Idle, Job
    <2>3. PICK k \in i..Len(ChannelOrder), e \in Sides :
            /\ WithinScalpCap(ChannelOrder[k], e)
            /\ \E pc \in {"put", "verify"} : job'[s] = Job(pc, Sig(s, ChannelOrder[k], e))
        BY <1>1, <2>2 DEF GoesOnTo
    <2>4. job'[s].sig.ch = ChannelOrder[k] /\ job'[s].sig.dir = e
        BY <2>3 DEF Job, Sig
    <2>5. Cardinality(ScalpsOf(d)) < ScalpCap
        BY <2>1, <2>3, <2>4 DEF WithinScalpCap
    <2> QED
        BY <2>5, CandidateWithinCap
<1> QED
    BY <1>3, <1>4

(* The candidate becomes a queued signal.                                  *)
LEMMA PushedScalps ==
    ASSUME ScanTypes, ScanTypes', Capacity, Capacity', Overshoot, NEW d \in Sides,
           NEW s \in Symbols, Pushed(s)
    PROVE  ScalpsUnderWay(d)' <= ScalpCap - 1 + Backlog + MaxConcurrent
<1> DEFINE x == job[s].sig
<1>1. /\ job[s].pc = "put" /\ x \in Signal /\ job[s] = Job("put", x)
      /\ queue \in Seq(Signal) /\ queue' = Append(queue, x) /\ active' = active
      /\ job' = [job EXCEPT ![s].pc = "pushed"]
    BY JobTypes DEF Pushed, ScanTypes, Suspended
<1>2. /\ \A t \in Symbols : t # s => job'[t] = job[t]
      /\ job'[s].pc = "pushed"
    BY <1>1 DEF ScanTypes, Job
<1>3. ScalpsOf(d)' = ScalpsOf(d)
    BY <1>1 DEF ScalpsOf
<1>4. CandidateScalps(d)' = CandidateScalps(d) \ {s}
    BY <1>2 DEF CandidateScalps
<1>5. IsScalp(x, d) => s \in CandidateScalps(d)
    BY <1>1 DEF CandidateScalps, IsScalp
<1> HIDE DEF x
<1>6. Cardinality(CandidateScalps(d)') =
        IF s \in CandidateScalps(d) THEN Cardinality(CandidateScalps(d)) - 1
        ELSE Cardinality(CandidateScalps(d))
    BY <1>4, ScalpNumbers, FS_RemoveElement
<1>7. /\ Cardinality(Picked(queue', d)) <= Cardinality(Picked(queue, d)) + 1
      /\ ~ IsScalp(x, d) => Picked(queue', d) = Picked(queue, d)
    BY <1>1, PickedAppend
<1>8. Cardinality(Picked(queue', d)) + Cardinality(CandidateScalps(d)')
        <= Cardinality(Picked(queue, d)) + Cardinality(CandidateScalps(d))
    BY <1>5, <1>6, <1>7, ScalpNumbers
<1>9. ScalpsUnderWay(d) <= ScalpCap - 1 + Backlog + MaxConcurrent
    BY DEF Overshoot
<1>10. ScalpsUnderWay(d)' =
        Cardinality(ScalpsOf(d)) + Cardinality(Picked(queue', d)) + Cardinality(CandidateScalps(d)')
    BY <1>3 DEF ScalpsUnderWay
<1> QED
    BY <1>8, <1>9, <1>10, ScalpNumbers, ScannerAssumption DEF ScalpsUnderWay

(* The queued signal is registered or dropped.                             *)
LEMMA DecidedScalps ==
    ASSUME ScanTypes, ScanTypes', Capacity, Capacity', Overshoot, NEW d \in Sides, RouterDecides
    PROVE  ScalpsUnderWay(d)' <= ScalpCap - 1 + Backlog + MaxConcurrent
<1> DEFINE x == Head(queue)
<1>1. /\ queue \in Seq(Signal) /\ queue # <<>> /\ queue' = Tail(queue) /\ job' = job
      /\ active' \subseteq active \cup {x}
    BY DEF RouterDecides, ScanTypes
<1>2. CandidateScalps(d)' = CandidateScalps(d)
    BY <1>1 DEF CandidateScalps
<1>3. ScalpsOf(d)' \in SUBSET (ScalpsOf(d) \cup {x}) /\ (~ IsScalp(x, d) => ScalpsOf(d)' \in SUBSET ScalpsOf(d))
    BY <1>1 DEF ScalpsOf, IsScalp
<1> HIDE DEF x
<1>4. /\ Cardinality(Picked(queue', d)) <= Cardinality(Picked(queue, d))
      /\ IsScalp(x, d) => Cardinality(Picked(queue', d)) <= Cardinality(Picked(queue, d)) - 1
    BY <1>1, PickedTail DEF x
<1>5. /\ IsFiniteSet(ScalpsOf(d) \cup {x})
      /\ Cardinality(ScalpsOf(d) \cup {x}) =
           IF x \in ScalpsOf(d) THEN Cardinality(ScalpsOf(d)) ELSE Cardinality(ScalpsOf(d)) + 1
    BY ScalpNumbers, FS_AddElement
<1>6. Cardinality(ScalpsOf(d)') <= Cardinality(ScalpsOf(d) \cup {x})
    BY <1>3, <1>5, FS_Subset
<1>7. ~ IsScalp(x, d) => Cardinality(ScalpsOf(d)') <= Cardinality(ScalpsOf(d))
    BY <1>3, ScalpNumbers, FS_Subset
<1>8. Cardinality(ScalpsOf(d)') + Cardinality(Picked(queue', d))
        <= Cardinality(ScalpsOf(d)) + Cardinality(Picked(queue, d))
    BY <1>4, <1>5, <1>6, <1>7, ScalpNumbers
<1>9. ScalpsUnderWay(d) <= ScalpCap - 1 + Backlog + MaxConcurrent
    BY DEF Overshoot
<1>10. ScalpsUnderWay(d)' =
        Cardinality(ScalpsOf(d)') + Cardinality(Picked(queue', d)) + Cardinality(CandidateScalps(d))
    BY <1>2 DEF ScalpsUnderWay
<1> QED
    BY <1>8, <1>9, <1>10, ScalpNumbers, ScannerAssumption DEF ScalpsUnderWay

(* Every step keeps the bound: a candidate is only moved on to the queue   *)
(* and from there to the active signals, and a new one found the cap       *)
(* unreached.                                                              *)
LEMMA ScalpsStep ==
    ASSUME ScanTypes, ScanTypes', Capacity, Capacity', Overshoot, [ScNext]_scVars
    PROVE  Overshoot'
<1> SUFFICES ASSUME NEW d \in Sides
             PROVE  ScalpsUnderWay(d)' <= ScalpCap - 1 + Backlog + MaxConcurrent
    BY DEF Overshoot
<1> DEFINE Bounded == ScalpsUnderWay(d)' <= ScalpCap - 1 + Backlog + MaxConcurrent
<1>1. ASSUME active' \subseteq active, queue' = queue,
             \A s \in Symbols : s \in CandidateScalps(d)' => s \in CandidateScalps(d)
      PROVE  Bounded
    <2>1. ScalpsOf(d)' \subseteq ScalpsOf(d)
        BY <1>1 DEF ScalpsOf
    <2>2. CandidateScalps(d)' \subseteq CandidateScalps(d)
        BY <1>1 DEF CandidateScalps
    <2> QED
        BY <1>1, <2>1, <2>2, NoMoreScalps
<1>2. CASE CycleSkipped \/ CycleEnds \/ TradeEnds \/ Tick \/ (\E s \in Symbols : Retier(s)) \/ UNCHANGED scVars
    <2>1. active' \subseteq active /\ queue' = queue /\ job' = job
        BY <1>2 DEF CycleSkipped, CycleEnds, TradeEnds, Tick, Retier, scVars
    <2> QED
        BY <1>1, <2>1 DEF CandidateScalps
<1>3. CASE CycleStarts \/ Prefetched
    <2>1. active' \subseteq active /\ queue' = queue
        BY <1>3 DEF CycleStarts, Prefetched
    <2>2. job' = job \/ \A s \in Symbols : job'[s] \in {Idle, Job("waiting", NoJob)}
        BY <1>3 DEF CycleStarts, Prefetched, Launch
    <2>3. \A s \in Symbols : s \in CandidateScalps(d)' => s \in CandidateScalps(d)
        BY <2>2 DEF CandidateScalps, Idle, Job
    <2> QED
        BY <1>1, <2>1, <2>3
<1>4. ASSUME NEW s \in Symbols, JobStarts(s) \/ JobFails(s) PROVE Bounded
    <2>1. active' = active /\ queue' = queue /\ job'[s].pc \notin {"verify", "put"}
          /\ \A t \in Symbols : t # s => job'[t] = job[t]
        BY <1>4 DEF JobStarts, JobFails, JobDone, ScanTypes, Idle, Job
    <2>2. \A t \in Symbols : t \in CandidateScalps(d)' => t \in CandidateScalps(d)
        BY <2>1 DEF CandidateScalps
    <2> QED
        BY <1>1, <2>1, <2>2
<1>5. ASSUME NEW s \in Symbols, ContextReady(s) PROVE Bounded
    BY <1>5, GoesOnScalps DEF ContextReady
<1>6. ASSUME NEW s \in Symbols, job[s].pc \in Suspended, NextChannel(s), active' = active, queue' = queue
      PROVE  Bounded
    <2>1. Position(job[s].sig.ch) + 1 \in Nat \ {0}
        BY <1>6, JobTypes, OrderedChannels DEF ScanTypes
    <2> QED
        BY <1>6, <2>1, GoesOnScalps DEF NextChannel
<1>7. ASSUME NEW s \in Symbols, Verified(s) PROVE Bounded
    <2>1. CASE job' = [job EXCEPT ![s].pc = "put"]
        <3>1. job[s].pc = "verify" /\ active' = active /\ queue' = queue
            BY <1>7 DEF Verified
        <3>2. \A t \in Symbols : t # s => job'[t] = job[t]
            BY <2>1 DEF ScanTypes
        <3>3. job[s] = Job("verify", job[s].sig)
            BY <3>1, JobTypes DEF ScanTypes, Suspended
        <3>4. job'[s].sig = job[s].sig
            BY <2>1, <3>3 DEF ScanTypes, Job
        <3>5. \A t \in Symbols : t \in CandidateScalps(d)' => t \in CandidateScalps(d)
            BY <3>1, <3>2, <3>4 DEF CandidateScalps
        <3> QED
            BY <1>1, <3>1, <3>5
    <2>2. CASE NextChannel(s)
        BY <1>6, <1>7, <2>2 DEF Verified, Suspended
    <2> QED
        BY <1>7, <2>1, <2>2 DEF Verified
<1>8. ASSUME NEW s \in Symbols, Pushed(s) PROVE Bounded
    BY <1>8, PushedScalps
<1>9. ASSUME NEW s \in Symbols, Accepted(s) \/ Refused(s) PROVE Bounded
    BY <1>6, <1>9 DEF Accepted, Refused, Suspended
<1>10. CASE RouterDecides
    BY <1>10, DecidedScalps
<1> QED
    BY <1>2, <1>3, <1>4, <1>5, <1>7, <1>8, <1>9, <1>10 DEF ScNext, LoopStep, JobStep

(* The scalp cap, which is read before the verification and the put, is    *)
(* overshot by no more than the signals that may be under way: the         *)
(* capacity of the queue and the number of concurrent jobs, for any cap,   *)
(* capacity and symbols.                                                   *)
THEOREM ScalpOvershootHolds == ScSpec => []ScalpOvershootBounded
<1>1. ScInit => Overshoot
    <2> SUFFICES ASSUME ScInit, NEW d \in Sides
                 PROVE  ScalpsUnderWay(d) <= ScalpCap - 1 + Backlog + MaxConcurrent
        BY DEF Overshoot
    <2>1. ScalpsOf(d) = {} /\ Picked(queue, d) = {} /\ CandidateScalps(d) = {}
        BY DEF ScInit, ScalpsOf, Picked, CandidateScalps, Idle, Job
    <2>2. ScalpsUnderWay(d) = 0
        BY <2>1, FS_EmptySet DEF ScalpsUnderWay
    <2> QED
        BY <2>2, ScannerAssumption
<1>2. Overshoot => ScalpOvershootBounded
    BY DEF Overshoot, ScalpOvershootBounded, ScalpsUnderWay, Picked, IsScalp, QueuedScalps
<1>3. /\ ScanTypes /\ Capacity /\ Overshoot /\ [ScNext]_scVars
           => ScanTypes' /\ Capacity' /\ Overshoot'
    BY TypesStep, CapacityStep, ScalpsStep
<1> QED
    BY <1>1, <1>2, <1>3, ScanInitInv, CapacityInit, PTL DEF ScSpec

(* Scanner.ScTypeOK: the types of the loop.  No permit is lost or released *)
(* twice, whichever way the jobs of a cycle end: the free ones stay within *)
(* 0..MaxConcurrent.                                                       *)
THEOREM ScannerTypes == ScSpec => []ScTypeOK
<1> DEFINE LoopTypes == /\ phase \in {"start", "prefetch", "jobs"}
                        /\ cycle \in 0..(CycleMod - 1)
                        /\ slow \in BOOLEAN
                        /\ picked \subseteq Symbols
                        /\ tier \in [Symbols -> 1..3]
                        /\ active \subseteq Signal
<1>1. ScInit => LoopTypes
    <2>1. 0 \in 0..(CycleMod - 1)
        BY ScannerAssumption
    <2>2. ScInit => tier \in [Symbols -> 1..3]
        BY DEF ScInit
    <2>3. ScInit => phase = "start" /\ cycle = 0 /\ slow = FALSE /\ picked = {} /\ active = {}
        BY DEF ScInit
    <2>4. ScInit => picked \subseteq Symbols /\ active \subseteq Signal
        BY <2>3
    <2> QED
        BY <2>1, <2>2, <2>3, <2>4
<1>2. ASSUME ScanTypes, LoopTypes, [ScNext]_scVars
      PROVE  LoopTypes'
    <2>1. NextCycle \in 0..(CycleMod - 1)
        BY <1>2, ScannerAssumption DEF NextCycle
    <2>2. \A n, degraded, act : PickPairs(act, n, degraded) \subseteq Symbols
        BY DEF PickPairs, Largest
    <2>3. CASE CycleSkipped
        BY <1>2, <2>1, <2>3 DEF CycleSkipped
    <2>4. CASE CycleStarts
        BY <1>2, <2>1, <2>2, <2>4 DEF CycleStarts, Launch
    <2>5. CASE Prefetched
        BY <1>2, <2>5 DEF Prefetched, Launch
    <2>6. CASE CycleEnds
        BY <1>2, <2>6 DEF CycleEnds
    <2>7. ASSUME NEW s \in Symbols, Retier(s) PROVE LoopTypes'
        BY <1>2, <2>7 DEF Retier
    <2>8. ASSUME NEW s \in Symbols, JobStep(s) PROVE LoopTypes'
        BY <1>2, <2>8 DEF JobStep, JobStarts, ContextReady, Verified, Pushed, Accepted, Refused, JobFails
    <2>9. CASE RouterDecides
        <3>1. Head(queue) \in Signal
            BY <1>2, <2>9 DEF RouterDecides, ScanTypes
        <3> QED
            BY <1>2, <2>9, <3>1 DEF RouterDecides
    <2>10. CASE TradeEnds \/ Tick
        BY <1>2, <2>10 DEF TradeEnds, Tick
    <2>11. CASE UNCHANGED scVars
        BY <1>2, <2>11 DEF scVars
    <2> QED
        BY <1>2, <2>3, <2>4, <2>5, <2>6, <2>7, <2>8, <2>9, <2>10, <2>11 DEF ScNext, LoopStep
<1>3. ScanTypes /\ Capacity /\ LoopTypes => ScTypeOK
    <2> SUFFICES ASSUME ScanTypes, Capacity, LoopTypes PROVE ScTypeOK
        OBVIOUS
    <2>1. Cardinality(RunningJobs) \in Nat
        BY RunningFinite
    <2>2. permits \in 0..MaxConcurrent
        BY <2>1, ScannerAssumption DEF Capacity
    <2> QED
        BY <2>2 DEF ScanTypes, ScTypeOK
<1>4. ScanTypes /\ Capacity /\ [ScNext]_scVars => ScanTypes' /\ Capacity'
    BY TypesStep, CapacityStep
<1> HIDE DEF LoopTypes
<1> QED
    BY <1>1, <1>2, <1>3, <1>4, ScanInitInv, CapacityInit, PTL DEF ScSpec

-----------------------------------------------------------------------------
(***************************************************************************)
(* SignalPipeline: the tier of an offered signal                           *)
(***************************************************************************)

(* The arithmetic of the scores stays within the integers.                 *)
LEMMA IntegerOperators ==
    \A a, b \in Int :
      /\ Larger(a, b) \in Int /\ Smaller(a, b) \in Int /\ Dist(a, b) \in Int /\ Pct(a, b) \in Int
      /\ AbsVal(a) \in Int /\ Or(a, b) \in Int
BY DEF Larger, Smaller, Dist, Pct, AbsVal, Or

(* A value is kept between two bounds.                                     *)
LEMMA BetweenBounds == \A a, low, high \in Int : Between(a, low, high) \in Int
BY DEF Between, Larger, Smaller

(* The quality of a pair is a number.                                      *)
LEMMA PairScoreNumber ==
    ASSUME NEW volume \in Int, NEW spread \in Int, NEW t, IsIndicators(t)
    PROVE  PairScore(volume, spread, t) \in Int
<1>1. t.close \in Int /\ t.close > 0 /\ t.atr \in Int /\ t.wick \in Int
    BY DEF IsIndicators
<1>2. AtrPercent(t) \in Int
    BY <1>1 DEF AtrPercent
<1>3. VolatilityScore(AtrPercent(t)) \in Int
    BY <1>2 DEF VolatilityScore, Larger
<1>4. /\ Between(10000 - spread * 500, 0, 10000) \in Int
      /\ Between((volume * 10) \div 15, 0, 10000) \in Int
    BY BetweenBounds
<1>5. Between(10000 - Larger(t.wick - 100, 0) * 35, 0, 10000) \in Int
    <2>1. Larger(t.wick - 100, 0) \in Int
        BY <1>1 DEF Larger
    <2> QED
        BY <2>1, BetweenBounds
<1> QED
    BY <1>3, <1>4, <1>5 DEF PairScore

(* The first sub-scores are numbers.                                       *)
LEMMA SubScoreNumbers ==
    ASSUME NEW x, IsContext(x), NEW t, IsIndicators(t), NEW d, NEW chan, NEW v, NEW sentiment \in Int
    PROVE  /\ ScoreSmc(x.z) \in Int /\ ScoreTrend(d, t) \in Int
           /\ ScoreLiquidity(chan, x.volume) \in Int /\ ScoreSpread(x.spread) \in Int
           /\ ScoreDataSufficiency(x.candles) \in Int /\ ScoreMultiExchange(v) \in Int
           /\ ScoreOrderFlow(d, x.flow) \in Int /\ ScoreSentiment(chan, sentiment) \in Int
<1> USE DEF Smaller, Larger, AbsVal, Dist, Between
<1>1. /\ {x.spread, x.volume, x.candles, x.flow.liquidated, x.flow.funding, x.z.depth, x.z.gap} \subseteq Int
      /\ {t.adx, t.mom} \subseteq Int
    BY DEF IsContext, IsDetection, IsIndicators
<1>2. ScoreSmc(x.z) \in Int
    <2>1. Smaller(x.z.depth * 10, 500) \in Int /\ Smaller((x.z.gap * 4) \div 3, 200) \in Int
        BY <1>1
    <2> DEFINE swept == IF x.z.sweeps = <<>> THEN 0 ELSE 1000 + Smaller(x.z.depth * 10, 500)
               shifted == IF x.z.mss = <<>> THEN 0 ELSE 1100
               gaps == IF x.z.zones # <<>> THEN 200 + Smaller((x.z.gap * 4) \div 3, 200) ELSE 0
    <2>2. swept \in Int /\ shifted \in Int /\ gaps \in Int
        BY <2>1
    <2>3. ScoreSmc(x.z) = Smaller(3000, swept + shifted + gaps)
        BY ONLY DEF ScoreSmc
    <2> HIDE DEF swept, shifted, gaps
    <2> QED
        BY <2>2, <2>3
<1>3. ScoreTrend(d, t) \in Int
    <2>1. Smaller((t.adx - 2000) \div 4, 500) \in Int
        BY <1>1
    <2>2. Smaller(AbsVal(t.mom) * 4, 400) \in Int
        <3>1. AbsVal(t.mom) \in Int
            BY <1>1
        <3> QED
            BY <3>1
    <2>3. MacdBonus(d, t.hist) \in Int
        BY DEF MacdBonus
    <2> QED
        BY <2>1, <2>2, <2>3 DEF ScoreTrend
<1>4. ScoreLiquidity(chan, x.volume) \in Int
    <2>1. LiquidityThreshold(chan) \in {1000, 5000, 10000}
        BY DEF LiquidityThreshold
    <2>2. (x.volume * 2000) \div LiquidityThreshold(chan) \in Int
        BY <1>1, <2>1
    <2> QED
        BY <2>2 DEF ScoreLiquidity
<1>5. ScoreSpread(x.spread) \in Int /\ ScoreDataSufficiency(x.candles) \in Int /\ ScoreMultiExchange(v) \in Int
    BY <1>1 DEF ScoreSpread, ScoreDataSufficiency, ScoreMultiExchange
<1>6. ScoreOrderFlow(d, x.flow) \in Int
    <2>1. Smaller(x.flow.liquidated, 500) \in Int
        BY <1>1
    <2>2. AbsVal(x.flow.funding) \in Int
        BY <1>1
    <2>3. Smaller((AbsVal(x.flow.funding) * 5) \div 3, 500) \in Int
        BY <2>2
    <2> QED
        BY <2>1, <2>3 DEF ScoreOrderFlow
<1>7. ScoreSentiment(chan, sentiment) \in Int
    <2>1. Between(sentiment, -100, 100) \in Int
        OBVIOUS
    <2> QED
        BY <2>1 DEF ScoreSentiment
<1> QED
    BY <1>2, <1>3, <1>4, <1>5, <1>6, <1>7

(* The weights of a channel and of a session are numbers.                  *)
LEMMA WeightNumbers ==
    ASSUME NEW chan, NEW session
    PROVE  Weights(chan) \in [Scores -> Int] /\ SessionMultiplier(chan, session) \in Int
<1>1. Weights(chan) \in [Scores -> Int]
    BY DEF Weights, Scores
<1>2. SessionMultiplier(chan, session) \in Int
    BY DEF SessionMultiplier
<1> QED
    BY <1>1, <1>2

(* The first confidence is a number.                                       *)
LEMMA ConfidenceNumber ==
    ASSUME NEW in \in [Scores -> Int], NEW chan, NEW session, NEW history
    PROVE  ComputeConfidence(chan, in, session, history) \in Int
<1> DEFINE w == Weights(chan)
           part(s) == Pct(in[s], w[s])
<1>1. \A s \in Scores : part(s) \in Int
    BY WeightNumbers, IntegerOperators
<1> HIDE DEF part
<1> DEFINE sum == part("smc") + part("trend") + part("liquidity") + part("spread") + part("data")
                  + part("exchanges") + part("onchain") + part("flow") + part("sentiment")
<1>2. sum \in Int
    BY <1>1 DEF Scores
<1> HIDE DEF sum
<1>3. Pct(sum, SessionMultiplier(chan, session)) \in Int
    BY <1>2, WeightNumbers, IntegerOperators
<1>4. Between(Pct(sum, SessionMultiplier(chan, session)), 0, 10000) \in Int
    BY <1>3, BetweenBounds
<1>5. Smaller(Between(Pct(sum, SessionMultiplier(chan, session)), 0, 10000), NewPairCap) \in Int
    BY <1>4, IntegerOperators DEF NewPairCap
<1> QED
    BY <1>4, <1>5 DEF ComputeConfidence, sum, part

(* A division by a positive number gives a number.                         *)
LEMMA Quotient == \A n, m \in Int : m > 0 => n \div m \in Int
OBVIOUS

(* The prediction adjusts the confidence by a number, and the distances of *)
(* the levels by positive factors.                                         *)
LEMMA PredictionNumber ==
    ASSUME NEW t, IsIndicators(t)
    PROVE  /\ Predict(t).adj \in Int
           /\ Predict(t).tpBy \in Int /\ Predict(t).tpBy > 0
           /\ Predict(t).slBy \in Int /\ Predict(t).slBy > 0
<1> USE DEF Smaller, Larger, AbsVal, Dist, Or
<1>1. {t.close, t.ema9, t.ema21, t.rsi, t.adx, t.mom, t.bbUpper, t.bbLower} \subseteq Int
    BY DEF IsIndicators
<1>2. \A a \in Int : Clip(a) \in Int
    BY BetweenBounds DEF Clip
<1>3. Features(t).ema \in Int
    <2>1. t.ema21 > 0 => ((t.ema9 - t.ema21) * 50000) \div t.ema21 \in Int
        BY <1>1
    <2> QED
        BY <1>2, <2>1 DEF Features
<1>4. Features(t).rsi \in Int
    <2>1. Or(t.rsi, 50) \in Int
        BY <1>1
    <2> QED
        BY <1>2, <2>1 DEF Features
<1>5. Features(t).bb \in Int
    <2>1. t.bbUpper > t.bbLower =>
            ((t.close - t.bbLower) * 2000) \div (t.bbUpper - t.bbLower) - 1000 \in Int
        BY <1>1
    <2> QED
        BY <1>2, <2>1 DEF Features
<1>6. Features(t).mom \in Int
    BY <1>1, <1>2 DEF Features
<1>7. PredictionScore(t) \in Int
    <2> DEFINE f == Features(t)
               raw == (45 * f.ema + 15 * f.rsi + 15 * f.bb + 25 * f.mom) \div 100
               conviction == 500 + Smaller(Or(t.adx, 2000) \div 10, 500)
    <2>1. raw \in Int
        BY <1>3, <1>4, <1>5, <1>6
    <2>2. Or(t.adx, 2000) \in Int
        BY <1>1
    <2>3. conviction \in Int
        BY <2>2
    <2> HIDE DEF raw, conviction
    <2>4. (raw * conviction) \div 1000 \in Int
        BY <2>1, <2>3
    <2> QED
        BY <1>2, <2>4 DEF PredictionScore, raw, conviction
<1>8. AbsVal(PredictionScore(t)) \in Int /\ AbsVal(PredictionScore(t)) >= 0
    BY <1>7
<1>9. (t.atr * 10000) \div t.close \in Int
    BY Quotient DEF IsIndicators
<1>10. ASSUME NEW a \in Int, a >= 0, NEW atr \in Int
       PROVE  LET tpBy == IF atr > 0 THEN Smaller(115, 100 + (atr * 3) \div 10) ELSE 100 + a \div 100
                  slBy == IF atr > 0 THEN Larger(85, 100 - a \div 100) ELSE Larger(85, 100 - a \div 200)
              IN  tpBy \in Int /\ tpBy > 0 /\ slBy \in Int /\ slBy > 0
    BY <1>10
<1> QED
    BY <1>8, <1>9, <1>10 DEF Predict

(* The confidence before the components is a number.                       *)
LEMMA LegacyNumber ==
    ASSUME NEW x, IsContext(x), NEW sig, NEW verified, NEW sentiment \in Int
    PROVE  LegacyConfidence(sig, x, verified, sentiment) \in Int
<1>1. IsIndicators(Fast(x)) /\ x.onchain \in Int
    BY DEF IsContext, Fast
<1> DEFINE in == [smc |-> ScoreSmc(x.z), trend |-> ScoreTrend(sig.dir, Fast(x)),
         liquidity |-> ScoreLiquidity(sig.chan, x.volume), spread |-> ScoreSpread(x.spread),
         data |-> ScoreDataSufficiency(x.candles), exchanges |-> ScoreMultiExchange(verified),
         onchain |-> x.onchain, flow |-> ScoreOrderFlow(sig.dir, x.flow),
         sentiment |-> ScoreSentiment(sig.chan, sentiment)]
<1>2. in \in [Scores -> Int]
    BY <1>1, SubScoreNumbers DEF Scores
<1>3. BaseConfidence(sig, x, verified, sentiment) \in Int
    BY <1>2, ConfidenceNumber DEF BaseConfidence
<1>4. Predict(Fast(x)).adj \in Int
    BY <1>1, PredictionNumber
<1>5. ASSUME NEW conf \in Int, NEW p, p.adj \in Int
      PROVE  UpdatedConfidence(conf, sig.dir, p) \in Int
    <2>1. conf + p.adj \in Int /\ conf - p.adj \in Int
        BY <1>5
    <2>2. \A n \in Int : Between(n, 0, 10000) \in Int
        BY BetweenBounds
    <2> QED
        BY <2>1, <2>2 DEF UpdatedConfidence
<1> DEFINE boost == IF sig.chan = "SCALP" /\ x.regime = "RANGING" /\ sig.setup = "RANGE_FADE" THEN 500 ELSE 0
<1>6. BaseConfidence(sig, x, verified, sentiment) + boost \in Int
    BY <1>3
<1> QED
    BY <1>4, <1>5, <1>6 DEF LegacyConfidence

(* The agreement of the timeframes is a number, also when none is known.   *)
LEMMA AgreementNumber ==
    ASSUME NEW d, NEW x
    PROVE  Agreement(d, x) \in Int
<1> DEFINE tfs == Averages(x, {"5m", "15m", "1h", "4h"})
           weight == [tf \in Timeframes |-> TfWeight(tf)]
           wanted == IF d = "LONG" THEN "BULLISH" ELSE "BEARISH"
           credit(tf) == CASE Trend(tfs[tf]) = wanted -> 100 [] Trend(tfs[tf]) = "NEUTRAL" -> 50 [] OTHER -> 0
           all == [tf \in Timeframes |-> IF tf \in DOMAIN tfs THEN weight[tf] ELSE 0]
           agreeing == [tf \in Timeframes |-> IF tf \in DOMAIN tfs THEN weight[tf] * credit(tf) ELSE 0]
           top == agreeing["1m"] + agreeing["5m"] + agreeing["15m"] + agreeing["1h"] + agreeing["4h"]
           bottom == all["1m"] + all["5m"] + all["15m"] + all["1h"] + all["4h"]
<1>1. \A tf \in Timeframes : weight[tf] \in 1..30
    BY DEF Timeframes, TfWeight
<1>2. \A tf : credit(tf) \in {0, 50, 100}
    OBVIOUS
<1>3. DOMAIN tfs \subseteq Timeframes
    BY DEF Averages, Timeframes
<1>4. Agreement(d, x) = IF DOMAIN tfs = {} THEN 0 ELSE top \div bottom
    BY DEF Agreement, Confluence, SumOverTimeframes
<1> HIDE DEF tfs, weight, credit
<1>5. \A tf \in Timeframes : agreeing[tf] \in Int /\ all[tf] \in Nat /\ (tf \in DOMAIN tfs => all[tf] > 0)
    BY <1>1, <1>2
<1> HIDE DEF agreeing, all
<1>6. top \in Int /\ bottom \in Nat
    BY <1>5 DEF Timeframes
<1>7. DOMAIN tfs # {} => bottom > 0
    BY <1>3, <1>5 DEF Timeframes
<1> HIDE DEF top, bottom
<1>8. CASE DOMAIN tfs = {}
    BY <1>4, <1>8
<1>9. CASE DOMAIN tfs # {}
    <2>1. bottom \in Int /\ bottom > 0
        BY <1>6, <1>7, <1>9
    <2>2. top \div bottom \in Int
        BY <1>6, <2>1
    <2>3. Agreement(d, x) = top \div bottom
        BY <1>4, <1>9, Zenon
    <2> QED
        BY <2>2, <2>3, Zenon
<1> QED
    BY <1>8, <1>9

(* The soft gates cost a number of points.                                 *)
LEMMA PenaltyNumber ==
    ASSUME NEW c, NEW d, NEW x, NEW entry
    PROVE  SoftPenalty(c, d, x, entry) \in Int
<1> DEFINE cost(gate) == IF gate \in SoftGates(c) /\ ~Passes(gate, c, d, x, entry)
                         THEN GateWeight(c, gate) * Severity(c, x.regime) * 10 ELSE 0
<1>1. \A gate : GateWeight(c, gate) \in Int
    BY DEF GateWeight
<1>2. Severity(c, x.regime) \in Int
    BY DEF Severity
<1>3. \A gate : cost(gate) \in Int
    BY <1>1, <1>2
<1>4. SoftPenalty(c, d, x, entry) =
        cost("vwap") + cost("kill_zone") + cost("oi") + cost("spoof") + cost("volume_div") + cost("cluster")
    BY DEF SoftPenalty
<1> HIDE DEF cost
<1> QED
    BY <1>3, <1>4

(* The volatility a plan reckons with is at least a percent of the entry.  *)
LEMMA RiskAtrNumber ==
    ASSUME NEW entry \in Int, entry >= 100, NEW m, m.atr \in Int
    PROVE  RiskAtr(entry, m) \in Int /\ RiskAtr(entry, m) > 0
<1>1. entry \div 100 \in Int /\ entry \div 100 > 0
    OBVIOUS
<1> QED
    BY <1>1 DEF RiskAtr, Larger

(* A whole price is a multiple of 1e-8.                                    *)
Whole(p) == p \in Int /\ p % 100 = 0

(* Levels that are whole prices and in order.                              *)
LevelsFit(entry, d, stop, tp) ==
    /\ Whole(stop) /\ Beyond(entry, stop, d)
    /\ DOMAIN tp = 1..3 /\ \A i \in 1..3 : Whole(tp[i])
    /\ Beyond(tp[1], entry, d) /\ Beyond(tp[2], tp[1], d) /\ Beyond(tp[3], tp[2], d)

(* Rounding gives a whole price.                                           *)
LEMMA RoundedWhole == \A p \in Int : Whole(Round8(p))
BY DEF Round8, Whole

(* Targets at growing multiples of a risk of at least one unit stay apart  *)
(* when they are rounded: the multiples differ by more than 0.8, and a     *)
(* risk of one unit takes them to 1, 2 and 3 units.                        *)
LEMMA TargetsApart ==
    ASSUME NEW entry, Whole(entry), NEW risk, Whole(risk), risk > 0, NEW d,
           NEW one \in {120, 130, 140}, NEW two \in {210, 220, 230}, NEW three \in {300, 320, 340}
    PROVE  LET far(r) == Round8(Toward(entry, d, Pct(risk, r)))
           IN  /\ Whole(far(one)) /\ Whole(far(two)) /\ Whole(far(three))
               /\ Beyond(far(one), entry, d) /\ Beyond(far(two), far(one), d) /\ Beyond(far(three), far(two), d)
<1>1. PICK k \in Int : risk = 100 * k
    BY DEF Whole
<1>2. PICK e \in Int : entry = 100 * e
    BY DEF Whole
<1>3. k > 0
    BY <1>1
<1>4. \A r \in Int : Pct(risk, r) = k * r
    <2> TAKE r \in Int
    <2> DEFINE n == k * r
    <2>1. n \in Int
        OBVIOUS
    <2>2. risk * r = 100 * n
        BY <1>1
    <2> HIDE DEF n
    <2>3. (100 * n) \div 100 = n
        BY <2>1
    <2> QED
        BY <2>2, <2>3 DEF Pct, n
<1>5. ASSUME NEW n \in Int PROVE Round8(100 * e + n) = 100 * (e + (n + 50) \div 100)
    BY DEF Round8
<1>6. ASSUME NEW n \in Int PROVE Round8(100 * e - n) = 100 * (e - (n + 49) \div 100)
    BY DEF Round8
<1> DEFINE a == k * one
           b == k * two
           c == k * three
<1>7. /\ a \in Int /\ b \in Int /\ c \in Int
      /\ 120 * k <= a /\ a <= 140 * k
      /\ 210 * k <= b /\ b <= 230 * k
      /\ 300 * k <= c
    BY <1>3
<1>8. one \in Int /\ two \in Int /\ three \in Int
    OBVIOUS
<1>9. Pct(risk, one) = a /\ Pct(risk, two) = b /\ Pct(risk, three) = c
    <2>1. Pct(risk, one) = a
        BY <1>4, <1>8
    <2>2. Pct(risk, two) = b
        BY <1>4, <1>8
    <2>3. Pct(risk, three) = c
        BY <1>4, <1>8
    <2> QED
        BY <2>1, <2>2, <2>3
<1> HIDE DEF a, b, c
<1>10. \A bias \in {49, 50} :
         /\ 0 < (a + bias) \div 100
         /\ (a + bias) \div 100 < (b + bias) \div 100
         /\ (b + bias) \div 100 < (c + bias) \div 100
    BY <1>3, <1>7
<1>11. CASE d = "LONG"
    <2>1. /\ Round8(Toward(entry, d, a)) = 100 * (e + (a + 50) \div 100)
          /\ Round8(Toward(entry, d, b)) = 100 * (e + (b + 50) \div 100)
          /\ Round8(Toward(entry, d, c)) = 100 * (e + (c + 50) \div 100)
        BY <1>2, <1>5, <1>7, <1>11 DEF Toward
    <2> QED
        BY <1>2, <1>7, <1>9, <1>10, <1>11, <2>1 DEF Beyond, Whole
<1>12. CASE d # "LONG"
    <2>1. /\ Round8(Toward(entry, d, a)) = 100 * (e - (a + 49) \div 100)
          /\ Round8(Toward(entry, d, b)) = 100 * (e - (b + 49) \div 100)
          /\ Round8(Toward(entry, d, c)) = 100 * (e - (c + 49) \div 100)
        BY <1>2, <1>6, <1>7, <1>12 DEF Toward
    <2> QED
        BY <1>2, <1>7, <1>9, <1>10, <1>12, <2>1 DEF Beyond, Whole
<1> QED
    BY <1>11, <1>12

(* The stop of a plan is a whole price, and the buffer behind it a number. *)
LEMMA StopWhole ==
    ASSUME NEW chan \in Channels, NEW entry \in Int, entry >= 100, NEW d, NEW m,
           {m.atr, m.extreme, m.sweep, m.spread} \subseteq Int
    PROVE  Whole(PlannedStop(chan, entry, d, m)) /\ RiskBuffer(entry, m) \in Int
<1>1. RiskAtr(entry, m) \in Int
    BY RiskAtrNumber
<1>2. RiskBuffer(entry, m) \in Int
    BY <1>1 DEF RiskBuffer, Larger, Pct
<1>3. Structure(entry, d, m) \in Int
    BY <1>1 DEF Structure, Farther, Toward
<1>4. MaxStop[chan] \in Int
    BY DEF MaxStop, Channels, Scalps
<1>5. (entry * MaxStop[chan]) \div 10000 \in Int
    BY <1>4
<1>6. \A cap \in Int : Whole(Round8(Toward(entry, d, -cap)))
    BY RoundedWhole DEF Toward
<1>7. Toward(Structure(entry, d, m), d, -RiskBuffer(entry, m)) \in Int
    BY <1>2, <1>3 DEF Toward
<1>8. Whole(Round8(Toward(Structure(entry, d, m), d, -RiskBuffer(entry, m))))
    BY <1>7, RoundedWhole
<1> QED
    BY <1>2, <1>5, <1>6, <1>8 DEF PlannedStop

(* The reward for the risk of a plan is a number: a plan whose risk is not *)
(* positive is rejected before the division.                               *)
LEMMA PlanNumber ==
    ASSUME NEW chan \in Channels, NEW entry \in Int, entry >= 100, NEW d, NEW setup, NEW m,
           {m.atr, m.extreme, m.sweep, m.bbMid, m.bbUpper, m.bbLower, m.spread} \subseteq Int
    PROVE  LET plan == RiskPlan(chan, entry, d, setup, m)
           IN  plan = Rejected \/ (plan.rejected = FALSE /\ plan.r \in Int)
<1> DEFINE stop == PlannedStop(chan, entry, d, m)
           risk == Dist(entry, stop)
           tp == PlannedTargets(entry, d, risk, setup, m)
           tight == Larger((entry * 3) \div 10000, RiskBuffer(entry, m) \div 2)
<1>1. {m.atr, m.extreme, m.sweep, m.bbMid, m.bbUpper, m.bbLower, m.spread} \subseteq Int
    OBVIOUS
<1>2. RiskBuffer(entry, m) \in Int
    BY StopWhole
<1>4. stop \in Int
    BY StopWhole DEF Whole
<1> HIDE DEF stop
<1>5. risk \in Int
    BY <1>4 DEF Dist
<1>6. tight \in Int /\ tight >= 0
    <2>1. (entry * 3) \div 10000 \in Int /\ (entry * 3) \div 10000 >= 0
        OBVIOUS
    <2>2. RiskBuffer(entry, m) \div 2 \in Int
        BY <1>2
    <2> QED
        BY <2>1, <2>2 DEF Larger
<1> HIDE DEF risk
<1>7. tp[1] \in Int
    <2> DEFINE far(r) == Toward(entry, d, Pct(risk, r))
               bb(level, default) == IF level = None THEN default ELSE level
    <2>1. \A r \in Int : far(r) \in Int
        BY <1>5 DEF Toward, Pct
    <2>2. Farther(far(90), bb(m.bbMid, entry), d) \in Int
        BY <1>1, <2>1 DEF Farther
    <2>3. tp[1] \in {Farther(far(90), bb(m.bbMid, entry), d), far(120), far(140), far(130)}
        BY DEF PlannedTargets
    <2> QED
        BY <2>1, <2>2, <2>3
<1> HIDE DEF tp, tight
<1>8. risk > tight => RiskMultiple(entry, risk, tp[1]) \in Int
    <2>1. Dist(entry, tp[1]) \in Int
        BY <1>7 DEF Dist
    <2>2. Dist(entry, tp[1]) * 100 + risk \div 2 \in Int
        BY <1>5, <2>1
    <2>3. risk > tight => risk > 0
        BY <1>5, <1>6
    <2> QED
        BY <1>5, <2>2, <2>3, Quotient DEF RiskMultiple
<1>9. ~(risk <= tight) => risk > tight
    BY <1>5, <1>6
<1>10. RiskPlan(chan, entry, d, setup, m) =
        IF WrongSide(stop, entry, d) \/ risk <= tight THEN Rejected
        ELSE IF \/ RiskMultiple(entry, risk, tp[1]) < (IF setup = "RANGE_REJECTION" THEN 90 ELSE 120)
                \/ stop <= 0 \/ \E i \in DOMAIN tp : tp[i] <= 0
                \/ risk * 20 > entry
        THEN Rejected
        ELSE [rejected |-> FALSE, stop |-> stop, tp |-> [i \in DOMAIN tp |-> Round8(tp[i])],
              r |-> RiskMultiple(entry, risk, tp[1])]
    BY DEF RiskPlan, stop, risk, tp, tight
<1> QED
    BY <1>8, <1>9, <1>10

(* A plan that does not aim at the bands has its levels in order, whatever *)
(* the digits of the price.                                                *)
LEMMA PlanLevels ==
    ASSUME NEW chan \in Channels, NEW entry, Whole(entry), entry >= 100, NEW d, NEW setup,
           setup # "RANGE_REJECTION", NEW m, {m.atr, m.extreme, m.sweep, m.spread} \subseteq Int
    PROVE  LET plan == RiskPlan(chan, entry, d, setup, m)
           IN  plan = Rejected \/ LevelsFit(entry, d, plan.stop, plan.tp)
<1> DEFINE stop == PlannedStop(chan, entry, d, m)
           risk == Dist(entry, stop)
           tp == PlannedTargets(entry, d, risk, setup, m)
           rounded == [i \in DOMAIN tp |-> Round8(tp[i])]
           plan == RiskPlan(chan, entry, d, setup, m)
<1>1. plan = Rejected \/ (~WrongSide(stop, entry, d) /\ plan.stop = stop /\ plan.tp = rounded)
    BY DEF RiskPlan
<1> HIDE DEF plan
<1>2. Whole(stop)
    BY StopWhole DEF Whole
<1> HIDE DEF stop
<1>3. Whole(risk)
    BY <1>2 DEF Dist, Whole
<1>4. ASSUME Beyond(entry, stop, d)
      PROVE  risk > 0
    BY <1>2, <1>4 DEF Dist, Beyond, Whole
<1> HIDE DEF risk
<1>5. ASSUME Beyond(entry, stop, d)
      PROVE  LevelsFit(entry, d, stop, rounded)
    <2> DEFINE far(r) == Toward(entry, d, Pct(risk, r))
    <2>1. PICK one \in {120, 130, 140}, two \in {210, 220, 230}, three \in {300, 320, 340} :
            tp = <<far(one), far(two), far(three)>>
        BY DEF PlannedTargets
    <2>2. /\ Whole(Round8(far(one))) /\ Whole(Round8(far(two))) /\ Whole(Round8(far(three)))
          /\ Beyond(Round8(far(one)), entry, d) /\ Beyond(Round8(far(two)), Round8(far(one)), d)
          /\ Beyond(Round8(far(three)), Round8(far(two)), d)
        BY <1>3, <1>4, <1>5, TargetsApart
    <2> HIDE DEF far, tp
    <2>3. DOMAIN tp = 1..3 /\ tp[1] = far(one) /\ tp[2] = far(two) /\ tp[3] = far(three)
        BY <2>1
    <2>4. DOMAIN rounded = 1..3
          /\ rounded[1] = Round8(far(one)) /\ rounded[2] = Round8(far(two)) /\ rounded[3] = Round8(far(three))
        BY <2>3
    <2> HIDE DEF rounded
    <2>5. \A i \in 1..3 : Whole(rounded[i])
        <3>1. \A i \in 1..3 : i = 1 \/ i = 2 \/ i = 3
            OBVIOUS
        <3> QED
            BY <2>2, <2>4, <3>1
    <2> QED
        BY <1>2, <1>5, <2>2, <2>4, <2>5 DEF LevelsFit
<1> QED
    BY <1>1, <1>5 DEF WrongSide, plan

(* What the detector found last is well formed.                            *)
LEMMA DetectionHeads ==
    ASSUME NEW z, IsDetection(z)
    PROVE  /\ z.sweeps # <<>> => z.sweeps[1].dir \in Directions /\ z.sweeps[1].level \in Int
           /\ z.mss # <<>> => z.mss[1].dir \in Directions /\ z.mss[1].mid \in Int
<1>1. ASSUME NEW S, NEW s \in Seq(S), s # <<>>
      PROVE  s[1] \in S
    BY <1>1
<1>2. /\ z.sweeps # <<>> => z.sweeps[1] \in [dir : Directions, level : Int, age : Int, body : Int]
      /\ z.mss # <<>> => z.mss[1] \in [dir : Directions, mid : Int]
    BY <1>1 DEF IsDetection
<1> QED
    BY <1>2

(* How far the entry has run from its anchor is a number.                  *)
LEMMA ExtensionNumber ==
    ASSUME NEW setup, NEW entry \in Int, entry >= 100, NEW d, NEW t, IsIndicators(t), NEW z, IsDetection(z)
    PROVE  Extension(setup, entry, d, t, z) \in Int
<1>1. {t.atr, t.ema9, t.ema21, t.bbMid, t.bbLower, t.bbUpper} \subseteq Int
    BY DEF IsIndicators
<1>2. /\ z.sweeps # <<>> => z.sweeps[1].level \in Int
      /\ z.mss # <<>> => z.mss[1].mid \in Int
    BY DetectionHeads
<1>3. Anchor(setup, entry, d, t, z) \in Int
    BY <1>1, <1>2 DEF Anchor, Or
<1>4. Dist(entry, Anchor(setup, entry, d, t, z)) \in Int
    BY <1>3 DEF Dist
<1> DEFINE atr == RiskAtr(entry, t)
<1>5. atr \in Int /\ atr > 0
    BY <1>1, RiskAtrNumber
<1> HIDE DEF atr
<1>6. Dist(entry, Anchor(setup, entry, d, t, z)) * 100 + atr \div 2 \in Int
    BY <1>4, <1>5
<1> QED
    BY <1>5, <1>6, Quotient DEF Extension, atr

(* The parts of the component score are numbers.                           *)
LEMMA TotalNumber ==
    ASSUME NEW quality \in Int, NEW chan, NEW setup, NEW state, NEW triggered, NEW ext \in Int,
           NEW r \in Int, NEW legacy \in Int, NEW verified
    PROVE  TotalScore(Components(quality, chan, setup, state, triggered, ext, r, legacy, verified)) \in Int
<1> DEFINE c == Components(quality, chan, setup, state, triggered, ext, r, legacy, verified)
<1>1. c.market \in Int
    BY DEF Components, Smaller
<1>2. c.setup \in Int
    BY DEF Components
<1>3. c.execution \in Int
    <2>1. Larger(ext - 40, 0) \in Int
        BY DEF Larger
    <2>2. Larger(0, 600 - Larger(ext - 40, 0) * 4) \in Int
        BY <2>1, IntegerOperators
    <2> QED
        BY <2>2 DEF Components
<1>4. c.risk \in Int
    <2>1. Smaller(r, 250) \in Int
        BY DEF Smaller
    <2>2. 800 + (Smaller(r, 250) * 48) \div 10 \in Int
        BY <2>1
    <2> QED
        BY <2>2, IntegerOperators DEF Components
<1>5. c.context \in Int
    <2>1. Between(legacy, 0, 10000) \in Int
        BY BetweenBounds
    <2>2. ContextScore(legacy, verified) \in Int
        BY <2>1 DEF ContextScore, Smaller, Larger
    <2> QED
        BY <2>2, IntegerOperators DEF Components
<1> HIDE DEF c
<1>6. TotalScore(c) \in Int
    BY <1>1, <1>2, <1>3, <1>4, <1>5 DEF TotalScore
<1> QED
    BY <1>6 DEF c

(* So is the composite score.                                              *)
LEMMA CompositeNumber ==
    ASSUME NEW d, NEW setup, NEW regime, NEW atrPct, NEW ratio, NEW t, NEW z, NEW patterns \in Int, NEW mtf \in Int
    PROVE  CompositeScore(d, setup, regime, atrPct, ratio, t, z, patterns, mtf) \in Int
<1>1. SmcPoints(z) \in Int
    BY DEF SmcPoints, Smaller
<1>2. RegimePoints(regime, setup, atrPct) \in Int
    BY DEF RegimePoints
<1>3. VolumePoints(ratio) \in Int
    BY DEF VolumePoints
<1>4. MacdPoints(d, t.hist) \in Int /\ RsiPoints(d, t.rsi) \in Int /\ EmaPoints(d, t.ema9, t.ema21) \in Int
    BY DEF MacdPoints, RsiPoints, EmaPoints
<1>5. Smaller(2000, MacdPoints(d, t.hist) + RsiPoints(d, t.rsi) + EmaPoints(d, t.ema9, t.ema21)) \in Int
    BY <1>4 DEF Smaller
<1>6. PatternPoints(patterns) \in Int
    <2>1. 500 + patterns \div 2 \in Int
        OBVIOUS
    <2> QED
        BY <2>1, BetweenBounds DEF PatternPoints
<1>7. SmcPoints(z) + RegimePoints(regime, setup, atrPct) + VolumePoints(ratio)
        + Smaller(2000, MacdPoints(d, t.hist) + RsiPoints(d, t.rsi) + EmaPoints(d, t.ema9, t.ema21))
        + PatternPoints(patterns) + mtf * 10 \in Int
    BY <1>1, <1>2, <1>3, <1>5, <1>6
<1> QED
    BY <1>7, IntegerOperators DEF CompositeScore

(* A set of numbers that is not empty has a least one.                     *)
LEMMA LeastIndex ==
    ASSUME NEW V, V \subseteq Nat, V # {}
    PROVE  Min(V) \in V
<1> DEFINE R == OpToRel(<, Nat)
<1>1. \A v, m \in Nat : v < m => <<v, m>> \in R
    BY DEF OpToRel
<1>2. IsWellFoundedOn(R, Nat)
    BY NatLessThanWellFounded
<1> HIDE DEF R
<1>3. PICK m \in V : \A v \in V : ~ (<<v, m>> \in R)
    BY <1>2, WFMin
<1>4. ASSUME NEW v \in V PROVE m <= v
    <2>1. m \in Nat /\ v \in Nat /\ ~ (v < m)
        BY <1>1, <1>3, <1>4
    <2> QED
        BY <2>1
<1> QED
    BY <1>3, <1>4 DEF Min

(* The stop multiplier and the target ratios of a row are numbers.         *)
IsRow(par) == par.sl \in Int /\ \A i \in 1..3 : par.ratios[i] \in Int

(* So they are of every row of the table.                                  *)
LEMMA TableRows == DOMAIN ParamTable = 1..20 /\ \A i \in 1..20 : IsRow(ParamTable[i])
<1>2. DOMAIN ParamTable = 1..20
    BY DEF ParamTable
<1>3. \A i \in 1..20 : i = 1 \/ i = 2 \/ i = 3 \/ i = 4 \/ i = 5 \/ i = 6 \/ i = 7 \/ i = 8 \/ i = 9 \/ i = 10
        \/ i = 11 \/ i = 12 \/ i = 13 \/ i = 14 \/ i = 15 \/ i = 16 \/ i = 17 \/ i = 18 \/ i = 19 \/ i = 20
    OBVIOUS
<1>4. /\ IsRow(ParamTable[1]) /\ IsRow(ParamTable[2]) /\ IsRow(ParamTable[3]) /\ IsRow(ParamTable[4])
      /\ IsRow(ParamTable[5]) /\ IsRow(ParamTable[6]) /\ IsRow(ParamTable[7]) /\ IsRow(ParamTable[8])
      /\ IsRow(ParamTable[9]) /\ IsRow(ParamTable[10]) /\ IsRow(ParamTable[11]) /\ IsRow(ParamTable[12])
      /\ IsRow(ParamTable[13]) /\ IsRow(ParamTable[14]) /\ IsRow(ParamTable[15]) /\ IsRow(ParamTable[16])
      /\ IsRow(ParamTable[17]) /\ IsRow(ParamTable[18]) /\ IsRow(ParamTable[19]) /\ IsRow(ParamTable[20])
    BY DEF ParamTable, Row, IsRow
<1> QED
    BY <1>2, <1>3, <1>4

(* The parameters of a channel and a setup are those of a row, or the      *)
(* channel's own.                                                          *)
LEMMA ParamsNumbers ==
    ASSUME NEW chan \in Channels, NEW setup, NEW regime
    PROVE  IsRow(SignalParams(chan, setup, regime))
<1> DEFINE prefix == IF chan \in Scalps THEN "SCALP" ELSE chan
           rows == {i \in DOMAIN ParamTable : ParamTable[i].prefix = prefix /\ ParamTable[i].setup = setup}
           exact == {i \in rows : ParamTable[i].regime = regime}
           some == IF exact = {} THEN rows ELSE exact
<1>1. SignalParams(chan, setup, regime) =
        IF rows = {} THEN Row(prefix, setup, regime, ChannelRatios[chan], 100, 70, TRUE, 15)
        ELSE ParamTable[Min(some)]
    BY DEF SignalParams
<1>2. IsRow(Row(prefix, setup, regime, ChannelRatios[chan], 100, 70, TRUE, 15))
    <2>1. \A i \in 1..3 : ChannelRatios[chan][i] \in Int
        BY DEF ChannelRatios, Channels, Scalps
    <2> QED
        BY <2>1 DEF Row, IsRow
<1>3. ASSUME rows # {} PROVE IsRow(ParamTable[Min(some)])
    <2>1. some \subseteq 1..20 /\ some # {}
        BY <1>3, TableRows
    <2>2. some \subseteq Nat
        BY <2>1
    <2> HIDE DEF some
    <2>3. Min(some) \in some
        BY <2>1, <2>2, LeastIndex
    <2> QED
        BY <2>1, <2>3, TableRows
<1> HIDE DEF rows, some
<1> QED
    BY <1>1, <1>2, <1>3

(* A proposal of a channel: turned down, or a signal of that channel.      *)
Proposed(sig, chan) ==
    \/ sig = Rejected
    \/ /\ sig.rejected = FALSE /\ sig.chan = chan
       /\ sig.dir \in Directions
       /\ sig.entry \in Int /\ sig.entry >= 100 /\ sig.entry % 100 = 0
       /\ sig.stop \in Int /\ sig.tp[1] \in Int
       /\ DOMAIN sig = {"rejected", "chan", "dir", "setup", "entry", "stop", "tp", "dca", "zone",
                        "class", "r", "penalty", "conf", "tier"}

(* One that is not turned down carries its channel.                        *)
OfChannel(sig, chan) == sig = Rejected \/ (sig.rejected = FALSE /\ sig.chan = chan)

(* Whatever it is built from, a proposal is turned down or carries its     *)
(* channel.                                                                *)
LEMMA ProposalChannel ==
    ASSUME NEW chan, NEW d, NEW t, NEW base, NEW setup, NEW regime, NEW vwap
    PROVE  LET sig == Proposal(chan, d, t, base, setup, regime, vwap)
           IN  OfChannel(sig, chan)
BY DEF OfChannel, Proposal, BuildSignal, Built

(* A proposal that is built from numbers has numbers for its levels.       *)
LEMMA ProposalSound ==
    ASSUME NEW chan \in Channels, NEW d \in Directions, NEW t, IsIndicators(t), NEW base \in Int,
           NEW setup, NEW regime, NEW vwap
    PROVE  Proposed(Proposal(chan, d, t, base, setup, regime, vwap), chan)
<1> DEFINE par == SignalParams(chan, setup, regime)
           sl == DynamicStop(par.sl, 50, regime, "MIDCAP")
           dist == Pct(base, sl)
           ratios == DynamicRatios(par.ratios, 50, regime)
           stop == Round8(Toward(t.close, d, -dist))
           tp == [i \in 1..3 |-> Round8(Toward(t.close, d, Pct(dist, ratios[i])))]
<1>1. t.close \in Int /\ t.close >= 100 /\ t.close % 100 = 0
    BY DEF IsIndicators
<1>2. par.sl \in Int /\ \A i \in 1..3 : par.ratios[i] \in Int
    BY ParamsNumbers DEF IsRow
<1> HIDE DEF par
<1>3. sl \in Int
    BY <1>2 DEF DynamicStop, Pct
<1> HIDE DEF sl
<1>4. dist \in Int
    BY <1>3 DEF Pct
<1> HIDE DEF dist
<1>5. ratios[1] \in Int
    <2>1. \A a, v, w \in Int : Pct(Pct(a, v), w) \in Int
        BY DEF Pct
    <2> DEFINE volatility == IF 50 >= 80 THEN 125 ELSE IF 50 <= 20 THEN 75 ELSE 100
               byRegime(i) == CASE regime \in Trending -> IF i = 3 THEN 120 ELSE 100
                                [] regime \in {"RANGING", "QUIET"} -> 90
                                [] regime = "VOLATILE" -> 110 [] OTHER -> 100
    <2>2. ratios[1] = Pct(Pct(par.ratios[1], volatility), byRegime(1))
        BY DEF DynamicRatios
    <2>3. volatility \in Int /\ byRegime(1) \in Int
        OBVIOUS
    <2> QED
        BY <1>2, <2>1, <2>2, <2>3
<1> HIDE DEF ratios
<1>6. stop \in Int
    BY <1>1, <1>4 DEF Round8, Toward
<1>7. tp[1] \in Int
    BY <1>1, <1>4, <1>5 DEF Round8, Toward, Pct
<1>8. Proposal(chan, d, t, base, setup, regime, vwap)
        = Built(chan, d, t.close, setup, dist, ratios, stop, par, t.atr, vwap)
    BY DEF Proposal, BuildSignal, par, sl, dist, ratios
<1> HIDE DEF stop, tp
<1>9. ASSUME NEW dca, NEW zone
      PROVE  Proposed([rejected |-> FALSE, chan |-> chan, dir |-> d, setup |-> setup, entry |-> t.close,
                       stop |-> stop, tp |-> tp, dca |-> dca, zone |-> zone,
                       class |-> "UNCLASSIFIED", r |-> 0, penalty |-> 0, conf |-> 0, tier |-> "B"], chan)
    BY <1>1, <1>6, <1>7 DEF Proposed
<1> QED
    BY <1>8, <1>9 DEF Built, Proposed, tp

(* The distances of the stops are numbers.                                 *)
LEMMA StopDistanceNumber ==
    ASSUME NEW chan \in Channels, NEW close \in Int, NEW byAtr \in Int
    PROVE  StopDistance(chan, close, byAtr) \in Int
<1>1. ChannelStop[chan] \in Int
    BY DEF ChannelStop, Channels, Scalps
<1>2. (close * ChannelStop[chan]) \div 100000 \in Int
    BY <1>1
<1> QED
    BY <1>2 DEF StopDistance, Larger

(* What a scalp strategy proposes.                                         *)
LEMMA ScalpProposals ==
    ASSUME NEW x, IsContext(x)
    PROVE  /\ Proposed(ScalpStandard(x), "SCALP")
           /\ Proposed(ScalpRangeFade(x), "SCALP")
           /\ Proposed(ScalpWhale(x), "SCALP")
<1>1. /\ \A f \in DOMAIN x.t : IsIndicators(x.t[f])
      /\ x.z.sweeps # <<>> => x.z.sweeps[1].dir \in Directions
    BY DetectionHeads DEF IsContext
<1>2. "SCALP" \in Channels /\ Proposed(Rejected, "SCALP") /\ {"LONG", "SHORT"} = Directions
    BY DEF Channels, Scalps, Proposed, Directions
<1>3. ASSUME NEW t, IsIndicators(t), NEW d \in Directions, NEW setup, NEW byAtr \in Int
      PROVE  Proposed(Proposal("SCALP", d, t, StopDistance("SCALP", t.close, byAtr), setup, x.regime, 0), "SCALP")
    <2>1. StopDistance("SCALP", t.close, byAtr) \in Int
        BY <1>2, <1>3, StopDistanceNumber DEF IsIndicators
    <2> QED
        BY <1>2, <1>3, <2>1, ProposalSound
<1>4. \A t : IsIndicators(t) => t.atr \div 2 \in Int /\ Pct(t.atr, 80) \in Int /\ t.atr \in Int
    BY DEF IsIndicators, Pct
<1>5. Proposed(ScalpStandard(x), "SCALP")
    <2> DEFINE t == x.t["5m"]
               d == x.z.sweeps[1].dir
               made == Proposal("SCALP", d, t, StopDistance("SCALP", t.close, t.atr \div 2),
                                "LIQUIDITY_SWEEP_REVERSAL", x.regime, 0)
    <2>1. \/ ScalpStandard(x) = Rejected
          \/ "5m" \in DOMAIN x.t /\ x.z.sweeps # <<>> /\ ScalpStandard(x) = made
        <3>1. CASE "5m" \notin DOMAIN x.t \/ x.z.sweeps = <<>> \/ ~ScalpFilters(x)
            BY <3>1, Zenon DEF ScalpStandard
        <3>2. CASE ~("5m" \notin DOMAIN x.t \/ x.z.sweeps = <<>> \/ ~ScalpFilters(x))
            BY <3>2, SMTT(60) DEF ScalpStandard
        <3> QED
            BY <3>1, <3>2
    <2>2. "5m" \in DOMAIN x.t /\ x.z.sweeps # <<>> => Proposed(made, "SCALP")
        BY <1>1, <1>3, <1>4
    <2> QED
        BY <1>2, <2>1, <2>2, Zenon
<1>6. Proposed(ScalpRangeFade(x), "SCALP")
    <2> DEFINE t == x.t["5m"]
               d == IF t.close * 1000 <= t.bbLower * 1002 THEN "LONG" ELSE "SHORT"
               made == Proposal("SCALP", d, t, StopDistance("SCALP", t.close, Pct(t.atr, 80)),
                                "RANGE_FADE", x.regime, 0)
    <2>1. \/ ScalpRangeFade(x) = Rejected
          \/ "5m" \in DOMAIN x.t /\ ScalpRangeFade(x) = made
        BY Zenon DEF ScalpRangeFade
    <2>2. d \in Directions
        BY <1>2
    <2> HIDE DEF d
    <2>3. "5m" \in DOMAIN x.t => Proposed(made, "SCALP")
        BY <1>1, <1>3, <1>4, <2>2
    <2> QED
        BY <1>2, <2>1, <2>3, Zenon
<1>7. Proposed(ScalpWhale(x), "SCALP")
    BY <1>1, <1>2, <1>3, <1>4 DEF ScalpWhale
<1> QED
    BY <1>5, <1>6, <1>7

(* The reward for the risk of a signal is a number.                        *)
LEMMA RewardNumber ==
    ASSUME NEW sig, sig.stop \in Int, sig.entry \in Int, sig.tp[1] \in Int
    PROVE  RewardForRisk(sig) \in Int
<1>1. Dist(sig.entry, sig.stop) \in Int /\ (sig.stop # sig.entry => Dist(sig.entry, sig.stop) > 0)
    BY DEF Dist
<1>2. Dist(sig.tp[1], sig.entry) * 100 \in Int
    BY DEF Dist
<1> QED
    BY <1>1, <1>2, Quotient DEF RewardForRisk

(* The best of three proposals is one of them.                             *)
LEMMA BestSound ==
    ASSUME NEW one, NEW two, NEW three, NEW chan, Proposed(one, chan), Proposed(two, chan), Proposed(three, chan),
           NEW weights, weights[1] \in Int, weights[2] \in Int, weights[3] \in Int
    PROVE  Proposed(Best(<<one, two, three>>, weights), chan)
<1> DEFINE found == <<one, two, three>>
           worth(i) == RewardForRisk(found[i]) * weights[i]
           some == {i \in 1..3 : ~found[i].rejected}
           Better(i) == \A j \in some : worth(i) > worth(j) \/ (worth(i) = worth(j) /\ i <= j)
<1>1. \A i \in 1..3 : Proposed(found[i], chan)
    OBVIOUS
<1>2. Rejected.rejected = TRUE
    BY DEF Rejected
<1>3. \A i \in some : worth(i) \in Int
    <2> TAKE i \in some
    <2>1. found[i].stop \in Int /\ found[i].entry \in Int /\ found[i].tp[1] \in Int
        BY <1>1, <1>2 DEF Proposed
    <2>2. RewardForRisk(found[i]) \in Int /\ weights[i] \in Int
        BY <2>1, RewardNumber
    <2> HIDE DEF found
    <2> QED
        BY <2>2
<1>4. Best(found, weights) = IF some = {} THEN Rejected ELSE found[CHOOSE i \in some : Better(i)]
    BY DEF Best
<1>5. some \subseteq 1..3
    OBVIOUS
<1>6. Proposed(Rejected, chan)
    BY DEF Proposed
<1> HIDE DEF found, worth, some
<1>7. some # {} => \E i \in some : Better(i)
    <2>1. \A i \in some : i = 1 \/ i = 2 \/ i = 3
        BY <1>5
    <2> QED
        BY <1>3, <2>1
<1> DEFINE best == CHOOSE i \in some : Better(i)
<1>8. some # {} => best \in some
    BY <1>7
<1>9. Best(found, weights) = IF some = {} THEN Rejected ELSE found[best]
    BY <1>4
<1> HIDE DEF best
<1>10. Proposed(Best(found, weights), chan)
    BY <1>1, <1>5, <1>6, <1>8, <1>9
<1> QED
    BY <1>10 DEF found

(* The proposals of the three channels that trade a setup.                 *)
LEMMA ScalpSound ==
    ASSUME NEW x, IsContext(x)
    PROVE  Proposed(ScalpSignal(x), "SCALP")
<1> DEFINE weights == StrategyWeights(x.regime)
<1>1. weights[1] \in Int /\ weights[2] \in Int /\ weights[3] \in Int
    BY DEF StrategyWeights
<1> HIDE DEF weights
<1> QED
    BY <1>1, BestSound, ScalpProposals DEF ScalpSignal, weights

LEMMA SwingSound ==
    ASSUME NEW x, IsContext(x)
    PROVE  Proposed(SwingSignal(x), "SWING")
<1> DEFINE t == x.t["1h"]
           d == x.z.mss[1].dir
           made == Proposal("SWING", d, t, StopDistance("SWING", t.close, t.atr), DefaultSetup, x.regime, 0)
           ready == ~(~{"1h", "4h"} \subseteq DOMAIN x.t \/ x.z.sweeps = <<>> \/ x.z.mss = <<>>)
<1>1. SwingSignal(x) = Rejected \/ (ready /\ SwingSignal(x) = made)
    BY SMT DEF SwingSignal
<1>2. ASSUME ready PROVE Proposed(made, "SWING")
    <2>1. IsIndicators(t) /\ d \in Directions
        BY <1>2, DetectionHeads DEF IsContext
    <2>2. "SWING" \in Channels
        BY DEF Channels
    <2>3. StopDistance("SWING", t.close, t.atr) \in Int
        BY <2>1, <2>2, StopDistanceNumber DEF IsIndicators
    <2> QED
        BY <2>1, <2>2, <2>3, ProposalSound
<1>3. Proposed(Rejected, "SWING")
    BY DEF Proposed
<1> QED
    BY <1>1, <1>2, <1>3, Zenon

LEMMA SpotSound ==
    ASSUME NEW x, IsContext(x)
    PROVE  Proposed(SpotSignal(x), "SPOT")
<1>1. Proposed(Rejected, "SPOT") /\ "SPOT" \in Channels /\ {"LONG", "SHORT"} = Directions
    BY DEF Proposed, Channels, Directions
<1>2. ASSUME "4h" \in DOMAIN x.t, NEW d \in Directions
      PROVE  Proposed(Breakout(x.t["4h"], d, x), "SPOT")
    <2> DEFINE h == x.t["4h"]
               made(setup) == Proposal("SPOT", d, h, StopDistance("SPOT", h.close, (h.atr * 3) \div 2), setup, x.regime, 0)
    <2>1. IsIndicators(h) /\ h.close \in Int /\ (h.atr * 3) \div 2 \in Int
        BY <1>2 DEF IsContext, IsIndicators
    <2>2. StopDistance("SPOT", h.close, (h.atr * 3) \div 2) \in Int
        BY <1>1, <2>1, StopDistanceNumber
    <2>3. \A setup : Proposed(made(setup), "SPOT")
        BY <1>1, <2>1, <2>2, ProposalSound
    <2>4. \/ Breakout(h, d, x) = Rejected
          \/ \E setup : Breakout(h, d, x) = made(setup)
        BY SMT DEF Breakout
    <2> QED
        BY <1>1, <2>3, <2>4
<1>3. \/ SpotSignal(x) = Rejected
      \/ "4h" \in DOMAIN x.t /\ SpotSignal(x) \in {Breakout(x.t["4h"], "LONG", x), Breakout(x.t["4h"], "SHORT", x)}
    BY SMT DEF SpotSignal
<1> QED
    BY <1>1, <1>2, <1>3

(* The proposals of the others carry their channel.                        *)
LEMMA OtherProposals ==
    ASSUME NEW x
    PROVE  /\ OfChannel(FvgSignal(x), "FVG")
           /\ OfChannel(VwapSignal(x), "VWAP")
<1>1. ASSUME NEW tf
      PROVE  OfChannel(FvgTry(x, tf), "FVG")
    <2>1. ASSUME NEW t, NEW zone
          PROVE  OfChannel(FvgRetest(x, t, zone), "FVG")
        <3> DEFINE d == zone.dir
                   far == IF d = "LONG" THEN zone.low ELSE zone.high
                   stop == Farther(Toward(t.close, d, -((t.close * ChannelStop["FVG"]) \div 100000)),
                                   Toward(far, d, -(t.atr \div 2)), IF d = "LONG" THEN "SHORT" ELSE "LONG")
                   base == Pct(Dist(t.close, stop), Larger(20, 100 - zone.age))
        <3>1. \/ FvgRetest(x, t, zone) = Rejected
              \/ FvgRetest(x, t, zone) = Proposal("FVG", d, t, base, "FVG_RETEST", x.regime, 0)
            BY SMT DEF FvgRetest
        <3> HIDE DEF d, base
        <3>2. OfChannel(Rejected, "FVG")
            BY DEF OfChannel
        <3>3. OfChannel(Proposal("FVG", d, t, base, "FVG_RETEST", x.regime, 0), "FVG")
            BY ProposalChannel
        <3> QED
            BY <3>1, <3>2, <3>3, Zenon
    <2> QED
        BY <2>1 DEF FvgTry, OfChannel
<1>2. ASSUME NEW tf
      PROVE  OfChannel(VwapTry(x, tf), "VWAP")
    <2>1. \/ VwapTry(x, tf) = Rejected
          \/ \E d, t, base, setup, vwap : VwapTry(x, tf) = Proposal("VWAP", d, t, base, setup, x.regime, vwap)
        BY SMTT(60) DEF VwapTry
    <2>2. CASE VwapTry(x, tf) = Rejected
        BY <2>2 DEF OfChannel
    <2>3. CASE \E d, t, base, setup, vwap : VwapTry(x, tf) = Proposal("VWAP", d, t, base, setup, x.regime, vwap)
        <3>1. PICK d, t, base, setup, vwap : VwapTry(x, tf) = Proposal("VWAP", d, t, base, setup, x.regime, vwap)
            BY <2>3
        <3> QED
            BY <3>1, ProposalChannel
    <2> QED
        BY <2>1, <2>2, <2>3
<1> QED
    BY <1>1, <1>2 DEF FvgSignal, VwapSignal, Either, OfChannel

(* Every proposal is turned down or of its channel; of the channels with   *)
(* setups it is a sound signal.                                            *)
LEMMA EvaluateSound ==
    ASSUME NEW c \in Channels, NEW x, IsContext(x)
    PROVE  LET sig == Evaluate(c, x)
           IN  /\ OfChannel(sig, c)
               /\ c \in {"SCALP", "SWING", "SPOT"} => Proposed(sig, c)
<1>1. \A ch : Proposed(Rejected, ch)
    BY DEF Proposed
<1>2. \A ch : CanPropose(ch) \in BOOLEAN
    BY DEF CanPropose
<1>3. CASE c = "SCALP"
    BY <1>1, <1>3, ScalpSound DEF Evaluate, Proposed, OfChannel
<1>4. CASE c = "SWING"
    BY <1>1, <1>4, SwingSound DEF Evaluate, Proposed, OfChannel
<1>5. CASE c = "SPOT"
    BY <1>1, <1>5, SpotSound DEF Evaluate, Proposed, OfChannel
<1>6. CASE c \in {"FVG", "VWAP"}
    BY <1>6, OtherProposals DEF Evaluate, OfChannel
<1>7. CASE c \in {"CVD", "OBI"}
    BY <1>7 DEF Evaluate, OfChannel
<1> QED
    BY <1>3, <1>4, <1>5, <1>6, <1>7 DEF Channels, Scalps

(* A signal with its risk plan, as it is held for the verification.        *)
PlannedSignal(sig) ==
    /\ sig.rejected = FALSE
    /\ sig.chan \in {"SCALP", "SWING", "SPOT"}
    /\ sig.dir \in Directions
    /\ Whole(sig.entry) /\ sig.entry >= 100
    /\ LevelsFit(sig.entry, sig.dir, sig.stop, sig.tp)
    /\ sig.r \in Int /\ sig.penalty \in Int
    /\ DOMAIN sig = {"rejected", "chan", "dir", "setup", "entry", "stop", "tp", "dca", "zone",
                     "class", "r", "penalty", "conf", "tier"}

(* The timeframes the scan reads are those of its context.                 *)
LEMMA FrameIndicators ==
    ASSUME NEW x, IsContext(x), NEW c
    PROVE  IsIndicators(Fast(x)) /\ IsIndicators(Primary(c, x))
<1>1. IsIndicators(Fast(x))
    BY DEF IsContext, Fast
<1> QED
    BY <1>1 DEF IsContext, Primary

(* What the scanner judges is rejected or has a plan; a channel without    *)
(* setups is always rejected.                                              *)
LEMMA PlanSound ==
    ASSUME NEW c \in Channels, NEW x, IsContext(x)
    PROVE  Plan(c, x) = Rejected \/ PlannedSignal(Plan(c, x))
<1> DEFINE sig == Evaluate(c, x)
           t == Primary(sig.chan, x)
           setup == SetupClass(sig.chan, sig.dir, t.mom, x.z, State(x))
           risk == RiskPlan(sig.chan, sig.entry, sig.dir, setup, RiskContext(sig, t, x))
<1>1. OfChannel(sig, c) /\ (c \in {"SCALP", "SWING", "SPOT"} => Proposed(sig, c))
    BY EvaluateSound
<1>2. Rejected.rejected = TRUE
    BY DEF Rejected
<1>3. Plan(c, x) = IF sig.rejected THEN Rejected ELSE WithPlan(sig, setup, risk, x)
    BY DEF Plan, Judged
<1> HIDE DEF sig
<1>4. CASE sig = Rejected
    BY <1>2, <1>3, <1>4
<1>5. CASE sig # Rejected /\ c \notin {"SCALP", "SWING", "SPOT"}
    <2>1. sig.rejected = FALSE /\ sig.chan = c
        BY <1>1, <1>5 DEF OfChannel
    <2>2. ChannelSetups(c) = {}
        BY <1>5 DEF ChannelSetups
    <2>3. ~SetupAllowed(sig.chan, setup, State(x))
        BY <2>1, <2>2 DEF SetupAllowed
    <2> HIDE DEF setup, risk
    <2>4. WithPlan(sig, setup, risk, x) = Rejected
        BY <2>3 DEF WithPlan
    <2> QED
        BY <1>3, <2>1, <2>4
<1>6. CASE sig # Rejected /\ c \in {"SCALP", "SWING", "SPOT"}
    <2>1. /\ sig.rejected = FALSE /\ sig.chan = c /\ sig.dir \in Directions
          /\ Whole(sig.entry) /\ sig.entry >= 100
          /\ DOMAIN sig = {"rejected", "chan", "dir", "setup", "entry", "stop", "tp", "dca", "zone",
                           "class", "r", "penalty", "conf", "tier"}
        BY <1>1, <1>6 DEF Proposed, Whole
    <2>2. /\ risk = Rejected \/ (risk.rejected = FALSE /\ risk.r \in Int)
          /\ \/ setup = "RANGE_REJECTION" \/ risk = Rejected
             \/ LevelsFit(sig.entry, sig.dir, risk.stop, risk.tp)
        <3> DEFINE m == RiskContext(sig, t, x)
        <3>1. IsIndicators(t) /\ IsDetection(x.z) /\ x.spread \in Int
            BY FrameIndicators DEF IsContext
        <3>2. x.z.sweeps # <<>> => x.z.sweeps[1].level \in Int
            BY <3>1, DetectionHeads
        <3> HIDE DEF t
        <3>3. {m.atr, m.extreme, m.sweep, m.bbMid, m.bbUpper, m.bbLower, m.spread} \subseteq Int
            BY <3>1, <3>2 DEF IsIndicators, RiskContext, None
        <3> HIDE DEF m, setup
        <3>4. risk = RiskPlan(sig.chan, sig.entry, sig.dir, setup, m)
            BY DEF m
        <3>5. sig.chan \in Channels /\ Whole(sig.entry) /\ sig.entry \in Int /\ sig.entry >= 100
            BY <2>1 DEF Whole
        <3> DEFINE plan == RiskPlan(sig.chan, sig.entry, sig.dir, setup, m)
        <3>6. plan = Rejected \/ (plan.rejected = FALSE /\ plan.r \in Int)
            BY <3>3, <3>5, PlanNumber, Zenon
        <3>7. {m.atr, m.extreme, m.sweep, m.spread} \subseteq Int
            BY <3>3
        <3>8. ASSUME setup # "RANGE_REJECTION"
              PROVE  plan = Rejected \/ LevelsFit(sig.entry, sig.dir, plan.stop, plan.tp)
            BY <3>5, <3>7, <3>8, PlanLevels, Zenon
        <3> QED
            BY <3>4, <3>6, <3>8
    <2>3. setup = "RANGE_REJECTION" => ~SetupAllowed(sig.chan, setup, State(x))
        BY <1>6, <2>1 DEF SetupAllowed, ChannelSetups, Core
    <2> HIDE DEF setup, risk
    <2>4. \/ WithPlan(sig, setup, risk, x) = Rejected
          \/ /\ ~risk.rejected /\ SetupAllowed(sig.chan, setup, State(x))
             /\ WithPlan(sig, setup, risk, x)
                  = [sig EXCEPT !.stop = risk.stop, !.tp = risk.tp, !.class = setup, !.r = risk.r,
                                !.penalty = SoftPenalty(sig.chan, sig.dir, x, sig.entry)]
        BY DEF WithPlan
    <2>5. SoftPenalty(sig.chan, sig.dir, x, sig.entry) \in Int
        BY PenaltyNumber
    <2>6. ASSUME ~risk.rejected, SetupAllowed(sig.chan, setup, State(x))
          PROVE  PlannedSignal([sig EXCEPT !.stop = risk.stop, !.tp = risk.tp, !.class = setup, !.r = risk.r,
                                           !.penalty = SoftPenalty(sig.chan, sig.dir, x, sig.entry)])
        BY <1>2, <1>6, <2>1, <2>2, <2>3, <2>5, <2>6 DEF PlannedSignal
    <2> QED
        BY <1>3, <2>1, <2>4, <2>6
<1> QED
    BY <1>4, <1>5, <1>6

(* Scaling the distances from the entry keeps whole levels in their order: *)
(* at a hundredth of a unit per percent nothing is lost.                   *)
LEMMA ScaledOrder ==
    ASSUME NEW entry, Whole(entry), NEW m \in Int, m > 0, NEW near, Whole(near), NEW far, Whole(far),
           NEW d, Beyond(far, near, d)
    PROVE  Beyond(Scaled(entry, far, m), Scaled(entry, near, m), d)
<1>1. ASSUME NEW level, Whole(level)
      PROVE  \E k \in Int : level - entry = 100 * k /\ Scaled(entry, level, m) = entry + k * m
    <2>1. PICK k1 \in Int : level = 100 * k1
        BY <1>1 DEF Whole
    <2>2. PICK k2 \in Int : entry = 100 * k2
        BY DEF Whole
    <2> DEFINE k == k1 - k2
               n == k * m
    <2>4. k \in Int /\ level - entry = 100 * k
        BY <2>1, <2>2
    <2> HIDE DEF k
    <2>5. n \in Int /\ (100 * k) * m = 100 * n
        BY <2>4
    <2> HIDE DEF n
    <2>6. (100 * n) \div 100 = n
        BY <2>5
    <2> QED
        BY <2>4, <2>5, <2>6 DEF Scaled, Pct, n
<1>2. PICK j \in Int : far - entry = 100 * j /\ Scaled(entry, far, m) = entry + j * m
    BY <1>1
<1>3. PICK k \in Int : near - entry = 100 * k /\ Scaled(entry, near, m) = entry + k * m
    BY <1>1
<1>4. (j > k => j * m > k * m) /\ (j < k => j * m < k * m)
    <2>1. \A a, b \in Int : a > b => a * m > b * m
        <3> TAKE a, b \in Int
        <3>1. (a - b) * m = a * m - b * m
            OBVIOUS
        <3>2. a > b => (a - b) * m > 0
            OBVIOUS
        <3> QED
            BY <3>1, <3>2
    <2> QED
        BY <2>1
<1>5. j * m \in Int /\ k * m \in Int /\ entry \in Int /\ far \in Int /\ near \in Int
    BY DEF Whole
<1> QED
    BY <1>2, <1>3, <1>4, <1>5 DEF Beyond

(* The prediction keeps the levels of a plan in order.                     *)
LEMMA AdjustOrders ==
    ASSUME NEW sig, PlannedSignal(sig), NEW tpBy \in Int, tpBy > 0, NEW slBy \in Int, slBy > 0
    PROVE  Ordered(AdjustTpSl(sig, tpBy, slBy))
<1> DEFINE e == sig.entry
           d == sig.dir
           far(level) == Scaled(e, level, tpBy)
           tp == [i \in DOMAIN sig.tp |-> far(sig.tp[i])]
           stop == Scaled(e, sig.stop, slBy)
<1>1. /\ Whole(e) /\ Whole(sig.stop) /\ Beyond(e, sig.stop, d)
      /\ DOMAIN sig.tp = 1..3 /\ Whole(sig.tp[1]) /\ Whole(sig.tp[2]) /\ Whole(sig.tp[3])
      /\ Beyond(sig.tp[1], e, d) /\ Beyond(sig.tp[2], sig.tp[1], d) /\ Beyond(sig.tp[3], sig.tp[2], d)
    BY DEF PlannedSignal, LevelsFit
<1>2. Scaled(e, e, tpBy) = e /\ Scaled(e, e, slBy) = e
    BY <1>1 DEF Scaled, Pct, Whole
<1>3. Beyond(e, stop, d)
    BY <1>1, <1>2, ScaledOrder
<1>4. Beyond(far(sig.tp[1]), e, d)
    BY <1>1, <1>2, ScaledOrder
<1>5. Beyond(far(sig.tp[2]), far(sig.tp[1]), d)
    BY <1>1, ScaledOrder
<1>6. Beyond(far(sig.tp[3]), far(sig.tp[2]), d)
    BY <1>1, ScaledOrder
<1>7. \A i \in 1..3 : Whole(sig.tp[i])
    BY DEF PlannedSignal, LevelsFit
<1>8. \A i \in 1..3 : far(sig.tp[i]) \in Int
    BY <1>1, <1>7 DEF Scaled, Pct, Whole
<1> HIDE DEF far
<1>9. DOMAIN tp = 1..3 /\ tp[1] = far(sig.tp[1]) /\ tp[2] = far(sig.tp[2]) /\ tp[3] = far(sig.tp[3])
      /\ tp \in [1..3 -> Int]
    BY <1>1, <1>8
<1> DEFINE adjusted == AdjustTpSl(sig, tpBy, slBy)
<1>10. adjusted.entry = e /\ adjusted.dir = d /\ adjusted.tp = tp /\ adjusted.stop = stop
    BY DEF PlannedSignal, AdjustTpSl, far
<1> HIDE DEF tp, stop, adjusted, e, d
<1>11. tp \in Seq(Int) /\ Len(tp) = 3
    <2>1. tp \in Seq(Int)
        BY <1>9, SeqDef
    <2> QED
        BY <1>9, <2>1, LenProperties
<1>12. \A i \in 2..3 : Beyond(tp[i], tp[i - 1], d)
    <2>1. \A i \in 2..3 : i = 2 \/ i = 3
        OBVIOUS
    <2> QED
        BY <1>5, <1>6, <1>9, <2>1
<1> QED
    BY <1>3, <1>4, <1>9, <1>10, <1>11, <1>12 DEF Ordered, adjusted

(* What TierIsEarned says of a signal rated in a context.                  *)
Earned(sig, x) ==
    /\ sig.tier = TierOf(sig.conf) /\ sig.tier # "FILTERED"
    /\ IF sig.tier = "WATCHLIST" THEN sig.chan \in Scalps /\ x.regime # "QUIET"
       ELSE sig.conf >= MinConfidence[sig.chan] /\ Pct(Quality(x), 25) >= 1200

(* The outcome of a rating: rejected, or the same signal with a tier it    *)
(* has earned and its levels in order.                                     *)
RejectedOrEarned(rated, sig, x) ==
    \/ rated = Rejected
    \/ /\ rated.rejected = FALSE /\ rated.chan = sig.chan /\ rated.dir = sig.dir
       /\ Earned(rated, x) /\ Ordered(rated)

(* A label that is the tier of a confidence passes the thresholds only     *)
(* when it is earned.                                                      *)
LEMMA LabelledEarned ==
    ASSUME NEW x, IsContext(x), NEW sig, PlannedSignal(sig), NEW parts,
           parts.market = Smaller(Quality(x) \div 4, 2500), NEW conf \in Int
    PROVE  RejectedOrEarned(Labelled(sig, x, parts, conf, TierOf(conf)), sig, x)
<1> DEFINE label == TierOf(conf)
           p == Predict(Fast(x))
           rated == [AdjustTpSl(sig, p.tpBy, p.slBy) EXCEPT !.conf = conf, !.tier = label]
<1>1. \/ Labelled(sig, x, parts, conf, label) = Rejected
      \/ Acceptable(sig.chan, x.regime, conf, label, parts) /\ Labelled(sig, x, parts, conf, label) = rated
    BY DEF Labelled
<1>2. rated.rejected = FALSE /\ rated.chan = sig.chan /\ rated.dir = sig.dir /\ rated.conf = conf /\ rated.tier = label
    BY DEF PlannedSignal, AdjustTpSl
<1>3. Ordered(rated)
    <2>1. p.tpBy \in Int /\ p.tpBy > 0 /\ p.slBy \in Int /\ p.slBy > 0
        BY FrameIndicators, PredictionNumber
    <2> HIDE DEF p
    <2>2. Ordered(AdjustTpSl(sig, p.tpBy, p.slBy))
        BY <2>1, AdjustOrders
    <2>3. /\ rated.entry = AdjustTpSl(sig, p.tpBy, p.slBy).entry
          /\ rated.dir = AdjustTpSl(sig, p.tpBy, p.slBy).dir
          /\ rated.stop = AdjustTpSl(sig, p.tpBy, p.slBy).stop
          /\ rated.tp = AdjustTpSl(sig, p.tpBy, p.slBy).tp
        BY DEF AdjustTpSl
    <2> HIDE DEF rated
    <2> QED
        BY <2>2, <2>3 DEF Ordered
<1> HIDE DEF rated
<1>4. ASSUME Acceptable(sig.chan, x.regime, conf, label, parts)
      PROVE  Earned(rated, x)
    <2>1. sig.chan \in Channels
        BY DEF PlannedSignal, Channels, Scalps
    <2>2. MinConfidence[sig.chan] \in Int /\ MinConfidence[sig.chan] >= 6500
        BY <2>1, BarAssumption
    <2>3. Quality(x) \in Int
        BY PairScoreNumber, FrameIndicators DEF Quality, IsContext
    <2>4. parts.market >= 1200 => Pct(Quality(x), 25) >= 1200
        BY <2>3 DEF Smaller, Pct
    <2>5. /\ label = "WATCHLIST" => conf >= 5000 /\ ~(conf >= 6500)
          /\ label # "WATCHLIST" => conf >= 6500 \/ ~(conf >= 5000)
          /\ label = "FILTERED" => ~(conf >= 5000)
        BY DEF TierOf
    <2>6. CASE label = "WATCHLIST" /\ sig.chan \in Scalps /\ conf >= 5000
        <3>1. ~(x.regime = "QUIET")
            BY <1>4, <2>5, <2>6 DEF Acceptable
        <3> QED
            BY <1>2, <2>6, <3>1 DEF Earned
    <2>7. CASE conf >= MinConfidence[sig.chan] /\ parts.market >= 1200
        <3>1. conf >= 6500
            BY <2>2, <2>7
        <3> QED
            BY <1>2, <2>4, <2>5, <2>7, <3>1 DEF Earned
    <2> QED
        BY <1>4, <2>6, <2>7 DEF Acceptable
<1> QED
    BY <1>1, <1>2, <1>3, <1>4 DEF RejectedOrEarned

(* The decayed confidence is a number.                                     *)
LEMMA DecayedNumber ==
    ASSUME NEW conf \in Int, NEW chan, NEW age \in Int
    PROVE  Decayed(conf, chan, age) \in Int
<1>1. MaxFreshness(chan) \in {60, 600, 3600, 120}
    BY DEF MaxFreshness
<1>2. (conf * age * 15) \in Int /\ 100 * MaxFreshness(chan) \in Int /\ 100 * MaxFreshness(chan) > 0
    BY <1>1
<1>3. (conf * age * 15) \div (100 * MaxFreshness(chan)) \in Int
    BY <1>2, Quotient
<1> QED
    BY <1>3 DEF Decayed, Pct

(* A signal that is rated and not rejected has earned its tier.            *)
LEMMA RatedEarned ==
    ASSUME NEW x, IsContext(x), NEW sig, PlannedSignal(sig), NEW verified, NEW sentiment \in Int,
           NEW age \in Int, NEW raises
    PROVE  RejectedOrEarned(Rated(sig, x, verified, sentiment, age, raises), sig, x)
<1> DEFINE t == Primary(sig.chan, x)
           triggered == Triggered(sig.class, sig.entry, sig.dir, t, x.z, State(x))
           ext == Extension(sig.class, sig.entry, sig.dir, t, x.z)
           legacy == LegacyConfidence(sig, x, verified, sentiment)
           parts == Components(Quality(x), sig.chan, sig.class, State(x), triggered, ext, sig.r, legacy, verified)
           before == PenalisedConfidence(sig, x, TotalScore(parts), age)
           score == FinalScore(sig, x)
<1>1. sig.entry \in Int /\ sig.entry >= 100 /\ sig.r \in Int /\ sig.penalty \in Int /\ sig.dir \in Directions
    BY DEF PlannedSignal, Whole
<1>2. /\ IsIndicators(t) /\ IsDetection(x.z) /\ x.patterns[sig.dir] \in Int
      /\ Quality(x) \in Int
    BY <1>1, FrameIndicators, PairScoreNumber DEF IsContext, Quality
<1> HIDE DEF t
<1>3. ext \in Int
    BY <1>1, <1>2, ExtensionNumber
<1>4. legacy \in Int
    BY LegacyNumber
<1> HIDE DEF ext, legacy, triggered
<1>5. TotalScore(parts) \in Int
    BY <1>1, <1>2, <1>3, <1>4, TotalNumber
<1>6. parts.market = Smaller(Quality(x) \div 4, 2500)
    BY DEF Components
<1> HIDE DEF parts
<1>7. before \in Int
    <2> DEFINE patterned == Between(TotalScore(parts) + x.patterns[sig.dir], 0, 10000)
               agreed == patterned + IF Agreement(sig.dir, x) >= 80 THEN 300 ELSE 0
               aged == Between(Decayed(agreed, sig.chan, age), 0, 10000)
    <2>1. patterned \in Int
        <3> DEFINE points == TotalScore(parts) + x.patterns[sig.dir]
        <3>1. points \in Int
            BY <1>2, <1>5
        <3> HIDE DEF points
        <3>2. Between(points, 0, 10000) \in Int
            BY <3>1, BetweenBounds
        <3> QED
            BY <3>2 DEF points
    <2> HIDE DEF patterned
    <2>2. agreed \in Int
        BY <2>1
    <2> HIDE DEF agreed
    <2>3. aged \in Int
        BY <2>2, DecayedNumber, BetweenBounds
    <2> HIDE DEF aged
    <2>4. Between(aged - sig.penalty, 0, 10000) \in Int
        <3> DEFINE points == aged - sig.penalty
        <3>1. points \in Int
            BY <1>1, <2>3
        <3> HIDE DEF points
        <3>2. Between(points, 0, 10000) \in Int
            BY <3>1, BetweenBounds
        <3> QED
            BY <3>2 DEF points
    <2> QED
        BY <2>4 DEF PenalisedConfidence, aged, agreed, patterned
<1>8. score \in Int
    BY <1>2, AgreementNumber, CompositeNumber DEF FinalScore
<1> HIDE DEF before, score
<1>9. Rated(sig, x, verified, sentiment, age, raises) = Scored(sig, x, parts, before, score, raises)
    BY DEF Rated, Parts, parts, before, score, t, triggered, ext, legacy
<1>10. Scored(sig, x, parts, before, score, raises)
         \in {Rejected, Labelled(sig, x, parts, before, TierOf(before)), Labelled(sig, x, parts, score, TierOf(score))}
    BY DEF Scored
<1>11. ASSUME NEW conf \in Int
       PROVE  RejectedOrEarned(Labelled(sig, x, parts, conf, TierOf(conf)), sig, x)
    BY <1>6, LabelledEarned
<1>12. RejectedOrEarned(Rejected, sig, x)
    BY DEF RejectedOrEarned
<1> QED
    BY <1>7, <1>8, <1>9, <1>10, <1>11, <1>12

(* The inductive invariant: a scan has a context and channels left, what   *)
(* is verified has a sound plan, and what is offered has earned its tier   *)
(* and has its levels in order.                                            *)
ScanInv ==
    /\ scan \in [stage : {"idle", "channel", "verify", "offer"}, x : DOMAIN ScanContexts \cup {"none"},
                 left : Seq(Channels), sig : {scan.sig}]
    /\ scan.stage # "idle" => scan.x \in DOMAIN ScanContexts /\ scan.left # <<>>
    /\ scan.stage = "verify" => PlannedSignal(scan.sig)
    /\ scan.stage = "offer" => scan.sig.chan \in Channels /\ Earned(scan.sig, Context) /\ Ordered(scan.sig)

(* A step of the scan to the next channel keeps the invariant.             *)
LEMMA ProceedKeeps ==
    ASSUME ScanInv, scan.stage # "idle", Proceed(Tail(scan.left))
    PROVE  ScanInv'
<1>1. scan.left \in Seq(Channels) /\ scan.left # <<>> /\ scan.x \in DOMAIN ScanContexts
    BY DEF ScanInv
<1>2. Tail(scan.left) \in Seq(Channels)
    BY <1>1
<1>3. CASE Tail(scan.left) = <<>>
    BY <1>3 DEF ScanInv, Proceed, Resting, NoSignal
<1>4. CASE Tail(scan.left) # <<>>
    BY <1>1, <1>2, <1>4 DEF ScanInv, Proceed
<1> QED
    BY <1>3, <1>4

(* So does the rating of a planned signal.                                 *)
LEMMA RateKeeps ==
    ASSUME ScanInv, scan.stage # "idle", NEW sig, PlannedSignal(sig), NEW verified, NEW sentiment \in Int,
           NEW age \in Int, Rate(sig, verified, sentiment, age)
    PROVE  ScanInv'
<1>1. PICK raises \in BOOLEAN :
        Offered(Rated(sig, Context, verified, sentiment, age, raises), Opposed(sig))
    BY DEF Rate
<1> DEFINE rated == Rated(sig, Context, verified, sentiment, age, raises)
<1>2. IsContext(Context)
    BY ContextAssumption DEF ScanInv, Context
<1>3. \/ rated = Rejected
      \/ /\ rated.rejected = FALSE /\ rated.chan = sig.chan /\ rated.dir = sig.dir
         /\ Earned(rated, Context) /\ Ordered(rated)
    BY <1>2, RatedEarned DEF RejectedOrEarned
<1> HIDE DEF rated
<1>4. CASE Proceed(Tail(scan.left))
    BY <1>4, ProceedKeeps
<1>5. CASE ~rated.rejected /\ Hold("offer", rated)
    <2>1. rated.chan \in Channels /\ Earned(rated, Context) /\ Ordered(rated)
        BY <1>3, <1>5 DEF Rejected, PlannedSignal, Channels, Scalps
    <2>2. /\ scan' = [scan EXCEPT !.stage = "offer", !.sig = rated]
        BY <1>5 DEF Hold
    <2>3. /\ scan'.stage = "offer" /\ scan'.sig = rated /\ scan'.x = scan.x /\ scan'.left = scan.left
          /\ scan' \in [stage : {"idle", "channel", "verify", "offer"}, x : DOMAIN ScanContexts \cup {"none"},
                        left : Seq(Channels), sig : {rated}]
        BY <2>2 DEF ScanInv
    <2> QED
        BY <2>1, <2>3 DEF ScanInv, Context, Earned, Ordered
<1> QED
    BY <1>1, <1>4, <1>5 DEF Offered, rated

(* A proposal that is not turned down has its plan.                        *)
LEMMA PlannedSound ==
    ASSUME ScanInv, scan.stage = "channel", Promising(Head(scan.left), Plan(Head(scan.left), Context))
    PROVE  PlannedSignal(Plan(Head(scan.left), Context))
<1>1. Head(scan.left) \in Channels /\ IsContext(Context)
    BY ContextAssumption DEF ScanInv, Context
<1>2. ~Plan(Head(scan.left), Context).rejected
    BY DEF Promising
<1> QED
    BY <1>1, <1>2, PlanSound DEF Rejected

(* The invariant is inductive.                                             *)
LEMMA ScanStep == ScanInv /\ [PlNext]_plVars => ScanInv'
<1> SUFFICES ASSUME ScanInv, [PlNext]_plVars PROVE ScanInv'
    OBVIOUS
<1>1. CASE UNCHANGED scan
    BY <1>1 DEF ScanInv, Context, Earned, Ordered
<1>2. CASE ScanStarts
    <2>1. ScanOrder \in Seq(Channels) /\ ScanOrder # <<>>
        BY DEF ScanOrder, Channels, Scalps
    <2> QED
        BY <1>2, <2>1 DEF ScanStarts, ScanInv
<1>3. CASE TurnedDown
    BY <1>3, ProceedKeeps DEF TurnedDown
<1>4. CASE Planned
    <2> DEFINE c == Head(scan.left)
               sig == Plan(c, Context)
    <2>1. c \in Channels /\ IsContext(Context)
        BY <1>4, ContextAssumption DEF Planned, ScanInv, Context
    <2>2. scan.stage = "channel" /\ GoesOnWith(c, sig)
        BY <1>4 DEF Planned
    <2>3. PlannedSignal(sig)
        BY <2>2, PlannedSound DEF GoesOnWith
    <2> HIDE DEF sig
    <2>4. CASE Rate(sig, "unknown", 0, 0)
        BY <2>2, <2>3, <2>4, RateKeeps
    <2>5. CASE Hold("verify", sig)
        <3>1. scan' = [scan EXCEPT !.stage = "verify", !.sig = sig]
            BY <2>5 DEF Hold
        <3>2. /\ scan'.stage = "verify" /\ scan'.sig = sig /\ scan'.x = scan.x /\ scan'.left = scan.left
              /\ scan' \in [stage : {"idle", "channel", "verify", "offer"}, x : DOMAIN ScanContexts \cup {"none"},
                            left : Seq(Channels), sig : {sig}]
            BY <3>1 DEF ScanInv
        <3> QED
            BY <2>2, <2>3, <3>2 DEF ScanInv
    <2> QED
        BY <2>2, <2>4, <2>5 DEF GoesOnWith
<1>5. CASE VerifiedAgain
    <2>1. PlannedSignal(scan.sig) /\ scan.stage = "verify"
        BY <1>5 DEF VerifiedAgain, ScanInv
    <2>2. PICK verified \in {"yes", "no", "unknown"}, sentiment \in {-100, 100}, age \in {0, 10} :
            Rate(scan.sig, verified, sentiment, age)
        BY <1>5 DEF VerifiedAgain
    <2> QED
        BY <2>1, <2>2, RateKeeps
<1>6. CASE Enqueued \/ Dropped
    BY <1>6, ProceedKeeps DEF Enqueued, Dropped
<1>7. CASE Opened \/ Closed \/ CooledDown \/ WindowMoves \/ PauseToggled
    BY <1>1, <1>7 DEF Opened, Closed, CooledDown, WindowMoves, PauseToggled
<1> QED
    BY <1>1, <1>2, <1>3, <1>4, <1>5, <1>6, <1>7 DEF PlNext, plVars

(* SignalPipeline.TierIsEarned: a signal handed to the queue has the tier  *)
(* of the confidence it carries, and has earned it, in whatever context it *)
(* was found and whether or not the composite scoring failed.              *)
THEOREM TierHolds == PlSpec => []TierIsEarned
<1>1. PlInit => ScanInv
    BY DEF PlInit, ScanInv, Resting
<1>2. ScanInv => TierIsEarned
    BY DEF ScanInv, TierIsEarned, Earned
<1> QED
    BY <1>1, <1>2, ScanStep, PTL DEF PlSpec

(* SignalPipeline.LevelsOrdered: a signal handed to the queue has its stop *)
(* on the losing side of the entry and its targets one beyond the other on *)
(* the winning side, whatever the digits of the price: after the channel,  *)
(* the plan that replaces its levels, the rounding to 8 decimals and the   *)
(* scaling by the prediction.                                              *)
THEOREM LevelsHold == PlSpec => []LevelsOrdered
<1>1. PlInit => ScanInv
    BY DEF PlInit, ScanInv, Resting
<1>2. ScanInv => LevelsOrdered
    BY DEF ScanInv, LevelsOrdered
<1> QED
    BY <1>1, <1>2, ScanStep, PTL DEF PlSpec

(* What is rated and offered goes against no position that is open.        *)
LEMMA RateOpposes ==
    ASSUME ScanInv, scan.stage \notin {"idle", "offer"}, NEW sig, PlannedSignal(sig), NEW verified,
           NEW sentiment \in Int, NEW age \in Int, Rate(sig, verified, sentiment, age),
           scan'.stage = "offer"
    PROVE  ~Opposed(scan'.sig)
<1>1. PICK raises \in BOOLEAN :
        Offered(Rated(sig, Context, verified, sentiment, age, raises), Opposed(sig))
    BY DEF Rate
<1> DEFINE rated == Rated(sig, Context, verified, sentiment, age, raises)
<1>2. IsContext(Context)
    BY ContextAssumption DEF ScanInv, Context
<1>3. rated = Rejected \/ rated.dir = sig.dir
    <2>1. RejectedOrEarned(rated, sig, Context)
        BY <1>2, RatedEarned
    <2> HIDE DEF rated
    <2> QED
        BY <2>1 DEF RejectedOrEarned
<1> HIDE DEF rated
<1>4. ASSUME Proceed(Tail(scan.left)) PROVE FALSE
    <2>1. CASE Tail(scan.left) = <<>>
        BY <1>4, <2>1 DEF Proceed, Resting
    <2>2. CASE Tail(scan.left) # <<>>
        BY <1>4, <2>2 DEF Proceed, ScanInv
    <2> QED
        BY <2>1, <2>2
<1>5. ~Opposed(sig) /\ ~rated.rejected /\ Hold("offer", rated)
    BY <1>1, <1>4 DEF Offered, rated
<1>6. scan'.sig = rated /\ rated.dir = sig.dir
    BY <1>3, <1>5 DEF Hold, ScanInv, Rejected
<1> QED
    BY <1>5, <1>6 DEF Opposed

(* SignalPipeline.NoOpposingEnqueued: whatever is opened while a signal is *)
(* verified, one that goes against it is not handed to the queue.          *)
THEOREM OpposingHolds == PlSpec => NoOpposingEnqueued
<1>1. PlInit => ScanInv
    BY DEF PlInit, ScanInv, Resting
<1>2. ASSUME ScanInv, [PlNext]_plVars
      PROVE  [scan.stage # "offer" /\ scan'.stage = "offer" => ~Opposed(scan'.sig)]_plVars
    <2> SUFFICES ASSUME PlNext, scan.stage # "offer", scan'.stage = "offer"
                 PROVE  ~Opposed(scan'.sig)
        BY <1>2
    <2>1. CASE Planned
        <3> DEFINE sig == Plan(Head(scan.left), Context)
        <3>1. scan.stage = "channel" /\ GoesOnWith(Head(scan.left), sig)
            BY <2>1 DEF Planned
        <3>2. PlannedSignal(sig)
            BY <1>2, <3>1, PlannedSound DEF GoesOnWith
        <3> HIDE DEF sig
        <3>3. ~Hold("verify", sig)
            BY <1>2 DEF Hold, ScanInv
        <3>4. Rate(sig, "unknown", 0, 0)
            BY <3>1, <3>3 DEF GoesOnWith
        <3> QED
            BY <1>2, <3>1, <3>2, <3>4, RateOpposes
    <2>2. CASE VerifiedAgain
        <3>1. PlannedSignal(scan.sig) /\ scan.stage = "verify"
            BY <1>2, <2>2 DEF VerifiedAgain, ScanInv
        <3>2. PICK verified \in {"yes", "no", "unknown"}, sentiment \in {-100, 100}, age \in {0, 10} :
                Rate(scan.sig, verified, sentiment, age)
            BY <2>2 DEF VerifiedAgain
        <3> QED
            BY <1>2, <3>1, <3>2, RateOpposes
    <2>3. CASE ScanStarts
        BY <2>3 DEF ScanStarts
    <2>4. CASE TurnedDown
        BY <1>2, <2>4 DEF TurnedDown, Proceed, Resting, ScanInv
    <2>5. CASE Enqueued \/ Dropped
        BY <2>5 DEF Enqueued, Dropped
    <2>6. CASE Opened \/ Closed \/ CooledDown \/ WindowMoves \/ PauseToggled
        BY <2>6 DEF Opened, Closed, CooledDown, WindowMoves, PauseToggled
    <2> QED
        BY <2>1, <2>2, <2>3, <2>4, <2>5, <2>6 DEF PlNext
<1> QED
    BY <1>1, <1>2, ScanStep, PTL DEF PlSpec, NoOpposingEnqueued

(* SignalPipeline.PlTypeOK: the scan has a context and channels left, and  *)
(* the sets hold positions, channels and channels that may be paused.      *)
THEOREM PipelineTypes == PlSpec => []PlTypeOK
<1> DEFINE Types == open \subseteq Positions /\ cooling \subseteq Channels /\ paused \subseteq Pausable
<1>1. PlInit => ScanInv /\ Types
    BY DEF PlInit, ScanInv, Resting
<1>2. ASSUME ScanInv, Types, [PlNext]_plVars
      PROVE  Types'
    <2>1. CASE UNCHANGED <<open, cooling, paused>>
        BY <1>2, <2>1
    <2>2. CASE Enqueued
        BY <1>2, <2>2 DEF Enqueued, ScanInv
    <2>3. CASE Opened \/ Closed
        BY <1>2, <2>3 DEF Opened, Closed
    <2>4. CASE CooledDown \/ PauseToggled
        BY <1>2, <2>4 DEF CooledDown, PauseToggled
    <2> QED
        BY <1>2, <2>1, <2>2, <2>3, <2>4
           DEF PlNext, plVars, ScanStarts, TurnedDown, Planned, VerifiedAgain, Dropped, WindowMoves
<1>3. ScanInv /\ Types => PlTypeOK
    BY DEF ScanInv, PlTypeOK
<1> HIDE DEF Types
<1> QED
    BY <1>1, <1>2, <1>3, ScanStep, PTL DEF PlSpec

-----------------------------------------------------------------------------
(***************************************************************************)
(* RegimeDetector: the dwell                                               *)
(***************************************************************************)

(* The last m raw regimes on record are r.                                 *)
EndsWith(q, m, r) == m <= Len(q) /\ \A i \in (Len(q) - m + 1)..Len(q) : q[i] = r

(* The inductive invariant: as long as the pending regime is not the one   *)
(* reported, the count is that of its last readings.                       *)
DwellInv ==
    /\ rdFrame = "none" => rdStable = "none" /\ rdLast = <<>>
    /\ rdLast \in Seq(Regimes) /\ Len(rdLast) <= Hysteresis
    /\ rdDwell \in 0..Hysteresis
    /\ rdFrame # "none" => rdStable \in Regimes /\ rdPending \in Regimes
    /\ rdPending # rdStable => rdDwell < Hysteresis /\ EndsWith(rdLast, rdDwell, rdPending)

(* Every reading has a regime.                                             *)
LEMMA DecideRegime ==
    ASSUME NEW adx, NEW slope, NEW width, NEW f
    PROVE  Decide(adx, slope, width, f) \in Regimes
BY DEF Decide, BySlope, Regimes

(* The history keeps the last readings: one more reading of the same       *)
(* regime lengthens the row it ends with.                                  *)
LEMMA LatelyLength ==
    ASSUME NEW q \in Seq(Regimes), Len(q) <= Hysteresis, NEW r \in Regimes
    PROVE  LET all == Append(q, r)
               last == IF Len(all) > Hysteresis THEN Tail(all) ELSE all
           IN  /\ last \in Seq(Regimes) /\ Len(last) <= Hysteresis
               /\ \A m \in 0..(Hysteresis - 1) : EndsWith(q, m, r) => EndsWith(last, m + 1, r)
<1> DEFINE all == Append(q, r)
           last == IF Len(all) > Hysteresis THEN Tail(all) ELSE all
<1>1. /\ all \in Seq(Regimes) /\ Len(all) = Len(q) + 1 /\ Len(q) \in Nat
      /\ \A i \in 1..Len(q) : all[i] = q[i]
      /\ all[Len(q) + 1] = r
    OBVIOUS
<1> HIDE DEF all
<1>2. CASE Len(all) > Hysteresis
    <2>1. Len(q) = Hysteresis /\ all # <<>>
        BY <1>1, <1>2, RegimeAssumption
    <2>2. /\ last \in Seq(Regimes) /\ Len(last) = Len(q)
          /\ \A i \in 1..Len(q) : last[i] = all[i + 1]
        BY <1>1, <1>2, <2>1, HeadTailProperties
    <2> HIDE DEF last
    <2>3. ASSUME NEW m \in 0..(Hysteresis - 1), EndsWith(q, m, r) PROVE EndsWith(last, m + 1, r)
        <3> SUFFICES ASSUME NEW i \in (Len(last) - (m + 1) + 1)..Len(last) PROVE last[i] = r
            BY <1>1, <2>1, <2>2, RegimeAssumption DEF EndsWith
        <3>1. i \in 1..Len(q) /\ last[i] = all[i + 1]
            BY <1>1, <2>1, <2>2, RegimeAssumption
        <3>2. CASE i = Len(q)
            BY <1>1, <3>1, <3>2
        <3>3. CASE i # Len(q)
            <4>1. i + 1 \in (Len(q) - m + 1)..Len(q) /\ i + 1 \in 1..Len(q)
                BY <1>1, <2>2, <3>1, <3>3
            <4>2. q[i + 1] = r
                BY <2>3, <4>1 DEF EndsWith
            <4> QED
                BY <1>1, <3>1, <4>1, <4>2
        <3> QED
            BY <3>2, <3>3
    <2> QED
        BY <1>1, <2>1, <2>2, <2>3 DEF last, all
<1>3. CASE ~ (Len(all) > Hysteresis)
    <2>1. last = all
        BY <1>3
    <2>2. ASSUME NEW m \in 0..(Hysteresis - 1), EndsWith(q, m, r) PROVE EndsWith(all, m + 1, r)
        <3> SUFFICES ASSUME NEW i \in (Len(all) - (m + 1) + 1)..Len(all) PROVE all[i] = r
            BY <1>1, <2>2, RegimeAssumption DEF EndsWith
        <3>1. CASE i = Len(all)
            BY <1>1, <3>1
        <3>2. CASE i # Len(all)
            <4>1. i \in (Len(q) - m + 1)..Len(q) /\ i \in 1..Len(q)
                BY <1>1, <2>2, <3>2 DEF EndsWith
            <4>2. q[i] = r
                BY <2>2, <4>1 DEF EndsWith
            <4> QED
                BY <1>1, <4>1, <4>2
        <3> QED
            BY <3>1, <3>2
    <2> QED
        BY <1>1, <1>3, <2>1, <2>2, RegimeAssumption DEF all
<1> QED
    BY <1>2, <1>3

(* One call: what it makes of the reported regime and of the count.        *)
LEMMA ClassifyStep ==
    ASSUME DwellInv, NEW s \in Asking, NEW f \in Frames, NEW r \in Readings, Classify(s, f, r)
    PROVE  /\ DwellInv'
           /\ rdFrame' = rdFrame /\ rdStable' # rdStable =>
                EndsWith(rdLast', Hysteresis, rdStable')
<1> DEFINE raw == Decide(r.adx, r.slope, r.width, f)
           before == IF f = rdFrame THEN rdLast ELSE <<>>
<1>1. raw \in Regimes /\ raw # "none"
    <2>1. raw \in Regimes
        BY DecideRegime
    <2> QED
        BY <2>1 DEF Regimes
<1>2. /\ IF Adopts(raw, f) THEN Adopted(raw) ELSE Postponed(raw)
      /\ rdPending' = raw /\ rdFrame' = f /\ rdLast' = Lately(f, raw) /\ f # "none"
    BY RegimeAssumption DEF Classify
<1> HIDE DEF raw
<1>3. before \in Seq(Regimes) /\ Len(before) <= Hysteresis
    BY RegimeAssumption DEF DwellInv
<1>4. rdLast' = LET all == Append(before, raw)
                IN  IF Len(all) > Hysteresis THEN Tail(all) ELSE all
    BY <1>2 DEF Lately
<1> HIDE DEF before
<1>5. /\ rdLast' \in Seq(Regimes) /\ Len(rdLast') <= Hysteresis
      /\ \A m \in 0..(Hysteresis - 1) : EndsWith(before, m, raw) => EndsWith(rdLast', m + 1, raw)
    BY <1>1, <1>3, <1>4, LatelyLength
<1>6. EndsWith(before, 0, raw) /\ (f = rdFrame /\ rdPending # rdStable => EndsWith(before, rdDwell, rdPending))
    BY <1>3 DEF EndsWith, DwellInv, before
<1>7. StableAt(f) \notin {"none", raw} =>
        f = rdFrame /\ rdStable # raw /\ (raw = rdPending => rdPending # rdStable)
    BY DEF StableAt
<1>8. ASSUME StableAt(f) \notin {"none", raw}
      PROVE  Dwelt(raw) \in 1..Hysteresis /\ EndsWith(rdLast', Dwelt(raw), raw)
    <2>1. CASE raw = rdPending
        <3>1. rdDwell \in 0..(Hysteresis - 1) /\ EndsWith(before, rdDwell, raw)
            BY <1>6, <1>7, <1>8, <2>1, RegimeAssumption DEF DwellInv
        <3> QED
            BY <1>5, <2>1, <3>1, RegimeAssumption DEF Dwelt
    <2>2. CASE raw # rdPending
        <3>1. Dwelt(raw) = 1 /\ 0 \in 0..(Hysteresis - 1)
            BY <2>2, RegimeAssumption DEF Dwelt
        <3> QED
            BY <1>5, <1>6, <3>1, RegimeAssumption
    <2> QED
        BY <2>1, <2>2
<1>9. CASE Adopts(raw, f)
    <2>1. rdStable' = raw /\ rdDwell' = Hysteresis
        BY <1>2, <1>9 DEF Adopted
    <2>2. DwellInv'
        BY <1>1, <1>2, <1>5, <2>1, RegimeAssumption DEF DwellInv
    <2>3. ASSUME rdFrame' = rdFrame, rdStable' # rdStable PROVE EndsWith(rdLast', Hysteresis, rdStable')
        <3>1. StableAt(f) \notin {"none", raw}
            BY <1>2, <2>1, <2>3 DEF StableAt, DwellInv, Regimes
        <3>2. Dwelt(raw) = Hysteresis
            BY <1>8, <1>9, <3>1, RegimeAssumption DEF Adopts
        <3> QED
            BY <1>8, <2>1, <3>1, <3>2
    <2> QED
        BY <2>2, <2>3
<1>10. CASE ~ Adopts(raw, f)
    <2>1. rdStable' = rdStable /\ rdDwell' = Dwelt(raw)
        BY <1>2, <1>10 DEF Postponed
    <2>2. StableAt(f) \notin {"none", raw} /\ ~ (Dwelt(raw) >= Hysteresis)
        BY <1>10 DEF Adopts
    <2>3. rdStable \in Regimes
        BY <1>2, <1>7, <2>2 DEF DwellInv
    <2> QED
        BY <1>1, <1>2, <1>5, <1>8, <2>1, <2>2, <2>3, RegimeAssumption DEF DwellInv
<1> QED
    BY <1>9, <1>10

(* The detector reports another regime on the same timeframe only after as *)
(* many readings of it in a row as its hysteresis asks for, for any        *)
(* hysteresis, readings and timeframes.                                    *)
THEOREM RegimeDwellHolds == RdSpec => RegimeDwell
<1>1. RdInit => DwellInv
    BY RegimeAssumption DEF RdInit, DwellInv
<1>2. DwellInv /\ [RdNext]_rdVars => DwellInv'
    <2>1. DwellInv /\ UNCHANGED rdVars => DwellInv'
        BY DEF rdVars, DwellInv
    <2> QED
        BY <2>1, ClassifyStep DEF RdNext
<1>3. ASSUME DwellInv, [RdNext]_rdVars
      PROVE  [rdFrame' = rdFrame /\ rdStable' # rdStable =>
                /\ Len(rdLast') = Hysteresis
                /\ \A i \in DOMAIN rdLast' : rdLast'[i] = rdStable']_rdVars
    <2>1. CASE UNCHANGED rdVars
        BY <2>1
    <2>2. ASSUME NEW s \in Asking, NEW f \in Frames, NEW r \in Readings, Classify(s, f, r),
                 rdFrame' = rdFrame, rdStable' # rdStable
          PROVE  /\ Len(rdLast') = Hysteresis
                 /\ \A i \in DOMAIN rdLast' : rdLast'[i] = rdStable'
        <3>1. DwellInv' /\ EndsWith(rdLast', Hysteresis, rdStable')
            BY <1>3, <2>2, ClassifyStep
        <3>2. rdLast' \in Seq(Regimes) /\ Len(rdLast') <= Hysteresis
            BY <3>1 DEF DwellInv
        <3> QED
            BY <3>1, <3>2, RegimeAssumption DEF EndsWith
    <2> QED
        BY <1>3, <2>1, <2>2 DEF RdNext
<1> QED
    BY <1>1, <1>2, <1>3, PTL DEF RdSpec, RegimeDwell
=============================================================================
