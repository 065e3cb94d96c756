---------------------------- MODULE SignalQueue ----------------------------
(***************************************************************************)
(* The hybrid signal queue (src/signal_queue.py over src/redis_client.py): *)
(* a Redis list while Redis is available, an asyncio.Queue otherwise.      *)
(* Several producers put concurrently (the scan tasks and the router's     *)
(* delivery retries); the router is the only consumer.                     *)
(*                                                                         *)
(* Every Redis command is an await: the server may execute it, the reply   *)
(* may come back, and either may fail.  A failed command disables Redis    *)
(* for the whole process (mark_unavailable); only connect() at the next    *)
(* boot enables it again.                                                  *)
(***************************************************************************)
EXTENDS Integers, Sequences, FiniteSets

CONSTANTS
    Signals,       \* the signals put, each once (a retry is another put)
    Producers,     \* coroutines that may be inside put() at the same time
    QueueMax,      \* QUEUE_MAXSIZE, of both backends
    MaxRestarts,   \* bound on process restarts
    None           \* no signal

ASSUME QueueAssumption ==
    /\ QueueMax \in Nat \ {0}
    /\ MaxRestarts \in Nat
    /\ IsFiniteSet(Producers)
    /\ Producers # {}
    /\ None \notin Signals

VARIABLES
    redis_list,    \* the Redis LIST, outlives the process
    fallback,      \* _fallback, dies with it
    available,     \* RedisClient.available
    put,           \* each producer's put(): where it waits, with which signal
    get,           \* the consumer's get(): where it waits, what it was handed
    returned,      \* history: what put() of each signal returned
    consumed,      \* history: how often get() returned each signal
    lost,          \* history: accepted signals that a crash or a lost reply destroyed
    restarts       \* bounds the restarts

vars == <<redis_list, fallback, available, put, get, returned, consumed, lost, restarts>>

Elements(q) == {q[i] : i \in DOMAIN q}

(* Where a coroutine of put() or get() is suspended, and with which signal.*)
At(pc, s) == [pc |-> pc, sig |-> s]
NoPut == At("idle", None)
NoGet == At("idle", None)

Init ==
    /\ redis_list = <<>>
    /\ fallback = <<>>
    /\ available \in BOOLEAN
    /\ put = [p \in Producers |-> NoPut]
    /\ get = NoGet
    /\ returned = [s \in Signals |-> "never put"]
    /\ consumed = [s \in Signals |-> 0]
    /\ lost = {}
    /\ restarts = 0

-----------------------------------------------------------------------------
(* put()                                                                   *)

(* The fallback: accepted when the in-memory queue has room.               *)
PutFallback(p, s) ==
    /\ put' = [put EXCEPT ![p] = NoPut]
    /\ IF Len(fallback) < QueueMax
         THEN /\ fallback' = Append(fallback, s)
              /\ returned' = [returned EXCEPT ![s] = "accepted"]
         ELSE /\ returned' = [returned EXCEPT ![s] = "refused"]
              /\ UNCHANGED fallback

(* put() is called: it asks Redis for the length, or falls back at once.   *)
PutStart(p, s) ==
    /\ put[p] = NoPut
    /\ returned[s] = "never put"
    /\ IF available
         THEN /\ put' = [put EXCEPT ![p] = At("llen", s)]
              /\ returned' = [returned EXCEPT ![s] = "pending"]
              /\ UNCHANGED fallback
         ELSE PutFallback(p, s)
    /\ UNCHANGED <<redis_list, available, get, consumed, lost, restarts>>

(* Variants named ...Faulty are plausible slips of the definition that     *)
(* follows them.  No action uses them: the run must notice when one takes  *)
(* the definition's place.                                                 *)
PutSizedFaulty(p) ==
    /\ put[p].pc = "llen"
    /\ IF Len(redis_list) > QueueMax
         THEN /\ put' = [put EXCEPT ![p] = NoPut]
              /\ returned' = [returned EXCEPT ![put[p].sig] = "refused"]
              /\ UNCHANGED fallback
       ELSE IF available
         THEN /\ put' = [put EXCEPT ![p] = At("rpush", put[p].sig)]
              /\ UNCHANGED <<fallback, returned>>
         ELSE PutFallback(p, put[p].sig)
    /\ UNCHANGED <<redis_list, available, get, consumed, lost, restarts>>

(* The LLEN reply: the length decides, although other producers may push   *)
(* before this one does.  When another coroutine has disabled Redis in the *)
(* meantime there is no client any more and the put falls back.            *)
PutSized(p) ==
    /\ put[p].pc = "llen"
    /\ IF Len(redis_list) >= QueueMax
         THEN /\ put' = [put EXCEPT ![p] = NoPut]
              /\ returned' = [returned EXCEPT ![put[p].sig] = "refused"]
              /\ UNCHANGED fallback
       ELSE IF available
         THEN /\ put' = [put EXCEPT ![p] = At("rpush", put[p].sig)]
              /\ UNCHANGED <<fallback, returned>>
         ELSE PutFallback(p, put[p].sig)
    /\ UNCHANGED <<redis_list, available, get, consumed, lost, restarts>>

PutPushedFaulty(p) ==
    /\ put[p].pc = "rpush"
    /\ redis_list' = IF Len(redis_list) < QueueMax
                        THEN Append(redis_list, put[p].sig)
                        ELSE Append(Tail(redis_list), put[p].sig)
    /\ put' = [put EXCEPT ![p] = At("pushed", put[p].sig)]
    /\ UNCHANGED <<fallback, available, get, returned, consumed, lost, restarts>>

(* The server executes the RPUSH.                                          *)
PutPushed(p) ==
    /\ put[p].pc = "rpush"
    /\ redis_list' = Append(redis_list, put[p].sig)
    /\ put' = [put EXCEPT ![p] = At("pushed", put[p].sig)]
    /\ UNCHANGED <<fallback, available, get, returned, consumed, lost, restarts>>

(* The RPUSH reply: put() returns True.                                    *)
PutAccepted(p) ==
    /\ put[p].pc = "pushed"
    /\ put' = [put EXCEPT ![p] = NoPut]
    /\ returned' = [returned EXCEPT ![put[p].sig] = "accepted"]
    /\ UNCHANGED <<redis_list, fallback, available, get, consumed, lost, restarts>>

PutFailsRetryFaulty(p) ==
    /\ put[p].pc \in {"llen", "rpush", "pushed"}
    /\ put' = [put EXCEPT ![p] = At("llen", put[p].sig)]
    /\ UNCHANGED <<redis_list, fallback, available, get, returned, consumed, lost, restarts>>

(* A command of put() raises, before or after the server executed it:      *)
(* Redis is disabled and the signal goes to the fallback, also when it is  *)
(* in the Redis list already.                                              *)
PutFails(p) ==
    /\ put[p].pc \in {"llen", "rpush", "pushed"}
    /\ available' = FALSE
    /\ PutFallback(p, put[p].sig)
    /\ UNCHANGED <<redis_list, get, consumed, lost, restarts>>

-----------------------------------------------------------------------------
(* get()                                                                   *)

GetStartFaulty ==
    /\ get = NoGet
    /\ available
    /\ get' = At("blpop", None)
    /\ UNCHANGED <<redis_list, fallback, available, put, returned, consumed, lost, restarts>>

GetStart ==
    /\ get = NoGet
    /\ get' = At(IF available THEN "blpop" ELSE "wait", None)
    /\ UNCHANGED <<redis_list, fallback, available, put, returned, consumed, lost, restarts>>

(* The server executes the BLPOP: the head of the list is on its way.      *)
GetPopped ==
    /\ get.pc = "blpop"
    /\ redis_list # <<>>
    /\ get' = At("popped", Head(redis_list))
    /\ redis_list' = Tail(redis_list)
    /\ UNCHANGED <<fallback, available, put, returned, consumed, lost, restarts>>

(* BLPOP times out on an empty list: get() goes on to the fallback.        *)
GetNothingInRedis ==
    /\ get.pc = "blpop"
    /\ redis_list = <<>>
    /\ get' = At("wait", None)
    /\ UNCHANGED <<redis_list, fallback, available, put, returned, consumed, lost, restarts>>

GetReturnsRedis ==
    /\ get.pc = "popped"
    /\ consumed' = [consumed EXCEPT ![get.sig] = @ + 1]
    /\ get' = NoGet
    /\ UNCHANGED <<redis_list, fallback, available, put, returned, lost, restarts>>

(* The BLPOP raises.  What the server has popped is gone with the reply.   *)
GetFails ==
    /\ get.pc \in {"blpop", "popped"}
    /\ available' = FALSE
    /\ lost' = lost \cup ({get.sig} \ {None})
    /\ get' = At("wait", None)
    /\ UNCHANGED <<redis_list, fallback, put, returned, consumed, restarts>>

(* The fallback wait: the head of the in-memory queue, or None after a     *)
(* second.                                                                 *)
GetReturnsFallback ==
    /\ get.pc = "wait"
    /\ fallback # <<>>
    /\ consumed' = [consumed EXCEPT ![Head(fallback)] = @ + 1]
    /\ fallback' = Tail(fallback)
    /\ get' = NoGet
    /\ UNCHANGED <<redis_list, available, put, returned, lost, restarts>>

GetReturnsNone ==
    /\ get.pc = "wait"
    /\ fallback = <<>>
    /\ get' = NoGet
    /\ UNCHANGED <<redis_list, fallback, available, put, returned, consumed, lost, restarts>>

-----------------------------------------------------------------------------
(* Another user of the shared RedisClient (qsize, the state cache, the     *)
(* tier manager) meets an error.                                           *)
OtherUserFails ==
    /\ available
    /\ available' = FALSE
    /\ UNCHANGED <<redis_list, fallback, put, get, returned, consumed, lost, restarts>>

(* The process ends and boots again: coroutines and the in-memory queue    *)
(* are gone, connect() decides about Redis.  A put() that was cut short    *)
(* never returned.                                                         *)
Restart ==
    /\ restarts < MaxRestarts
    /\ restarts' = restarts + 1
    /\ lost' = lost \cup Elements(fallback) \cup ({get.sig} \ {None})
    /\ fallback' = <<>>
    /\ put' = [p \in Producers |-> NoPut]
    /\ get' = NoGet
    /\ available' \in BOOLEAN
    /\ UNCHANGED <<redis_list, returned, consumed>>

Put(p) == PutSized(p) \/ PutPushed(p) \/ PutAccepted(p) \/ PutFails(p)

Get ==
    \/ GetStart \/ GetPopped \/ GetNothingInRedis \/ GetReturnsRedis
    \/ GetFails \/ GetReturnsFallback \/ GetReturnsNone

Next ==
    \/ \E p \in Producers, s \in Signals : PutStart(p, s)
    \/ \E p \in Producers : Put(p)
    \/ Get
    \/ OtherUserFails
    \/ Restart

Spec == Init /\ [][Next]_vars

(* The router calls get() in a loop; the event loop and the server answer. *)
FairSpec == Spec /\ WF_vars(Get) /\ \A p \in Producers : WF_vars(Put(p))

-----------------------------------------------------------------------------
PutStates ==
    {NoPut} \cup [pc : {"llen", "rpush", "pushed"}, sig : Signals]
GetStates ==
    [pc : {"idle", "blpop", "wait"}, sig : {None}] \cup [pc : {"popped"}, sig : Signals]

Answers == {"never put", "pending", "accepted", "refused"}

TypeOK ==
    /\ redis_list \in Seq(Signals)
    /\ fallback \in Seq(Signals)
    /\ Len(fallback) <= QueueMax
    /\ available \in BOOLEAN
    /\ put \in [Producers -> PutStates]
    /\ get \in GetStates
    /\ returned \in [Signals -> Answers]
    /\ consumed \in [Signals -> Nat]
    /\ lost \in SUBSET Signals
    /\ restarts \in Nat

(* The length check and the push are two awaits, so QUEUE_MAXSIZE is not a *)
(* hard limit of the Redis list; but concurrent producers exceed it by at  *)
(* most one each, less the one that found room, counting the pushes that   *)
(* are still on their way.                                                 *)
Pushing == {p \in Producers : put[p].pc = "rpush"}

OvershootBounded ==
    Len(redis_list) + Cardinality(Pushing) <= QueueMax + Cardinality(Producers) - 1

(* The in-memory queue holds signals only while Redis is disabled, so      *)
(* nothing is starved there behind a busy Redis list.                      *)
FallbackOnlyWhenDown == fallback # <<>> => ~ available

(* put() does not evict what it accepted before: an accepted signal is     *)
(* stored, in the consumer's hands or consumed, unless a crash took the    *)
(* in-memory queue or a broken BLPOP reply took the signal.                *)
Accounted(s) ==
    \/ s \in Elements(redis_list) \cup Elements(fallback) \cup {get.sig} \cup lost
    \/ consumed[s] > 0

NothingEvicted == \A s \in Signals : returned[s] = "accepted" => Accounted(s)

(* The inductive invariant: what a producer has pushed is accounted for    *)
(* before put() says so.                                                   *)
PushedAccounted ==
    \A p \in Producers : put[p].pc = "pushed" => Accounted(put[p].sig)

QueueInv ==
    /\ TypeOK
    /\ OvershootBounded
    /\ FallbackOnlyWhenDown
    /\ NothingEvicted
    /\ PushedAccounted

(* One put() is consumed at most twice, whatever fails and restarts: the   *)
(* router meets at most one duplicate of a signal.                         *)
AtMostOneDuplicate == \A s \in Signals : consumed[s] <= 2

(* What is in the in-memory queue is handed to the router or dies with the *)
(* process, also when Redis fails again and again.                         *)
FallbackDrained ==
    \A s \in Signals : s \in Elements(fallback) ~> s \notin Elements(fallback)

(* What is in Redis is handed to the router: the client is documented as   *)
(* reconnecting by itself after a failure.                                 *)
RedisDrained ==
    \A s \in Signals : s \in Elements(redis_list) ~> s \notin Elements(redis_list)
=============================================================================
