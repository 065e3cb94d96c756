---------------------------- MODULE TelegramBot ----------------------------
(***************************************************************************)
(* The Telegram client (src/telegram_bot.py): send_message with its        *)
(* retries, and the command loop that long-polls for updates, hands them   *)
(* to the command handler (src/commands/) and forgets, when the process    *)
(* starts, what came before.                                               *)
(*                                                                         *)
(* Updates are numbered in the order they arrive; what a command does is   *)
(* left to the modules of what it changes.  send_photo retries as          *)
(* send_message does.                                                      *)
(***************************************************************************)
EXTENDS Integers, FiniteSets

CONSTANTS
    LastUpdate,   \* bound of the updates that arrive
    BatchSize,    \* updates of one answer
    SendAttempts, \* max_attempts
    MaxPolls      \* bound of the restarts of the process

ASSUME TelegramAssumption ==
    LastUpdate \in Nat /\ BatchSize \in Nat \ {0} /\ SendAttempts \in Nat \ {0} /\ MaxPolls \in Nat

VARIABLES
    arrived,    \* updates that have arrived at Telegram
    confirmed,  \* Telegram has forgotten all updates up to this one
    offset,     \* _offset - 1: the last update the client has taken
    batch,      \* the updates of the answer in hand
    poll,       \* poll_commands: "off", "clearing", "waiting" or "handling"
    polls,      \* starts of the process
    handled,    \* how often each update was given to the handler
    mark,       \* history: updates that had arrived when the old ones were cleared
    unclear,    \* history: has clearing stale updates ever failed?
    sending,    \* the message under way: "idle", "trying", "sent" or "failed"
    attempt,    \* its attempts so far
    copies      \* how often it was posted to the chat

pollVars == <<arrived, confirmed, offset, batch, poll, polls, handled, mark, unclear>>
sendVars == <<sending, attempt, copies>>
tgVars == <<pollVars, sendVars>>

TgInit ==
    /\ arrived = 0 /\ confirmed = 0 /\ offset = 0
    /\ batch = {}
    /\ poll = "off" /\ polls = 0
    /\ handled = [u \in 1..LastUpdate |-> 0]
    /\ mark = 0 /\ unclear = FALSE
    /\ sending = "idle" /\ attempt = 0 /\ copies = 0

-----------------------------------------------------------------------------
(* Updates                                                                 *)

UserWrites ==
    /\ arrived < LastUpdate
    /\ arrived' = arrived + 1
    /\ UNCHANGED <<confirmed, offset, batch, poll, polls, handled, mark, unclear, sendVars>>

PollStarts ==
    /\ poll = "off" /\ polls < MaxPolls
    /\ poll' = "clearing"
    /\ polls' = polls + 1
    /\ offset' = 0
    /\ UNCHANGED <<arrived, confirmed, batch, handled, mark, unclear, sendVars>>

(* getUpdates(offset=-1) forgets all updates but the last, which the       *)
(* client then steps over; the request may fail, executed or not.          *)
Cleared ==
    IF arrived > confirmed
      THEN confirmed' = arrived - 1 /\ offset' = arrived
      ELSE UNCHANGED <<confirmed, offset>>

ClearStale ==
    /\ poll = "clearing"
    /\ poll' = "waiting"
    /\ \/ Cleared /\ UNCHANGED unclear
       \/ /\ unclear' = TRUE
          /\ confirmed' \in {confirmed} \cup {u \in confirmed..arrived : u = arrived - 1}
          /\ UNCHANGED offset
    /\ mark' = arrived
    /\ UNCHANGED <<arrived, batch, polls, handled, sendVars>>

(* A long poll confirms what lies before its offset and is answered with   *)
(* the next updates; the answer may be lost.                               *)
PollAnswered ==
    /\ poll = "waiting"
    /\ LET from == IF offset > confirmed THEN offset ELSE confirmed
       IN  /\ confirmed' = from
           /\ \/ /\ arrived > from
                 /\ batch' = {u \in 1..arrived : u > from /\ u <= from + BatchSize}
                 /\ poll' = "handling"
              \/ confirmed < from /\ UNCHANGED <<batch, poll>>
    /\ UNCHANGED <<arrived, offset, polls, handled, mark, unclear, sendVars>>

TakenFaulty(u) == offset' = CHOOSE x \in batch : \A v \in batch : v <= x

(* The offset moves before the handler runs.                               *)
Taken(u) == offset' = u

(* The next update of the batch is handled; an exception of the handler    *)
(* drops the rest of the batch, which the next poll fetches again.         *)
HandleUpdate ==
    /\ poll = "handling"
    /\ \E u \in batch :
         /\ \A v \in batch : u <= v
         /\ Taken(u)
         /\ handled' = [handled EXCEPT ![u] = @ + 1]
         /\ \/ batch' = batch \ {u}
            \/ batch' = {}
    /\ poll' = IF batch' = {} THEN "waiting" ELSE "handling"
    /\ UNCHANGED <<arrived, confirmed, polls, mark, unclear, sendVars>>

(* The process dies, with a command half done or not.                      *)
PollDies ==
    /\ poll # "off"
    /\ poll' = "off"
    /\ batch' = {}
    /\ UNCHANGED <<arrived, confirmed, offset, polls, handled, mark, unclear, sendVars>>

-----------------------------------------------------------------------------
(* send_message                                                            *)

SendStarts ==
    /\ sending = "idle"
    /\ sending' = "trying"
    /\ UNCHANGED <<attempt, copies, pollVars>>

(* One attempt.  Telegram takes the message; or answers 429 or 5xx, or     *)
(* not in time, having posted it or not; or refuses it for good, after a   *)
(* second try as plain text if it could not parse it.                      *)
SendAttempt ==
    /\ sending = "trying"
    /\ attempt' = attempt + 1
    /\ \/ sending' = "sent" /\ copies' = copies + 1
       \/ /\ sending' = IF attempt' = SendAttempts THEN "failed" ELSE "trying"
          /\ copies' \in {copies, copies + 1}
       \/ sending' = "failed" /\ UNCHANGED copies
    /\ UNCHANGED pollVars

SendReported ==
    /\ sending \in {"sent", "failed"}
    /\ sending' = "idle" /\ attempt' = 0 /\ copies' = 0
    /\ UNCHANGED pollVars

TgNext ==
    \/ UserWrites \/ PollStarts \/ ClearStale \/ PollAnswered \/ HandleUpdate \/ PollDies
    \/ SendStarts \/ SendAttempt \/ SendReported

TgSpec == TgInit /\ [][TgNext]_tgVars

-----------------------------------------------------------------------------
TgTypeOK ==
    /\ arrived \in 0..LastUpdate /\ confirmed \in 0..arrived /\ offset \in 0..arrived
    /\ batch \subseteq 1..arrived
    /\ poll \in {"off", "clearing", "waiting", "handling"}
    /\ polls \in 0..MaxPolls /\ mark \in 0..arrived /\ unclear \in BOOLEAN
    /\ handled \in [1..LastUpdate -> Nat]
    /\ sending \in {"idle", "trying", "sent", "failed"}
    /\ attempt \in 0..SendAttempts /\ copies \in 0..attempt
    /\ sending = "sent" => copies > 0

(* No command is obeyed twice, across lost answers, failing handlers and   *)
(* restarts, unless a restart could not clear what came before it; and     *)
(* none that arrived while the loop polled is stepped over.                *)
CommandsHandledOnce ==
    /\ ~ unclear => \A u \in 1..LastUpdate : handled[u] <= 1
    /\ \A u \in 1..arrived : poll \in {"waiting", "handling"} /\ mark < u /\ u <= offset => handled[u] > 0
=============================================================================
