---------------------------- MODULE CommandQueue ----------------------------
(***************************************************************************)
(* The outbound command queue of the Node client (lib/queue.js), with the  *)
(* gateway that carries the commands and the device that answers.          *)
(*                                                                         *)
(* JavaScript runs one handler at a time, so each handler is one action:   *)
(* enqueue(), the two continuations of `await this.send()`, the reply      *)
(* timer, the pump timer and onReply().  Between them anything may happen: *)
(* sends, timers and replies are actors of their own.                      *)
(*                                                                         *)
(* A reply carries no request id: it settles whatever is in flight when it *)
(* arrives, which need not be the request it answers.  It may overtake the *)
(* answer to its own send(), or outlive the wait for it.  The code counts  *)
(* on neither; inTurn remembers whether the air has kept to that so far.   *)
(***************************************************************************)
EXTENDS Integers, Sequences, FiniteSets

CONSTANTS
  Cmd,                   \* command texts, which are also the dedupe keys
  Prio,                  \* [Cmd -> {-1, 0, 1}], opts.priority
  Retries,               \* [Cmd -> Nat], opts.retries
  NoReply,               \* commands enqueued with opts.noReply
  MaxEntries             \* bound: entries ever created

ASSUME QueueAssumption == /\ Prio \in [Cmd -> {-1, 0, 1}]
                          /\ Retries \in [Cmd -> Nat]
                          /\ NoReply \subseteq Cmd
                          /\ MaxEntries \in Nat

VARIABLES
  entries,               \* every entry ever created, in order
  q,                     \* this.q, as indices of entries
  inFlight,              \* this.inFlight, None when null
  spaced,                \* minSpacingMs have passed since lastSentAt
  pumpTimer,             \* this._pumpTimer is set
  sending,               \* entries whose send() has not settled
  timers,                \* entries whose reply timer is armed
  sent,                  \* history: the entry of each call of send()
  owed,                  \* calls of send() the device may yet reply to
  inTurn                 \* history: each reply found its request waiting

vars == <<entries, q, inFlight, spaced, pumpTimer, sending, timers, sent, owed,
          inTurn>>

None == 0
Outcome == {"pending", "answered", "sent", "sendFailed", "timedOut"}

Init ==
  /\ entries = <<>> /\ q = <<>> /\ inFlight = None
  /\ spaced = TRUE /\ pumpTimer = FALSE
  /\ sending = {} /\ timers = {} /\ sent = <<>> /\ owed = {}
  /\ inTurn = TRUE

CmdOf(e) == entries[e].cmd

-----------------------------------------------------------------------------
\* A promise settles once; settling it again does nothing.
Settle(e, outcome, from) ==
  entries' = IF entries[e].outcome = "pending"
             THEN [entries EXCEPT ![e].outcome = outcome, ![e].from = from]
             ELSE entries

\* Mutants: a command in flight does not hold up the next; the pump gives up
\* instead of coming back.
PumpIgnoresInFlight(q1, in1) == q1 = <<>>
PumpNeverLater(armed) == pumpTimer' = armed

PumpBlocked(q1, in1) == in1 # None \/ q1 = <<>>

\* Too soon: come back when the spacing is over.  One timer is enough.
PumpLater(armed) == pumpTimer' = TRUE

\* _pump() up to its first await, on the queue q1, the slot in1, the pending
\* sends and the pump timer as its caller leaves them.
Pump(q1, in1, sending1, armed) ==
  IF ~PumpBlocked(q1, in1) /\ spaced
  THEN /\ q' = Tail(q1)
       /\ inFlight' = Head(q1)
       /\ sending' = sending1 \cup {Head(q1)}
       /\ sent' = Append(sent, Head(q1))
       /\ spaced' = FALSE
       /\ pumpTimer' = armed
  ELSE /\ q' = q1 /\ inFlight' = in1 /\ sending' = sending1
       /\ IF PumpBlocked(q1, in1) THEN pumpTimer' = armed ELSE PumpLater(armed)
       /\ UNCHANGED <<sent, spaced>>

\* The device owes a reply to what is sent now, besides the rest.
Owe(rest) ==
  owed' = rest \cup {i \in DOMAIN sent' \ DOMAIN sent :
                       entries'[sent'[i]].cmd \notin NoReply}

-----------------------------------------------------------------------------
\* The stable sort by falling priority: the one rearrangement of s in which
\* whoever comes earlier has the higher priority, or came earlier before.
SortedByPriority(s, es) ==
  LET prio(i) == Prio[es[s[i]].cmd]
      InOrder(p) == \A i, j \in DOMAIN s : i < j =>
                      \/ prio(p[i]) > prio(p[j])
                      \/ prio(p[i]) = prio(p[j]) /\ p[i] < p[j]
  IN  {[i \in DOMAIN s |-> s[p[i]]] : p \in {f \in [DOMAIN s -> DOMAIN s] : InOrder(f)}}

\* Mutant: only the commands that wait are compared.
IsWaiting(c) == \E i \in DOMAIN q : CmdOf(q[i]) = c

\* The command waits or is on the air: enqueue() hands out the promise there
\* is, and changes nothing.
IsPending(c) == \/ inFlight # None /\ CmdOf(inFlight) = c
                \/ \E i \in DOMAIN q : CmdOf(q[i]) = c

Enqueue(c) ==
  /\ Len(entries) < MaxEntries
  /\ ~IsPending(c)
  /\ entries' = Append(entries, [cmd |-> c, retries |-> Retries[c],
                                 outcome |-> "pending", from |-> None])
  /\ \E s \in SortedByPriority(Append(q, Len(entries')), entries') :
       Pump(s, inFlight, sending, pumpTimer)
  /\ Owe(owed)
  /\ UNCHANGED <<timers, inTurn>>

\* Mutant: nobody waits for the reply.
ArmNoTimer(e) == UNCHANGED timers

ArmTimer(e) == timers' = timers \cup {e}

\* `await this.send()` returns.  A command without a reply is done; any other
\* now waits for one.
SendSucceeds(e) ==
  /\ e \in sending
  /\ IF CmdOf(e) \in NoReply
     THEN /\ Settle(e, "sent", None)
          /\ Pump(q, None, sending \ {e}, pumpTimer)
          /\ Owe(owed)
          /\ UNCHANGED <<timers, inTurn>>
     ELSE /\ ArmTimer(e)
          /\ sending' = sending \ {e}
          /\ UNCHANGED <<entries, q, inFlight, spaced, pumpTimer, sent, owed,
                         inTurn>>

\* `await this.send()` throws.
SendFails(e) ==
  /\ e \in sending
  /\ Settle(e, "sendFailed", None)
  /\ Pump(q, None, sending \ {e}, pumpTimer)
  /\ Owe(owed)
  /\ UNCHANGED <<timers, inTurn>>

\* Mutant: one retry too many.
MayRetryOffByOne(e) == entries[e].retries >= 0

MayRetry(e) == entries[e].retries > 0

\* Mutant: a retry is never used up.
RetryForever(e) == UNCHANGED entries

UseRetry(e) == entries' = [entries EXCEPT ![e].retries = @ - 1]

\* The reply timer fires: try again ahead of everybody, or give up.
Timeout(e) ==
  /\ e \in timers
  /\ timers' = timers \ {e}
  /\ IF MayRetry(e)
     THEN UseRetry(e) /\ Pump(<<e>> \o q, None, sending, pumpTimer)
     ELSE Settle(e, "timedOut", None) /\ Pump(q, None, sending, pumpTimer)
  /\ Owe(owed)
  /\ UNCHANGED inTurn

\* The pump timer fires, perhaps early: then the pump sets it again.
PumpTimerFires ==
  /\ pumpTimer
  /\ UNCHANGED <<entries, timers, inTurn>>
  /\ Pump(q, inFlight, sending, FALSE)
  /\ Owe(owed)

\* Mutant: the timer of an answered command goes on.
KeepTimer(e) == UNCHANGED timers

ClearTimer(e) == timers' = timers \ {e}

\* onReply(): a JSON text arrived, the device's answer to call i of send().
\* Every reply is an object and so matches; nothing looks at who sent it.
Reply(i) ==
  /\ i \in owed
  /\ inTurn' = (inTurn /\ sent[i] \in timers)
  /\ IF inFlight = None
     THEN UNCHANGED <<entries, q, inFlight, spaced, pumpTimer, sending, timers,
                      sent>> /\ owed' = owed \ {i}
     ELSE /\ Settle(inFlight, "answered", sent[i])
          /\ ClearTimer(inFlight)
          /\ Pump(q, None, sending, pumpTimer)
          /\ Owe(owed \ {i})

\* minSpacingMs go by.
SpacingPasses ==
  /\ ~spaced
  /\ spaced' = TRUE
  /\ UNCHANGED <<entries, q, inFlight, pumpTimer, sending, timers, sent, owed,
                 inTurn>>

SendSettles(e) == SendSucceeds(e) \/ SendFails(e)

Next == \/ \E c \in Cmd : Enqueue(c)
        \/ \E e \in 1 .. MaxEntries : SendSettles(e) \/ Timeout(e)
        \/ \E i \in DOMAIN sent : Reply(i)
        \/ PumpTimerFires
        \/ SpacingPasses

\* Timers fire and a send() settles one way or the other (the gateway's HTTP
\* client has a timeout of its own).  The device need not reply.
Fairness == /\ \A e \in 1 .. MaxEntries : WF_vars(SendSettles(e)) /\ WF_vars(Timeout(e))
            /\ WF_vars(PumpTimerFires) /\ WF_vars(SpacingPasses)

SafeSpec == Init /\ [][Next]_vars
Spec == SafeSpec /\ Fairness

-----------------------------------------------------------------------------
(* What makes it correct.                                                  *)

Entry == 1 .. Len(entries)

\* Every variable stays in its type, and no entry waits twice.
TypeOK ==
  /\ entries \in Seq([cmd : Cmd, retries : Nat, outcome : Outcome,
                      from : 0 .. MaxEntries])
  /\ q \in Seq(Entry)
  /\ \A i, j \in DOMAIN q : q[i] = q[j] => i = j
  /\ inFlight \in Entry \cup {None}
  /\ spaced \in BOOLEAN /\ pumpTimer \in BOOLEAN
  /\ sending \subseteq Entry /\ timers \subseteq Entry
  /\ sent \in Seq(Entry) /\ owed \subseteq DOMAIN sent
  /\ inTurn \in BOOLEAN

\* The pump is never lost: when commands wait and the air is free, a timer will
\* take the next one.
PumpIsArmed == (q # <<>> /\ inFlight = None) => pumpTimer

\* A command goes on the air once, plus at most as often as its caller allowed
\* it to be retried: a reboot, whose retries are 0, is sent once whatever
\* timers and replies do.
SendsAreBounded ==
  \A e \in Entry :
     Cardinality({i \in DOMAIN sent : sent[i] = e}) <= 1 + Retries[CmdOf(e)]

\* While replies come in turn, an answered command is not sent again.
SettledIsNotResent ==
  [][inTurn' => \A e \in Entry :
       entries[e].outcome # "pending" =>
         \A i \in DOMAIN sent' \ DOMAIN sent : sent'[i] # e]_vars

\* The entries on the air: sent, unsettled and not waiting for another try.
OnAir == {e \in Entry : /\ entries[e].outcome = "pending"
                        /\ \E i \in DOMAIN sent : sent[i] = e
                        /\ \A i \in DOMAIN q : q[i] # e}

\* While replies come in turn there is one command on the air at a time, ...
OneOnAirInTurn == inTurn => Cardinality(OnAir) <= 1

\* ... an impatient double-click does not double the airtime: no two live
\* entries stand for the same command, ...
NoDuplicateLive ==
  inTurn => \A e, f \in Entry :
     (/\ entries[e].outcome = "pending" /\ entries[f].outcome = "pending"
      /\ CmdOf(e) = CmdOf(f)) => e = f

\* ... and every answer goes to the request it answers.
AnswersAreAttributed ==
  inTurn => \A e \in Entry : entries[e].outcome = "answered" => entries[e].from = e

\* Every caller gets an answer in the end, silence included.
EveryEntrySettles ==
  \A e \in 1 .. MaxEntries :
     e \in Entry ~> (e \in Entry /\ entries[e].outcome # "pending")

-----------------------------------------------------------------------------
(* What the sources say and the code does not do.                          *)

\* queue.js:6: "One in flight per target, with spacing, is the only way the
\* reply means anything."
OneOnAir == Cardinality(OnAir) <= 1
=============================================================================
