----------------------------- MODULE MeshEvents -----------------------------
(***************************************************************************)
(* The client's subscription to the gateway (lib/events.js): one WebSocket *)
(* that is opened again after every loss, until stop().  connect() is      *)
(* called once in the life of a process.                                   *)
(***************************************************************************)
EXTENDS Naturals

CONSTANTS
  MaxDrops,              \* bound: losses of the connection
  MayStop                \* may the application call close()?

ASSUME EventsAssumption == MaxDrops \in Nat /\ MayStop \in BOOLEAN

VARIABLES
  link,                  \* the socket, or the retry timer that stands for it
  stopped,               \* this.stopped
  drops                  \* counter of the bound

evars == <<link, stopped, drops>>

\* "new": connect() is yet to come; "closing": an open socket is closing,
\* "aborting": one that never opened; "waiting": the retry timer is armed;
\* "off": neither socket nor timer.
Link == {"new", "connecting", "open", "closing", "aborting", "waiting", "off"}

EventsInit == link = "new" /\ stopped = FALSE /\ drops = 0

\* Mutant: the timer of a stopped client connects all the same.
StartAnyway == link' = "connecting"

\* start(), which connect() and the retry timer call.
Start == link' = IF stopped THEN "off" ELSE "connecting"

Connect == link = "new" /\ Start /\ UNCHANGED <<stopped, drops>>

Opens == link = "connecting" /\ link' = "open" /\ UNCHANGED <<stopped, drops>>

\* Mutant: only a connection that was open is tried again.
RetryIfOpen == link' = IF link = "open" THEN "waiting" ELSE "off"

\* The close event: try again after reconnectMs.
Retry == link' = IF stopped THEN "off" ELSE "waiting"

\* The gateway refuses the connection or drops it.
Drops ==
  /\ link \in {"connecting", "open"} /\ drops < MaxDrops
  /\ drops' = drops + 1
  /\ Retry
  /\ UNCHANGED stopped

RetryFires == link = "waiting" /\ Start /\ UNCHANGED <<stopped, drops>>

\* stop(): a live socket starts to close; a timer is left to find out.
Stop ==
  /\ MayStop /\ ~stopped
  /\ stopped' = TRUE
  /\ \/ link = "open" /\ link' = "closing"
     \/ link = "connecting" /\ link' = "aborting"
     \/ link \notin {"open", "connecting"} /\ UNCHANGED link
  /\ UNCHANGED drops

Closes == link \in {"closing", "aborting"} /\ Retry /\ UNCHANGED <<stopped, drops>>

EventsNext == Connect \/ Opens \/ Drops \/ RetryFires \/ Stop \/ Closes

\* Frames reach the client while the socket is open, and until it has closed.
Hears == link \in {"open", "closing"}

EventsTypeOK == link \in Link /\ stopped \in BOOLEAN /\ drops \in 0 .. MaxDrops
=============================================================================
