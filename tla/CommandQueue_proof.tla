-------------------------- MODULE CommandQueue_proof --------------------------
(***************************************************************************)
(* What the command queue guarantees for any commands, priorities, retries *)
(* and number of entries: types, the pump, the bound on sends, and what    *)
(* holds while replies come in turn.                                       *)
(*                                                                         *)
(* A handler changes the entries, the queue and the slot, and then pumps.  *)
(* Good says what must hold of what it hands to Pump, and what Pump leaves *)
(* behind is good again: each handler then only shows the former.          *)
(***************************************************************************)
EXTENDS CommandQueue, FiniteSetTheorems, FunctionTheorems, TLAPS

\* What an entry of the queue consists of.
EntryRecord == [cmd : Cmd, retries : Nat, outcome : Outcome, from : 0 .. MaxEntries]

\* x is somewhere in the sequence s.
Within(x, s) == \E i \in DOMAIN s : s[i] = x

\* The sends of entry e, by their places in the history st.
SendsOf(e, st) == {i \in DOMAIN st : st[i] = e}

\* Types, over explicit arguments so that half-way states of a handler can be
\* spoken of; no entry waits twice.
GoodTypes(es, q1, in1, snd, tm, st) ==
  /\ es \in Seq(EntryRecord) /\ Len(es) <= MaxEntries
  /\ q1 \in Seq(1 .. Len(es))
  /\ \A i, j \in DOMAIN q1 : q1[i] = q1[j] => i = j
  /\ in1 \in (1 .. Len(es)) \cup {None}
  /\ snd \subseteq 1 .. Len(es) /\ tm \subseteq 1 .. Len(es)
  /\ st \in Seq(1 .. Len(es))

\* An entry waits, is being sent or awaits its reply: one at a time.  The one
\* in flight is one of the latter two.
GoodPlaces(q1, in1, snd, tm) ==
  /\ in1 # None => in1 \in snd \cup tm
  /\ snd \cap tm = {}
  /\ \A i \in DOMAIN q1 : q1[i] \notin snd \cup tm

\* The sends so far, the retries left and the send that is due, if it waits.
GoodBudget(es, q1, st) ==
  \A e \in 1 .. Len(es) :
     Cardinality(SendsOf(e, st)) + es[e].retries
       + (IF Within(e, q1) THEN 1 ELSE 0) <= 1 + Retries[es[e].cmd]

\* In turn, what is unsettled is in flight or waits, nothing else is on the
\* way, and every answer went to its own request.
GoodTurn(es, q1, in1, snd, tm) ==
  /\ \A e \in 1 .. Len(es) : es[e].outcome = "pending" <=> (e = in1 \/ Within(e, q1))
  /\ snd \cup tm \subseteq {in1}
  /\ \A e, f \in 1 .. Len(es) :
        (/\ es[e].outcome = "pending" /\ es[f].outcome = "pending"
         /\ es[e].cmd = es[f].cmd) => e = f
  /\ \A e \in 1 .. Len(es) : es[e].outcome = "answered" => es[e].from = e

Good(es, q1, in1, snd, tm, st, turn) ==
  /\ GoodTypes(es, q1, in1, snd, tm, st)
  /\ GoodPlaces(q1, in1, snd, tm)
  /\ GoodBudget(es, q1, st)
  /\ turn => GoodTurn(es, q1, in1, snd, tm)

\* Types of the variables Good does not mention.
RestTypeOK ==
  /\ spaced \in BOOLEAN /\ pumpTimer \in BOOLEAN /\ inTurn \in BOOLEAN
  /\ owed \subseteq DOMAIN sent

\* The inductive invariant.
QueueInv ==
  /\ Good(entries, q, inFlight, sending, timers, sent, inTurn)
  /\ RestTypeOK /\ PumpIsArmed

\* In turn, a step sends nothing that was settled before it.
SendsUnsettled ==
  inTurn' => \A i \in DOMAIN sent' \ DOMAIN sent :
                sent'[i] \in Entry => entries[sent'[i]].outcome = "pending"

-----------------------------------------------------------------------------
(* Counting and settling.                                                  *)

\* An entry was sent a countable number of times, and never before any send.
LEMMA SendsAreFinite ==
  ASSUME NEW S, NEW st \in Seq(S), NEW e
  PROVE  /\ IsFiniteSet(SendsOf(e, st)) /\ Cardinality(SendsOf(e, st)) \in Nat
         /\ st = <<>> => Cardinality(SendsOf(e, st)) = 0
  <1>1. IsFiniteSet(1 .. Len(st)) BY FS_Interval
  <1>2. SendsOf(e, st) \subseteq 1 .. Len(st) BY DEF SendsOf
  <1>3. IsFiniteSet(SendsOf(e, st)) BY <1>1, <1>2, FS_Subset
  <1>4. st = <<>> => SendsOf(e, st) = {} BY DEF SendsOf
  <1> QED BY <1>3, <1>4, FS_CardinalityType, FS_EmptySet

\* One more send adds one to the count of its entry, and to no other.
LEMMA OneMoreSend ==
  ASSUME NEW S, NEW st \in Seq(S), NEW x \in S, NEW e
  PROVE  Cardinality(SendsOf(e, Append(st, x)))
           = Cardinality(SendsOf(e, st)) + (IF x = e THEN 1 ELSE 0)
  <1>1. IsFiniteSet(SendsOf(e, st)) BY SendsAreFinite
  <1>2. Len(st) + 1 \notin SendsOf(e, st) BY DEF SendsOf
  <1>3. CASE x = e
    <2>1. SendsOf(e, Append(st, x)) = SendsOf(e, st) \cup {Len(st) + 1}
      BY <1>3 DEF SendsOf
    <2> QED BY <1>1, <1>2, <1>3, <2>1, FS_AddElement
  <1>4. CASE x # e
    <2>1. SendsOf(e, Append(st, x)) = SendsOf(e, st) BY <1>4 DEF SendsOf
    <2> QED BY <1>1, <1>4, <2>1, FS_CardinalityType
  <1> QED BY <1>3, <1>4

\* An element of a sequence is replaced, and no other.
LEMMA ElementReplaced ==
  ASSUME NEW S, NEW s \in Seq(S), NEW i \in 1 .. Len(s), NEW v \in S,
         NEW t, t = [s EXCEPT ![i] = v]
  PROVE  /\ t \in Seq(S) /\ Len(t) = Len(s) /\ t[i] = v
         /\ \A x \in 1 .. Len(s) : x # i => t[x] = s[x]
  OBVIOUS

\* Settling an entry changes its outcome, and no other entry.
LEMMA SettleFacts ==
  ASSUME entries \in Seq(EntryRecord), NEW e \in Entry, NEW o \in Outcome,
         NEW f \in 0 .. MaxEntries, Settle(e, o, f)
  PROVE  /\ entries' \in Seq(EntryRecord) /\ Len(entries') = Len(entries)
         /\ \A x \in Entry : /\ entries'[x].cmd = entries[x].cmd
                             /\ entries'[x].retries = entries[x].retries
                             /\ x # e => entries'[x] = entries[x]
         /\ entries[e].outcome = "pending" => entries'[e].outcome = o /\ entries'[e].from = f
         /\ entries[e].outcome # "pending" => entries'[e] = entries[e]
  <1>1. CASE entries[e].outcome = "pending"
    <2>1. entries' = [entries EXCEPT ![e].outcome = o, ![e].from = f]
      BY <1>1 DEF Settle
    <2>2. entries[e] \in EntryRecord BY DEF Entry
    <2> DEFINE w == [entries[e] EXCEPT !.outcome = o, !.from = f]
    <2>3. entries' = [entries EXCEPT ![e] = w]
      BY <2>1, <2>2 DEF EntryRecord, Entry
    <2>4. w \in EntryRecord BY <2>2 DEF EntryRecord
    <2>5. /\ w.cmd = entries[e].cmd /\ w.retries = entries[e].retries
          /\ w.outcome = o /\ w.from = f
      BY <2>2 DEF EntryRecord
    <2>6. e \in 1 .. Len(entries) /\ Entry = 1 .. Len(entries) BY DEF Entry
    <2> HIDE DEF w
    <2>7. /\ entries' \in Seq(EntryRecord) /\ Len(entries') = Len(entries)
          /\ entries'[e] = w
          /\ \A x \in 1 .. Len(entries) : x # e => entries'[x] = entries[x]
      BY <2>3, <2>4, <2>6, ElementReplaced
    <2> QED BY <1>1, <2>5, <2>6, <2>7
  <1>2. CASE entries[e].outcome # "pending" BY <1>2 DEF Settle
  <1> QED BY <1>1, <1>2

-----------------------------------------------------------------------------
(* The pump.                                                               *)

\* The head and the tail of a sequence, entry by entry.
LEMMA HeadTail ==
  ASSUME NEW S, NEW s \in Seq(S), s # <<>>
  PROVE  /\ Head(s) \in S /\ Head(s) = s[1] /\ 1 \in DOMAIN s
         /\ Tail(s) \in Seq(S)
         /\ DOMAIN Tail(s) = 1 .. Len(s) - 1
         /\ \A i \in DOMAIN Tail(s) : i + 1 \in DOMAIN s /\ Tail(s)[i] = s[i + 1]
  OBVIOUS

\* Whoever waited waits on or is the head.
LEMMA TailOfQueue ==
  ASSUME NEW S, NEW s \in Seq(S), s # <<>>,
         \A i, j \in DOMAIN s : s[i] = s[j] => i = j
  PROVE  /\ \A i, j \in DOMAIN Tail(s) : Tail(s)[i] = Tail(s)[j] => i = j
         /\ \A e : Within(e, s) <=> (e = Head(s) \/ Within(e, Tail(s)))
         /\ ~Within(Head(s), Tail(s))
  <1>1. \A i, j \in DOMAIN Tail(s) : Tail(s)[i] = Tail(s)[j] => i = j
    <2> SUFFICES ASSUME NEW i \in DOMAIN Tail(s), NEW j \in DOMAIN Tail(s),
                        Tail(s)[i] = Tail(s)[j]
                 PROVE  i = j
      OBVIOUS
    <2>1. s[i + 1] = s[j + 1] /\ i + 1 \in DOMAIN s /\ j + 1 \in DOMAIN s
      BY HeadTail
    <2>2. i + 1 = j + 1 BY <2>1
    <2> QED BY <2>2, HeadTail
  <1>2. \A e : Within(e, s) => (e = Head(s) \/ Within(e, Tail(s)))
    <2> SUFFICES ASSUME NEW i \in DOMAIN s, i # 1 PROVE Within(s[i], Tail(s))
      BY HeadTail DEF Within
    <2>1. i - 1 \in DOMAIN Tail(s) /\ Tail(s)[i - 1] = s[i] BY HeadTail
    <2> QED BY <2>1 DEF Within
  <1>3. \A e : (e = Head(s) \/ Within(e, Tail(s))) => Within(e, s)
    BY HeadTail DEF Within
  <1>4. ~Within(Head(s), Tail(s))
    <2> SUFFICES ASSUME NEW i \in DOMAIN Tail(s), Tail(s)[i] = Head(s) PROVE FALSE
      BY DEF Within
    <2>1. s[i + 1] = s[1] /\ i + 1 \in DOMAIN s /\ 1 \in DOMAIN s BY HeadTail
    <2>2. i + 1 = 1 BY <2>1
    <2> QED BY <2>2, HeadTail
  <1> QED BY <1>1, <1>2, <1>3, <1>4

\* _pump() sees to its timer and does nothing else, or sends the head.
LEMMA PumpKeepsGood ==
  ASSUME NEW q1, NEW in1, NEW snd1, NEW armed \in BOOLEAN, spaced \in BOOLEAN,
         Good(entries', q1, in1, snd1, timers', sent, inTurn'),
         Pump(q1, in1, snd1, armed)
  PROVE  /\ Good(entries', q', inFlight', sending', timers', sent', inTurn')
         /\ PumpIsArmed' /\ spaced' \in BOOLEAN /\ pumpTimer' \in BOOLEAN
         /\ DOMAIN sent \subseteq DOMAIN sent'
         /\ \A i \in DOMAIN sent' \ DOMAIN sent : Within(sent'[i], q1)
  <1>1. CASE /\ q' = q1 /\ inFlight' = in1 /\ sending' = snd1
             /\ UNCHANGED <<sent, spaced>> /\ pumpTimer' \in {armed, TRUE}
             /\ (q1 # <<>> /\ in1 = None) => pumpTimer' = TRUE
    BY <1>1 DEF PumpIsArmed
  <1>2. CASE /\ in1 = None /\ q1 # <<>>
             /\ q' = Tail(q1) /\ inFlight' = Head(q1)
             /\ sending' = snd1 \cup {Head(q1)}
             /\ sent' = Append(sent, Head(q1))
             /\ spaced' = FALSE /\ pumpTimer' = armed
    <2> DEFINE h == Head(q1)
               N == Len(entries')
    <2>1. /\ q1 \in Seq(1 .. N) /\ sent \in Seq(1 .. N) /\ N \in Nat
          /\ \A i, j \in DOMAIN q1 : q1[i] = q1[j] => i = j
      BY DEF Good, GoodTypes
    <2>2. /\ h \in 1 .. N /\ h # None /\ h = q1[1] /\ 1 \in DOMAIN q1
          /\ Tail(q1) \in Seq(1 .. N)
          /\ \A i \in DOMAIN Tail(q1) : \E j \in DOMAIN q1 : Tail(q1)[i] = q1[j]
      BY <1>2, <2>1, HeadTail DEF None
    <2>3. /\ \A i, j \in DOMAIN Tail(q1) : Tail(q1)[i] = Tail(q1)[j] => i = j
          /\ \A e : Within(e, q1) <=> (e = h \/ Within(e, Tail(q1)))
          /\ ~Within(h, Tail(q1))
      BY <1>2, <2>1, TailOfQueue
    <2>4. GoodTypes(entries', q', inFlight', sending', timers', sent')
      <3>1. sent' \in Seq(1 .. N) BY <1>2, <2>1, <2>2
      <3>2. q' \in Seq(1 .. N) /\ inFlight' \in (1 .. N) \cup {None}
            /\ \A i, j \in DOMAIN q' : q'[i] = q'[j] => i = j
        BY <1>2, <2>2, <2>3
      <3>3. sending' \subseteq 1 .. N BY <1>2, <2>2 DEF Good, GoodTypes
      <3> QED BY <3>1, <3>2, <3>3 DEF Good, GoodTypes
    <2>5. GoodPlaces(q', inFlight', sending', timers')
      <3>1. h \notin snd1 \cup timers' BY <2>2 DEF Good, GoodPlaces
      <3>2. \A i \in DOMAIN Tail(q1) : Tail(q1)[i] \notin snd1 \cup timers'
        BY <2>2 DEF Good, GoodPlaces
      <3>3. \A i \in DOMAIN Tail(q1) : Tail(q1)[i] # h BY <2>3 DEF Within
      <3> QED BY <1>2, <3>1, <3>2, <3>3 DEF Good, GoodPlaces
    <2>6. GoodBudget(entries', q', sent')
      <3> SUFFICES ASSUME NEW e \in 1 .. N
                   PROVE  Cardinality(SendsOf(e, sent')) + entries'[e].retries
                            + (IF Within(e, q') THEN 1 ELSE 0)
                              <= 1 + Retries[entries'[e].cmd]
        BY DEF GoodBudget
      <3>1. Cardinality(SendsOf(e, sent')) = Cardinality(SendsOf(e, sent))
              + (IF h = e THEN 1 ELSE 0)
        BY <1>2, <2>1, <2>2, OneMoreSend
      <3>2. Cardinality(SendsOf(e, sent)) \in Nat BY <2>1, SendsAreFinite
      <3>3. entries'[e] \in EntryRecord BY DEF Good, GoodTypes
      <3>4. entries'[e].retries \in Nat /\ Retries[entries'[e].cmd] \in Nat
        BY <3>3, QueueAssumption DEF EntryRecord
      <3>5. Cardinality(SendsOf(e, sent)) + entries'[e].retries
              + (IF Within(e, q1) THEN 1 ELSE 0) <= 1 + Retries[entries'[e].cmd]
        BY DEF Good, GoodBudget
      <3>6. /\ Within(e, q1) <=> (h = e \/ Within(e, q'))
            /\ ~(h = e /\ Within(e, q'))
        BY <1>2, <2>3
      <3> HIDE DEF h, N
      <3> QED BY <3>1, <3>2, <3>4, <3>5, <3>6
    <2>7. ASSUME inTurn'
          PROVE  GoodTurn(entries', q', inFlight', sending', timers')
      <3>1. GoodTurn(entries', q1, in1, snd1, timers') BY <2>7 DEF Good
      <3>2. snd1 = {} /\ timers' = {}
        <4>1. snd1 \cup timers' \subseteq {None} BY <1>2, <3>1 DEF GoodTurn
        <4>2. snd1 \subseteq 1 .. N /\ timers' \subseteq 1 .. N
          BY DEF Good, GoodTypes
        <4> QED BY <4>1, <4>2 DEF None
      <3>3. \A e \in 1 .. N : e # None BY DEF None
      <3> HIDE DEF h, N
      <3>4. \A e \in 1 .. N : entries'[e].outcome = "pending"
                                <=> (e = inFlight' \/ Within(e, q'))
        BY <1>2, <2>3, <3>1, <3>3 DEF GoodTurn, N, h
      <3> QED BY <1>2, <3>1, <3>2, <3>4 DEF GoodTurn, N
    <2>8. /\ DOMAIN sent \subseteq DOMAIN sent'
          /\ \A i \in DOMAIN sent' \ DOMAIN sent : Within(sent'[i], q1)
      BY <1>2, <2>1, <2>2 DEF Within
    <2>9. PumpIsArmed' BY <1>2, <2>2 DEF PumpIsArmed
    <2>10. Good(entries', q', inFlight', sending', timers', sent', inTurn')
      BY <2>4, <2>5, <2>6, <2>7 DEF Good
    <2> QED BY <1>2, <2>8, <2>9, <2>10
  <1>3. \/ /\ q' = q1 /\ inFlight' = in1 /\ sending' = snd1
           /\ UNCHANGED <<sent, spaced>> /\ pumpTimer' \in {armed, TRUE}
           /\ (q1 # <<>> /\ in1 = None) => pumpTimer' = TRUE
        \/ /\ in1 = None /\ q1 # <<>>
           /\ q' = Tail(q1) /\ inFlight' = Head(q1)
           /\ sending' = snd1 \cup {Head(q1)}
           /\ sent' = Append(sent, Head(q1))
           /\ spaced' = FALSE /\ pumpTimer' = armed
    <2>1. CASE ~PumpBlocked(q1, in1) /\ spaced BY <2>1 DEF Pump, PumpBlocked
    <2>2. CASE ~PumpBlocked(q1, in1) /\ ~spaced
      BY <2>2 DEF Pump, PumpBlocked, PumpLater
    <2>3. CASE PumpBlocked(q1, in1) BY <2>3 DEF Pump, PumpBlocked
    <2> QED BY <2>1, <2>2, <2>3
  <1> QED BY <1>1, <1>2, <1>3

\* A handler that pumps, and what it owes afterwards.
LEMMA HandlerKeepsInv ==
  ASSUME RestTypeOK, NEW q1, NEW in1, NEW snd1, NEW armed \in BOOLEAN,
         Good(entries', q1, in1, snd1, timers', sent, inTurn'),
         Pump(q1, in1, snd1, armed), inTurn' \in BOOLEAN,
         owed' \subseteq DOMAIN sent',
         inTurn' => \A e \in Entry :
                      Within(e, q1) => entries[e].outcome = "pending"
  PROVE  QueueInv' /\ SendsUnsettled
  <1>1. spaced \in BOOLEAN BY DEF RestTypeOK
  <1>2. /\ Good(entries', q', inFlight', sending', timers', sent', inTurn')
        /\ PumpIsArmed' /\ spaced' \in BOOLEAN /\ pumpTimer' \in BOOLEAN
        /\ \A i \in DOMAIN sent' \ DOMAIN sent : Within(sent'[i], q1)
    BY <1>1, PumpKeepsGood
  <1>3. SendsUnsettled BY <1>2 DEF SendsUnsettled
  <1> QED BY <1>2, <1>3 DEF QueueInv, RestTypeOK

\* Replies are owed for sends on record.
LEMMA OweType ==
  ASSUME NEW rest \in SUBSET DOMAIN sent, DOMAIN sent \subseteq DOMAIN sent', Owe(rest)
  PROVE  owed' \subseteq DOMAIN sent'
  BY DEF Owe

-----------------------------------------------------------------------------
(* Sorting and queueing at the front.                                      *)

\* sort() keeps what waits, and makes nothing wait twice.
LEMMA SortKeepsEntries ==
  ASSUME NEW S, NEW s \in Seq(S), NEW es, NEW t \in SortedByPriority(s, es),
         \A x \in S : Prio[es[x].cmd] \in Int,
         \A i, j \in DOMAIN s : s[i] = s[j] => i = j
  PROVE  /\ t \in Seq(S)
         /\ \A i, j \in DOMAIN t : t[i] = t[j] => i = j
         /\ \A e : Within(e, t) <=> Within(e, s)
  <1> DEFINE D == DOMAIN s
             prio(i) == Prio[es[s[i]].cmd]
  <1>1. PICK p \in [D -> D] :
          /\ t = [i \in D |-> s[p[i]]]
          /\ \A i, j \in D : i < j => \/ prio(p[i]) > prio(p[j])
                                      \/ prio(p[i]) = prio(p[j]) /\ p[i] < p[j]
    BY DEF SortedByPriority
  <1>2. D = 1 .. Len(s) /\ Len(s) \in Nat /\ \A i \in D : s[i] \in S OBVIOUS
  <1>3. ASSUME NEW i \in D PROVE prio(i) \in Int
    <2>1. s[i] \in S BY <1>2
    <2> QED BY <2>1
  <1>4. ASSUME NEW i \in D, NEW j \in D, i < j PROVE p[i] # p[j]
    <2> HIDE DEF D, prio
    <2>1. p[i] \in D /\ p[j] \in D OBVIOUS
    <2>2. prio(p[i]) \in Int /\ p[i] \in Nat BY <1>2, <1>3, <2>1
    <2>3. \/ prio(p[i]) > prio(p[j])
          \/ prio(p[i]) = prio(p[j]) /\ p[i] < p[j]
      BY <1>1, <1>4
    <2> SUFFICES ASSUME p[i] = p[j] PROVE FALSE OBVIOUS
    <2>4. prio(p[i]) = prio(p[j]) OBVIOUS
    <2> QED BY <2>2, <2>3, <2>4
  <1>5. \A i, j \in D : p[i] = p[j] => i = j BY <1>2, <1>4
  <1>6. p \in Injection(D, D) BY <1>5, Fun_IsInj
  <1>7. IsFiniteSet(D) BY <1>2, FS_Interval
  <1>8. p \in Surjection(D, D) BY <1>6, <1>7, FS_Injection
  <1>9. \A i \in D : \E j \in D : p[j] = i BY <1>8, Fun_SurjectionProperties
  <1>10. DOMAIN t = D BY <1>1
  <1>11. t \in Seq(S)
    <2>1. t \in [1 .. Len(s) -> S] BY <1>1, <1>2
    <2> QED BY <1>2, <2>1
  <1>12. \A i, j \in DOMAIN t : t[i] = t[j] => i = j BY <1>1, <1>5, <1>10
  <1>13. \A e : Within(e, t) => Within(e, s) BY <1>1, <1>10 DEF Within
  <1>14. \A e : Within(e, s) => Within(e, t)
    BY <1>1, <1>9, <1>10 DEF Within
  <1> QED BY <1>11, <1>12, <1>13, <1>14

\* push() adds one entry at the back.
LEMMA AppendToQueue ==
  ASSUME NEW S, NEW s \in Seq(S), NEW x, x \notin S,
         \A i, j \in DOMAIN s : s[i] = s[j] => i = j
  PROVE  /\ Append(s, x) \in Seq(S \cup {x})
         /\ \A i, j \in DOMAIN Append(s, x) :
               Append(s, x)[i] = Append(s, x)[j] => i = j
         /\ \A e : Within(e, Append(s, x)) <=> (e = x \/ Within(e, s))
  <1>1. /\ DOMAIN Append(s, x) = DOMAIN s \cup {Len(s) + 1}
        /\ \A i \in DOMAIN s : Append(s, x)[i] = s[i] /\ s[i] \in S /\ i # Len(s) + 1
        /\ Append(s, x)[Len(s) + 1] = x
    OBVIOUS
  <1>2. Append(s, x) \in Seq(S \cup {x}) OBVIOUS
  <1>3. \A e : Within(e, Append(s, x)) <=> (e = x \/ Within(e, s))
    BY <1>1 DEF Within
  <1>4. \A i, j \in DOMAIN Append(s, x) :
               Append(s, x)[i] = Append(s, x)[j] => i = j
    BY <1>1
  <1> QED BY <1>2, <1>3, <1>4

\* unshift() adds one entry at the front.
LEMMA PutInFront ==
  ASSUME NEW S, NEW s \in Seq(S), NEW x \in S, ~Within(x, s),
         \A i, j \in DOMAIN s : s[i] = s[j] => i = j
  PROVE  /\ <<x>> \o s \in Seq(S)
         /\ \A i, j \in DOMAIN (<<x>> \o s) :
               (<<x>> \o s)[i] = (<<x>> \o s)[j] => i = j
         /\ \A e : Within(e, <<x>> \o s) <=> (e = x \/ Within(e, s))
  <1> DEFINE t == <<x>> \o s
  <1>1. /\ t \in Seq(S) /\ Len(t) = Len(s) + 1 /\ t[1] = x
        /\ \A i \in 1 .. Len(s) : t[i + 1] = s[i]
    OBVIOUS
  <1>2. DOMAIN t = 1 .. Len(s) + 1 /\ DOMAIN s = 1 .. Len(s) /\ Len(s) \in Nat
    BY <1>1
  <1> HIDE DEF t
  <1>3. \A i \in DOMAIN t : i # 1 => i - 1 \in DOMAIN s /\ t[i] = s[i - 1]
    <2> SUFFICES ASSUME NEW i \in DOMAIN t, i # 1
                 PROVE  i - 1 \in DOMAIN s /\ t[i] = s[i - 1]
      OBVIOUS
    <2>1. i - 1 \in 1 .. Len(s) /\ (i - 1) + 1 = i BY <1>2
    <2> QED BY <1>1, <1>2, <2>1
  <1>4. \A i \in DOMAIN s : s[i] # x BY DEF Within
  <1>5. \A i, j \in DOMAIN t : t[i] = t[j] => i = j
    <2> SUFFICES ASSUME NEW i \in DOMAIN t, NEW j \in DOMAIN t, t[i] = t[j]
                 PROVE  i = j
      OBVIOUS
    <2>1. CASE i # 1 /\ j # 1
      <3>1. i - 1 = j - 1 BY <1>3, <2>1
      <3> QED BY <1>2, <3>1
    <2>2. CASE i = 1 \/ j = 1 BY <1>1, <1>3, <1>4, <2>2
    <2> QED BY <2>1, <2>2
  <1>6. \A e : Within(e, t) => (e = x \/ Within(e, s))
    BY <1>1, <1>3 DEF Within
  <1>7. \A e : (e = x \/ Within(e, s)) => Within(e, t)
    <2>1. Within(x, t) BY <1>1, <1>2 DEF Within
    <2>2. \A i \in DOMAIN s : i + 1 \in DOMAIN t /\ t[i + 1] = s[i] BY <1>1, <1>2
    <2> QED BY <2>1, <2>2 DEF Within
  <1> QED BY <1>1, <1>5, <1>6, <1>7 DEF t

-----------------------------------------------------------------------------
(* The actions.                                                            *)

\* What the invariant says of entries that wait or are on their way.
LEMMA Waiting ==
  ASSUME QueueInv
  PROVE  /\ Entry = 1 .. Len(entries) /\ Len(entries) \in Nat /\ Len(entries) <= MaxEntries
         /\ \A e : Within(e, q) => e \in Entry /\ e \notin sending \cup timers
         /\ inFlight # None => inFlight \in Entry /\ inFlight \in sending \cup timers
         /\ ~Within(None, q)
         /\ inTurn => \A e \in Entry : Within(e, q) => entries[e].outcome = "pending"
  <1>1. q \in Seq(Entry) /\ Len(entries) \in Nat
    BY DEF QueueInv, Good, GoodTypes, Entry
  <1>2. \A e : Within(e, q) => e \in Entry /\ e \notin sending \cup timers
    BY <1>1 DEF Within, QueueInv, Good, GoodPlaces
  <1>3. None \notin Entry BY DEF None, Entry
  <1>4. inFlight # None => inFlight \in Entry /\ inFlight \in sending \cup timers
    BY DEF QueueInv, Good, GoodTypes, GoodPlaces, Entry
  <1>5. inTurn => \A e \in Entry : Within(e, q) => entries[e].outcome = "pending"
    BY DEF QueueInv, Good, GoodTurn, Entry
  <1>6. Len(entries) <= MaxEntries BY DEF QueueInv, Good, GoodTypes
  <1> QED BY <1>1, <1>2, <1>3, <1>4, <1>5, <1>6 DEF Entry

\* An entry is settled and the slot is free.
LEMMA SettleIsGood ==
  ASSUME QueueInv, NEW e \in sending \cup timers, NEW o \in Outcome, o # "pending",
         NEW f \in 0 .. MaxEntries, Settle(e, o, f),
         NEW snd1 \in SUBSET sending, timers' \subseteq timers,
         inTurn' => /\ inTurn /\ e \notin snd1 \cup timers'
                    /\ o = "answered" => f = e
  PROVE  Good(entries', q, None, snd1, timers', sent, inTurn')
  <1> DEFINE N == Len(entries)
  <1>1. /\ entries \in Seq(EntryRecord) /\ e \in Entry /\ Entry = 1 .. N
        /\ sending \subseteq 1 .. N /\ timers \subseteq 1 .. N
    BY DEF QueueInv, Good, GoodTypes, Entry
  <1>2. /\ entries' \in Seq(EntryRecord) /\ Len(entries') = N
        /\ \A x \in Entry : /\ entries'[x].cmd = entries[x].cmd
                            /\ entries'[x].retries = entries[x].retries
                            /\ x # e => entries'[x] = entries[x]
        /\ entries[e].outcome = "pending" => entries'[e].outcome = o /\ entries'[e].from = f
        /\ entries[e].outcome # "pending" => entries'[e] = entries[e]
    BY <1>1, SettleFacts
  <1>3. GoodTypes(entries', q, None, snd1, timers', sent)
    BY <1>1, <1>2 DEF QueueInv, Good, GoodTypes, None
  <1>4. GoodPlaces(q, None, snd1, timers') BY DEF QueueInv, Good, GoodPlaces
  <1>5. GoodBudget(entries', q, sent)
    BY <1>1, <1>2 DEF QueueInv, Good, GoodBudget
  <1>6. ASSUME inTurn' PROVE GoodTurn(entries', q, None, snd1, timers')
    <2>1. GoodTurn(entries, q, inFlight, sending, timers)
      BY <1>6 DEF QueueInv, Good
    <2>2. e = inFlight /\ sending \cup timers \subseteq {e} BY <2>1 DEF GoodTurn
    <2>3. snd1 = {} /\ timers' = {} BY <1>6, <2>2
    <2>4. ~Within(e, q) BY Waiting
    <2>5. \A x \in Entry : x # None BY DEF Entry, None
    <2>6. \A x \in Entry : entries'[x].outcome = "pending"
             <=> (x # e /\ entries[x].outcome = "pending")
      BY <1>1, <1>2
    <2>7. \A x \in Entry : entries'[x].outcome = "pending" <=> Within(x, q)
      BY <1>1, <2>1, <2>2, <2>4, <2>6 DEF GoodTurn
    <2>8. \A x \in Entry : entries'[x].outcome = "answered" => entries'[x].from = x
      BY <1>1, <1>2, <1>6, <2>1 DEF GoodTurn
    <2>9. \A x, y \in Entry : (/\ entries'[x].outcome = "pending"
                               /\ entries'[y].outcome = "pending"
                               /\ entries'[x].cmd = entries'[y].cmd) => x = y
      BY <1>1, <1>2, <2>1, <2>6 DEF GoodTurn
    <2> QED BY <1>1, <1>2, <2>3, <2>5, <2>7, <2>8, <2>9 DEF GoodTurn
  <1> QED BY <1>3, <1>4, <1>5, <1>6 DEF Good

\* An entry goes back to the head of the queue, and the slot is free.
LEMMA RetryIsGood ==
  ASSUME QueueInv, NEW e \in timers, MayRetry(e), UseRetry(e),
         timers' = timers \ {e}, UNCHANGED inTurn
  PROVE  /\ Good(entries', <<e>> \o q, None, sending, timers', sent, inTurn')
         /\ inTurn => entries[e].outcome = "pending"
         /\ \A x : Within(x, <<e>> \o q) <=> (x = e \/ Within(x, q))
  <1> DEFINE N == Len(entries)
             q1 == <<e>> \o q
  <1>1. /\ entries \in Seq(EntryRecord) /\ e \in 1 .. N /\ Entry = 1 .. N /\ N <= MaxEntries
        /\ sending \subseteq 1 .. N /\ timers \subseteq 1 .. N /\ N \in Nat
        /\ q \in Seq(1 .. N) /\ sent \in Seq(1 .. N)
        /\ \A i, j \in DOMAIN q : q[i] = q[j] => i = j
    BY DEF QueueInv, Good, GoodTypes, Entry
  <1>2. entries[e] \in EntryRecord /\ entries[e].retries \in Nat
        /\ entries[e].retries - 1 \in Nat
    <2>1. entries[e] \in EntryRecord BY <1>1
    <2>2. entries[e].retries \in Nat BY <2>1 DEF EntryRecord
    <2> QED BY <2>1, <2>2 DEF MayRetry
  <1> DEFINE w == [entries[e] EXCEPT !.retries = @ - 1]
  <1>3. entries' = [entries EXCEPT ![e] = w]
    BY <1>1, <1>2 DEF UseRetry, EntryRecord
  <1>4. /\ w \in EntryRecord /\ w.cmd = entries[e].cmd
        /\ w.outcome = entries[e].outcome /\ w.from = entries[e].from
        /\ w.retries = entries[e].retries - 1
    BY <1>2 DEF EntryRecord
  <1> HIDE DEF w
  <1>5. /\ entries' \in Seq(EntryRecord) /\ Len(entries') = N
        /\ \A x \in 1 .. N : /\ entries'[x].cmd = entries[x].cmd
                             /\ entries'[x].outcome = entries[x].outcome
                             /\ entries'[x].from = entries[x].from
                             /\ x # e => entries'[x].retries = entries[x].retries
        /\ entries'[e].retries = entries[e].retries - 1
    <2>1. /\ entries' \in Seq(EntryRecord) /\ Len(entries') = N
          /\ entries'[e] = w
          /\ \A x \in 1 .. N : x # e => entries'[x] = entries[x]
      BY <1>1, <1>3, <1>4, ElementReplaced
    <2> QED BY <1>4, <2>1
  <1>6. ~Within(e, q) BY Waiting
  <1>7. /\ q1 \in Seq(1 .. N)
        /\ \A i, j \in DOMAIN q1 : q1[i] = q1[j] => i = j
        /\ \A x : Within(x, q1) <=> (x = e \/ Within(x, q))
    BY <1>1, <1>6, PutInFront
  <1> HIDE DEF q1
  <1>8. GoodTypes(entries', q1, None, sending, timers', sent)
    BY <1>1, <1>5, <1>7 DEF GoodTypes, None
  <1>9. GoodPlaces(q1, None, sending, timers')
    <2>1. sending \cap timers' = {} BY DEF QueueInv, Good, GoodPlaces
    <2>2. e \notin sending BY DEF QueueInv, Good, GoodPlaces
    <2>3. \A x : Within(x, q1) => x \notin sending \cup timers'
      BY <1>7, <2>2, Waiting
    <2> QED BY <2>1, <2>3 DEF GoodPlaces, Within
  <1>10. GoodBudget(entries', q1, sent)
    <2> SUFFICES ASSUME NEW x \in 1 .. N
                 PROVE  Cardinality(SendsOf(x, sent)) + entries'[x].retries
                          + (IF Within(x, q1) THEN 1 ELSE 0)
                            <= 1 + Retries[entries'[x].cmd]
      BY <1>5 DEF GoodBudget
    <2>1. Cardinality(SendsOf(x, sent)) \in Nat BY <1>1, SendsAreFinite
    <2>2. entries[x] \in EntryRecord BY <1>1
    <2>3. entries[x].retries \in Nat /\ Retries[entries[x].cmd] \in Nat
      BY <2>2, QueueAssumption DEF EntryRecord
    <2>4. Cardinality(SendsOf(x, sent)) + entries[x].retries
            + (IF Within(x, q) THEN 1 ELSE 0) <= 1 + Retries[entries[x].cmd]
      BY DEF QueueInv, Good, GoodBudget
    <2>a. entries'[x].cmd = entries[x].cmd BY <1>5
    <2>5. CASE x = e
      <3>1. ~Within(x, q) /\ Within(x, q1) BY <1>6, <1>7, <2>5
      <3>2. entries'[x].retries = entries[x].retries - 1 BY <1>5, <2>5
      <3> QED BY <2>1, <2>3, <2>4, <2>a, <3>1, <3>2
    <2>6. CASE x # e
      <3>1. Within(x, q1) <=> Within(x, q) BY <1>7, <2>6
      <3>2. entries'[x].retries = entries[x].retries BY <1>5, <2>6
      <3> QED BY <2>1, <2>3, <2>4, <2>a, <3>1, <3>2
    <2> QED BY <2>5, <2>6
  <1>11. ASSUME inTurn'
         PROVE  GoodTurn(entries', q1, None, sending, timers')
                /\ entries[e].outcome = "pending"
    <2>1. GoodTurn(entries, q, inFlight, sending, timers)
      BY <1>11 DEF QueueInv, Good
    <2>2. e = inFlight /\ sending \cup timers \subseteq {e} BY <2>1 DEF GoodTurn
    <2>3. sending = {} /\ timers' = {}
      BY <2>2 DEF QueueInv, Good, GoodPlaces
    <2>4. \A x \in 1 .. N : x # None BY DEF None
    <2> QED BY <1>1, <1>5, <1>7, <2>1, <2>2, <2>3, <2>4 DEF GoodTurn
  <1> QED BY <1>7, <1>8, <1>9, <1>10, <1>11 DEF Good, q1

\* Pumping from a good state, and owing what is sent to what is left of owed.
LEMMA Pumped ==
  ASSUME QueueInv, NEW q1, NEW in1, NEW snd1, NEW armed \in BOOLEAN,
         Good(entries', q1, in1, snd1, timers', sent, inTurn'),
         Pump(q1, in1, snd1, armed), inTurn' \in BOOLEAN,
         NEW rest \in SUBSET owed, Owe(rest),
         inTurn' => \A e \in Entry :
                      Within(e, q1) => entries[e].outcome = "pending"
  PROVE  QueueInv' /\ SendsUnsettled
  <1>1. RestTypeOK BY DEF QueueInv
  <1>2. spaced \in BOOLEAN /\ rest \subseteq DOMAIN sent BY <1>1 DEF RestTypeOK
  <1>3. DOMAIN sent \subseteq DOMAIN sent' BY <1>2, PumpKeepsGood
  <1>4. owed' \subseteq DOMAIN sent' BY <1>2, <1>3 DEF Owe
  <1> QED BY <1>1, <1>4, HandlerKeepsInv

\* enqueue(), with the sort and the pump it ends in.
LEMMA EnqueueOK ==
  ASSUME QueueInv, NEW c \in Cmd, Enqueue(c)
  PROVE  QueueInv' /\ SendsUnsettled
  <1> DEFINE N == Len(entries)
             new == [cmd |-> c, retries |-> Retries[c], outcome |-> "pending", from |-> None]
             q0 == Append(q, N + 1)
  <1>1. /\ entries \in Seq(EntryRecord) /\ N \in Nat /\ Entry = 1 .. N
        /\ q \in Seq(1 .. N) /\ sent \in Seq(1 .. N)
        /\ sending \subseteq 1 .. N /\ timers \subseteq 1 .. N
        /\ \A i, j \in DOMAIN q : q[i] = q[j] => i = j
    BY DEF QueueInv, Good, GoodTypes, Entry
  <1>2. new \in EntryRecord
    BY QueueAssumption DEF EntryRecord, Outcome, None
  <1>3. /\ entries' = Append(entries, new) /\ N < MaxEntries
        /\ UNCHANGED <<timers, inTurn>> /\ Owe(owed) /\ ~IsPending(c)
    BY DEF Enqueue
  <1>4. /\ entries' \in Seq(EntryRecord) /\ Len(entries') = N + 1
        /\ entries'[N + 1] = new
        /\ \A e \in 1 .. N : entries'[e] = entries[e]
        /\ 1 .. N + 1 = (1 .. N) \cup {N + 1} /\ N + 1 \notin 1 .. N
    BY <1>1, <1>2, <1>3
  <1>5. PICK s \in SortedByPriority(q0, entries') :
               Pump(s, inFlight, sending, pumpTimer)
    BY <1>4 DEF Enqueue
  <1>6. /\ q0 \in Seq(1 .. N + 1)
        /\ \A i, j \in DOMAIN q0 : q0[i] = q0[j] => i = j
        /\ \A e : Within(e, q0) <=> (e = N + 1 \/ Within(e, q))
    <2>a. q \in Seq(1 .. N) /\ N + 1 \notin 1 .. N BY <1>1, <1>4
    <2>b. \A i, j \in DOMAIN q : q[i] = q[j] => i = j BY <1>1
    <2> HIDE DEF N
    <2>1. /\ q0 \in Seq((1 .. N) \cup {N + 1})
          /\ \A i, j \in DOMAIN q0 : q0[i] = q0[j] => i = j
          /\ \A e : Within(e, q0) <=> (e = N + 1 \/ Within(e, q))
      BY <2>a, <2>b, AppendToQueue, ZenonT(30)
    <2> QED BY <1>4, <2>1
  <1>7. ASSUME NEW x \in 1 .. N + 1 PROVE Prio[entries'[x].cmd] \in Int
    <2>1. entries'[x] \in EntryRecord BY <1>4
    <2>2. entries'[x].cmd \in Cmd BY <2>1 DEF EntryRecord
    <2> QED BY <2>2, QueueAssumption
  <1> HIDE DEF q0, new, N
  <1>8. /\ s \in Seq(1 .. N + 1)
        /\ \A i, j \in DOMAIN s : s[i] = s[j] => i = j
        /\ \A e : Within(e, s) <=> (e = N + 1 \/ Within(e, q))
    <2> DEFINE ids == 1 .. N + 1
    <2>1. /\ q0 \in Seq(ids) /\ s \in SortedByPriority(q0, entries')
          /\ \A x \in ids : Prio[entries'[x].cmd] \in Int
          /\ \A i, j \in DOMAIN q0 : q0[i] = q0[j] => i = j
      BY <1>5, <1>6, <1>7
    <2> HIDE DEF ids
    <2>2. /\ s \in Seq(ids)
          /\ \A i, j \in DOMAIN s : s[i] = s[j] => i = j
          /\ \A e : Within(e, s) <=> Within(e, q0)
      BY <2>1, SortKeepsEntries
    <2> QED BY <1>6, <2>2 DEF ids
  <1>9. GoodTypes(entries', s, inFlight, sending, timers', sent)
    <2>1. N + 1 <= MaxEntries BY <1>1, <1>3, QueueAssumption
    <2>2. inFlight \in (1 .. N + 1) \cup {None}
      BY <1>4 DEF QueueInv, Good, GoodTypes, N
    <2>3. sent \in Seq(1 .. N + 1) BY <1>1, <1>4
    <2> QED BY <1>1, <1>3, <1>4, <1>8, <2>1, <2>2, <2>3 DEF GoodTypes
  <1>10. GoodPlaces(s, inFlight, sending, timers')
    <2>1. \A e : Within(e, s) => e \notin sending \cup timers'
      BY <1>1, <1>3, <1>4, <1>8, Waiting
    <2> QED BY <1>3, <2>1 DEF QueueInv, Good, GoodPlaces, Within
  <1>11. GoodBudget(entries', s, sent)
    <2> SUFFICES ASSUME NEW e \in 1 .. N + 1
                 PROVE  Cardinality(SendsOf(e, sent)) + entries'[e].retries
                          + (IF Within(e, s) THEN 1 ELSE 0)
                            <= 1 + Retries[entries'[e].cmd]
      BY <1>4 DEF GoodBudget
    <2>1. CASE e = N + 1
      <3>1. SendsOf(e, sent) = {} BY <1>1, <1>4, <2>1 DEF SendsOf
      <3>2. Cardinality(SendsOf(e, sent)) = 0 BY <3>1, FS_EmptySet
      <3>3. Within(e, s) BY <1>8, <2>1
      <3>4. entries'[e].retries = Retries[c] /\ entries'[e].cmd = c
            /\ Retries[c] \in Nat
        BY <1>4, <2>1, QueueAssumption DEF new
      <3> QED BY <3>2, <3>3, <3>4
    <2>2. CASE e # N + 1
      <3>1. e \in 1 .. N /\ entries'[e] = entries[e] BY <1>4, <2>2
      <3>2. Within(e, s) <=> Within(e, q) BY <1>8, <2>2
      <3> QED BY <3>1, <3>2 DEF QueueInv, Good, GoodBudget, N
    <2> QED BY <2>1, <2>2
  <1>12. ASSUME inTurn' PROVE GoodTurn(entries', s, inFlight, sending, timers')
    <2>1. GoodTurn(entries, q, inFlight, sending, timers)
      BY <1>3, <1>12 DEF QueueInv, Good
    <2>2. \A e \in Entry : entries[e].outcome = "pending" => entries[e].cmd # c
      <3>1. \A e \in Entry : entries[e].outcome = "pending" =>
                               (e = inFlight /\ inFlight # None) \/ Within(e, q)
        BY <1>1, <2>1 DEF GoodTurn, None, N
      <3> QED BY <1>3, <3>1 DEF IsPending, CmdOf, Within
    <2>3. new.outcome = "pending" /\ new.cmd = c BY DEF new
    <2>4. N + 1 # inFlight
      BY <1>4, <1>1, Waiting DEF None, N
    <2>5. \A e \in 1 .. N + 1 : entries'[e].outcome = "pending"
                                  <=> (e = inFlight \/ Within(e, s))
      BY <1>1, <1>4, <1>8, <2>1, <2>3, <2>4 DEF GoodTurn, N
    <2>6. \A e \in 1 .. N + 1 : entries'[e].outcome = "answered" => entries'[e].from = e
      BY <1>1, <1>4, <2>1, <2>3 DEF GoodTurn, N
    <2>7. \A e, f \in 1 .. N + 1 : (/\ entries'[e].outcome = "pending"
                                    /\ entries'[f].outcome = "pending"
                                    /\ entries'[e].cmd = entries'[f].cmd) => e = f
      BY <1>1, <1>4, <2>1, <2>2, <2>3 DEF GoodTurn, N
    <2> QED BY <1>3, <1>4, <2>1, <2>5, <2>6, <2>7 DEF GoodTurn
  <1>13. Good(entries', s, inFlight, sending, timers', sent, inTurn')
    BY <1>9, <1>10, <1>11, <1>12 DEF Good
  <1>14. inTurn' => \A e \in Entry : Within(e, s) => entries[e].outcome = "pending"
    BY <1>1, <1>3, <1>4, <1>8, Waiting
  <1>15. pumpTimer \in BOOLEAN /\ inTurn' \in BOOLEAN
    BY <1>3 DEF QueueInv, RestTypeOK
  <1> QED BY <1>3, <1>5, <1>13, <1>14, <1>15, Pumped

\* The transport resolved the send of an entry.
LEMMA SendSucceedsOK ==
  ASSUME QueueInv, NEW e, SendSucceeds(e)
  PROVE  QueueInv' /\ SendsUnsettled
  <1>0. e \in sending /\ e \in Entry /\ e \notin timers
    BY DEF SendSucceeds, QueueInv, Good, GoodTypes, GoodPlaces, Entry
  <1>1. CASE CmdOf(e) \in NoReply
    <2>1. /\ Settle(e, "sent", None) /\ Pump(q, None, sending \ {e}, pumpTimer)
          /\ Owe(owed) /\ UNCHANGED <<timers, inTurn>>
      BY <1>1 DEF SendSucceeds
    <2>2. None \in 0 .. MaxEntries /\ "sent" \in Outcome
      BY QueueAssumption DEF None, Outcome
    <2>3. Good(entries', q, None, sending \ {e}, timers', sent, inTurn')
      BY <1>0, <2>1, <2>2, SettleIsGood
    <2> QED BY <2>1, <2>3, Waiting, Pumped DEF QueueInv, RestTypeOK
  <1>2. CASE CmdOf(e) \notin NoReply
    <2>1. /\ timers' = timers \cup {e} /\ sending' = sending \ {e}
          /\ UNCHANGED <<entries, q, inFlight, spaced, pumpTimer, sent, owed, inTurn>>
      BY <1>2 DEF SendSucceeds, ArmTimer
    <2>2. Good(entries', q', inFlight', sending', timers', sent', inTurn')
      BY <1>0, <2>1
         DEF QueueInv, Good, GoodTypes, GoodPlaces, GoodBudget, GoodTurn, Entry
    <2> QED BY <2>1, <2>2
            DEF QueueInv, RestTypeOK, PumpIsArmed, SendsUnsettled
  <1> QED BY <1>1, <1>2

\* The transport rejected the send of an entry.
LEMMA SendFailsOK ==
  ASSUME QueueInv, NEW e, SendFails(e)
  PROVE  QueueInv' /\ SendsUnsettled
  <1>1. /\ e \in sending /\ e \notin timers
        /\ Settle(e, "sendFailed", None) /\ Pump(q, None, sending \ {e}, pumpTimer)
        /\ Owe(owed) /\ UNCHANGED <<timers, inTurn>>
    BY DEF SendFails, QueueInv, Good, GoodPlaces
  <1>2. None \in 0 .. MaxEntries /\ "sendFailed" \in Outcome
    BY QueueAssumption DEF None, Outcome
  <1>3. Good(entries', q, None, sending \ {e}, timers', sent, inTurn')
    BY <1>1, <1>2, SettleIsGood
  <1> QED BY <1>1, <1>3, Waiting, Pumped DEF QueueInv, RestTypeOK

\* No reply in time: retry, or settle.
LEMMA TimeoutOK ==
  ASSUME QueueInv, NEW e, Timeout(e)
  PROVE  QueueInv' /\ SendsUnsettled
  <1>1. /\ e \in timers /\ e \notin sending /\ timers' = timers \ {e}
        /\ Owe(owed) /\ UNCHANGED inTurn
    BY DEF Timeout, QueueInv, Good, GoodPlaces
  <1>2. CASE MayRetry(e)
    <2>1. UseRetry(e) /\ Pump(<<e>> \o q, None, sending, pumpTimer)
      BY <1>2 DEF Timeout
    <2>2. /\ Good(entries', <<e>> \o q, None, sending, timers', sent, inTurn')
          /\ inTurn => entries[e].outcome = "pending"
          /\ \A x : Within(x, <<e>> \o q) <=> (x = e \/ Within(x, q))
      BY <1>1, <1>2, <2>1, RetryIsGood
    <2> QED BY <1>1, <2>1, <2>2, Waiting, Pumped DEF QueueInv, RestTypeOK
  <1>3. CASE ~MayRetry(e)
    <2>1. Settle(e, "timedOut", None) /\ Pump(q, None, sending, pumpTimer)
      BY <1>3 DEF Timeout
    <2>2. None \in 0 .. MaxEntries /\ "timedOut" \in Outcome
      BY QueueAssumption DEF None, Outcome
    <2>3. Good(entries', q, None, sending, timers', sent, inTurn')
      BY <1>1, <2>1, <2>2, SettleIsGood
    <2> QED BY <1>1, <2>1, <2>3, Waiting, Pumped DEF QueueInv, RestTypeOK
  <1> QED BY <1>2, <1>3

\* The spacing timer runs the pump again.
LEMMA PumpTimerFiresOK ==
  ASSUME QueueInv, PumpTimerFires
  PROVE  QueueInv' /\ SendsUnsettled
  <1>1. /\ UNCHANGED <<entries, timers, inTurn>> /\ Owe(owed)
        /\ Pump(q, inFlight, sending, FALSE)
    BY DEF PumpTimerFires
  <1>2. Good(entries', q, inFlight, sending, timers', sent, inTurn')
    BY <1>1 DEF QueueInv
  <1> QED BY <1>1, <1>2, Waiting, Pumped DEF QueueInv, RestTypeOK

\* A reply comes in and is given to the entry in flight, if it fits.
LEMMA ReplyOK ==
  ASSUME QueueInv, NEW i \in DOMAIN sent, Reply(i)
  PROVE  QueueInv' /\ SendsUnsettled
  <1>1. i \in owed /\ inTurn' = (inTurn /\ sent[i] \in timers) BY DEF Reply
  <1>2. inTurn' \in BOOLEAN /\ (inTurn' => inTurn /\ sent[i] \in timers)
    BY <1>1 DEF QueueInv, RestTypeOK
  <1>3. CASE inFlight = None
    <2>1. /\ UNCHANGED <<entries, q, inFlight, spaced, pumpTimer, sending, timers, sent>>
          /\ owed' = owed \ {i}
      BY <1>3 DEF Reply
    <2> QED BY <1>2, <2>1
            DEF QueueInv, Good, RestTypeOK, PumpIsArmed, SendsUnsettled
  <1>4. CASE inFlight # None
    <2>1. /\ Settle(inFlight, "answered", sent[i]) /\ timers' = timers \ {inFlight}
          /\ Pump(q, None, sending, pumpTimer) /\ Owe(owed \ {i})
      BY <1>4 DEF Reply, ClearTimer
    <2>2. sent[i] \in 0 .. MaxEntries /\ "answered" \in Outcome
      <3>1. sent[i] \in 1 .. Len(entries) BY DEF QueueInv, Good, GoodTypes
      <3> QED BY <3>1, Waiting, QueueAssumption DEF Outcome
    <2>3. inFlight \in sending \cup timers BY <1>4, Waiting
    <2>4. ASSUME inTurn'
          PROVE  sent[i] = inFlight /\ inFlight \notin sending \cup timers'
      <3>1. sending \cup timers \subseteq {inFlight} /\ sending \cap timers = {}
        BY <1>2, <2>4 DEF QueueInv, Good, GoodTurn, GoodPlaces
      <3>2. sent[i] \in timers BY <1>2, <2>4
      <3> QED BY <2>1, <3>1, <3>2
    <2>5. Good(entries', q, None, sending, timers', sent, inTurn')
      BY <1>2, <2>1, <2>2, <2>3, <2>4, SettleIsGood
    <2> QED BY <1>2, <2>1, <2>5, Waiting, Pumped DEF QueueInv, RestTypeOK
  <1> QED BY <1>3, <1>4

-----------------------------------------------------------------------------
(* The theorems.                                                           *)

\* The queue starts empty.
LEMMA InitOK == Init => QueueInv
  <1> SUFFICES ASSUME Init PROVE QueueInv OBVIOUS
  <1>1. Len(entries) = 0 /\ Len(q) = 0 /\ DOMAIN q = {} /\ 1 .. Len(entries) = {}
    BY DEF Init
  <1>2. GoodTypes(entries, q, inFlight, sending, timers, sent)
    BY <1>1, QueueAssumption DEF Init, GoodTypes
  <1> QED BY <1>1, <1>2
          DEF Init, QueueInv, Good, GoodPlaces, GoodBudget, GoodTurn, RestTypeOK,
              PumpIsArmed, None

\* Every step keeps the invariant.
LEMMA NextOK ==
  ASSUME QueueInv, [Next]_vars
  PROVE  QueueInv' /\ SendsUnsettled
  <1>1. CASE UNCHANGED vars
    BY <1>1 DEF vars, QueueInv, Good, RestTypeOK, PumpIsArmed, SendsUnsettled
  <1>2. CASE SpacingPasses
    BY <1>2 DEF SpacingPasses, QueueInv, Good, RestTypeOK, PumpIsArmed, SendsUnsettled
  <1> QED BY <1>1, <1>2, EnqueueOK, SendSucceedsOK, SendFailsOK, TimeoutOK,
             PumpTimerFiresOK, ReplyOK
          DEF Next, SendSettles

\* The invariant holds in every behaviour.
LEMMA Invariance == SafeSpec => []QueueInv
  BY InitOK, NextOK, PTL DEF SafeSpec

\* Every variable stays in its type, and no entry waits twice.
THEOREM TypeCorrect == SafeSpec => []TypeOK
  <1>1. QueueInv => TypeOK
    BY DEF QueueInv, Good, GoodTypes, RestTypeOK, TypeOK, EntryRecord, Entry
  <1> QED BY Invariance, <1>1, PTL

\* _pump() is never lost: whatever settles, a queue that waits for nothing has
\* its timer.
THEOREM PumpStaysArmed == SafeSpec => []PumpIsArmed
  <1>1. QueueInv => PumpIsArmed BY DEF QueueInv
  <1> QED BY Invariance, <1>1, PTL

\* A command is sent once and at most as often again as enqueue() was told it
\* may be retried, in or out of turn.
THEOREM SendsStayBounded == SafeSpec => []SendsAreBounded
  <1>1. QueueInv => SendsAreBounded
    <2> SUFFICES ASSUME QueueInv, NEW e \in Entry
                 PROVE  Cardinality(SendsOf(e, sent)) <= 1 + Retries[CmdOf(e)]
      BY DEF SendsAreBounded, SendsOf
    <2>1. e \in 1 .. Len(entries) /\ entries[e] \in EntryRecord
          /\ sent \in Seq(1 .. Len(entries))
      BY DEF QueueInv, Good, GoodTypes, Entry
    <2>2. entries[e].retries \in Nat /\ Retries[entries[e].cmd] \in Nat
      BY <2>1, QueueAssumption DEF EntryRecord
    <2>3. Cardinality(SendsOf(e, sent)) \in Nat BY <2>1, SendsAreFinite
    <2>4. Cardinality(SendsOf(e, sent)) + entries[e].retries
            + (IF Within(e, q) THEN 1 ELSE 0) <= 1 + Retries[entries[e].cmd]
      BY <2>1 DEF QueueInv, Good, GoodBudget
    <2> QED BY <2>2, <2>3, <2>4 DEF CmdOf
  <1> QED BY Invariance, <1>1, PTL

\* While replies come in turn one command is on the air at a time, ...
THEOREM OneAtATime == SafeSpec => []OneOnAirInTurn
  <1>1. QueueInv => OneOnAirInTurn
    <2> SUFFICES ASSUME QueueInv, inTurn PROVE Cardinality(OnAir) <= 1
      BY DEF OneOnAirInTurn
    <2>1. OnAir \subseteq {inFlight}
      BY DEF OnAir, QueueInv, Good, GoodTurn, Entry, Within
    <2>2. IsFiniteSet({inFlight}) /\ Cardinality({inFlight}) = 1 BY FS_Singleton
    <2> QED BY <2>1, <2>2, FS_Subset
  <1> QED BY Invariance, <1>1, PTL

\* ... no two live entries stand for the same command, ...
THEOREM NoDuplicates == SafeSpec => []NoDuplicateLive
  <1>1. QueueInv => NoDuplicateLive
    BY DEF QueueInv, Good, GoodTurn, NoDuplicateLive, Entry, CmdOf
  <1> QED BY Invariance, <1>1, PTL

\* ... every answer goes to the request it answers, ...
THEOREM Attribution == SafeSpec => []AnswersAreAttributed
  <1>1. QueueInv => AnswersAreAttributed
    BY DEF QueueInv, Good, GoodTurn, AnswersAreAttributed, Entry
  <1> QED BY Invariance, <1>1, PTL

\* ... and what was settled is not sent again.
THEOREM SettledStaysSettled == SafeSpec => SettledIsNotResent
  <1>1. SendsUnsettled => (inTurn' => \A e \in Entry :
                             entries[e].outcome # "pending" =>
                               \A i \in DOMAIN sent' \ DOMAIN sent : sent'[i] # e)
    BY DEF SendsUnsettled
  <1>2. QueueInv /\ [Next]_vars =>
          [inTurn' => \A e \in Entry :
             entries[e].outcome # "pending" =>
               \A i \in DOMAIN sent' \ DOMAIN sent : sent'[i] # e]_vars
    BY <1>1, NextOK
  <1> QED BY Invariance, <1>2, PTL DEF SafeSpec, SettledIsNotResent
=============================================================================
