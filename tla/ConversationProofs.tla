------------------------- MODULE ConversationProofs -------------------------
(***************************************************************************)
(* Theorems about Conversation for every set of threads and turns and      *)
(* every MaxChunks: types, SeenIsStored, NoEventOutlivesThread, and that   *)
(* the trace implements ThreadLog.                                         *)
(*                                                                         *)
(* TurnOK is about one record, the rows of its turn and whether its thread *)
(* is live.  The first lemmas show how it survives what an action does to  *)
(* a record; OneTurn lifts them to the state.                              *)
(***************************************************************************)
EXTENDS Conversation, Integers, TLAPS

-----------------------------------------------------------------------------
(* Lemmas about records *)

\* The fields of a record of type Turn.
LEMMA TurnFields ==
    ASSUME NEW r \in Turn
    PROVE  /\ r.pc \in {"new"} \cup Steps \cup Ends
           /\ r.kind \in Routes \cup {"none"}
           /\ r.thread \in Threads \cup {None}
           /\ r.seq \in Nat
           /\ r.buf \in Seq(Event)
           /\ Len(r.buf) \in Nat
           /\ \A i \in 1 .. Len(r.buf) : r.buf[i] \in Event
           /\ r.seen \in Nat
           /\ r.local \in Seq(Message)
           /\ r.answer \in Message \cup {NoMessage}
           /\ r.target \in Turns \cup {None}
           /\ r.applied \in Turns \cup {None}
BY DEF Turn

\* The fields of an event.
LEMMA EventFields ==
    ASSUME NEW e \in Event
    PROVE  /\ e.thread \in Threads
           /\ e.turn \in Turns
           /\ e.seq \in Nat
           /\ e.type \in EventTypes
           /\ e.says \in Message \cup {NoMessage}
BY DEF Event

\* What no step of a turn changes.
SameRequest(r, n) == n.kind = r.kind /\ n.thread = r.thread /\ n.target = r.target

\* A record differs from another only in what TurnOK does not look at, but for
\* its step.
SameTrace(r, n) ==
    SameRequest(r, n) /\ n.seq = r.seq /\ n.buf = r.buf /\ n.seen = r.seen

\* A turn has at least one leading event, and the same number all along.
LEMMA LeadsNat ==
    ASSUME NEW r \in Turn, StepOK(r)
    PROVE  Leads(r) \in Nat \ {0}
BY ConversationAssumption DEF StepOK, Leads

LEMMA SameLeads ==
    ASSUME NEW r, NEW n, SameRequest(r, n)
    PROVE  Leads(n) = Leads(r)
BY DEF SameRequest, Leads

\* A turn that has not begun has no rows and no events.
LEMMA NewHasNoRows ==
    ASSUME NEW r \in Turn, NEW u \in Turns, NEW s \in SUBSET Event,
           NEW live \in BOOLEAN, TurnOK(r, u, s, live), r.pc = "new"
    PROVE  s = {}
<1>1. r.seq = 0
  BY DEF TurnOK, StepOK, Early
<1>2. ASSUME NEW e \in s
      PROVE  e.seq < 0 /\ e.seq \in Nat
  BY <1>1, EventFields DEF TurnOK, RowsOK, EventOK
<1>3. QED
  BY <1>2

\* A turn begins.
LEMMA StartedOK ==
    ASSUME NEW n \in Turn, NEW u \in Turns, NEW live \in BOOLEAN,
           n.pc \in {"route", "get"}, n.seq = 0, n.buf = <<>>, n.seen = 0,
           n.thread \in Threads, n.kind = "resume" => n.target \in Turns
    PROVE  TurnOK(n, u, {}, live)
<1>1. Len(n.buf) = 0
  BY TurnFields
<1>2. Handed(n) = 0
  <2>1. Handed(n) = n.seq - Len(n.buf)
    BY DEF Handed
  <2>2. n.seq - Len(n.buf) = 0 - 0
    BY <1>1, Zenon
  <2>3. QED
    BY <2>1, <2>2
<1>3. StepOK(n)
  BY DEF StepOK, RunSteps, StoreSteps
<1>4. BufferOK(n, u)
  BY <1>1 DEF BufferOK
<1>5. RowsOK(n, u, {}, live)
  BY <1>2 DEF RowsOK
<1>6. QED
  BY <1>3, <1>4, <1>5 DEF TurnOK

\* A turn that has ended, in whatever way, keeps its rows.
Ended(r, how) ==
    [r EXCEPT !.pc = how, !.buf = <<>>, !.local = <<>>, !.answer = NoMessage]

LEMMA EndedType ==
    ASSUME NEW r \in Turn, NEW how \in Ends
    PROVE  Ended(r, how) \in Turn
<1>1. <<>> \in Seq(Event) /\ <<>> \in Seq(Message)
  OBVIOUS
<1>2. how \in {"new"} \cup Steps \cup Ends
  OBVIOUS
<1>3. QED
  BY <1>1, <1>2 DEF Ended, Turn

\* The step at which a turn ends does not matter.
LEMMA EndedAfter ==
    ASSUME NEW r \in Turn, NEW step, NEW how
    PROVE  Ended([r EXCEPT !.pc = step], how) = Ended(r, how)
BY DEF Ended, Turn

\* Ending keeps TurnOK.
LEMMA EndedOK ==
    ASSUME NEW r \in Turn, NEW u \in Turns, NEW s \in SUBSET Event,
           NEW live \in BOOLEAN, NEW how \in Ends,
           TurnOK(r, u, s, live), r.pc # "new"
    PROVE  TurnOK(Ended(r, how), u, s, live)
<1> DEFINE n == Ended(r, how)
<1>1. /\ n.pc = how /\ n.seq = r.seq /\ n.buf = <<>> /\ n.thread = r.thread
      /\ n.seen = r.seen /\ n.kind = r.kind /\ n.target = r.target
  BY DEF Ended, Turn
<1>2. /\ how \in Late /\ how \notin Steps /\ how \notin Early
      /\ how \notin {"deliver", "new", "prepare", "decide"}
  BY DEF Late, Ends, Steps, Early, StoreSteps, RunSteps
<1>3. Len(n.buf) = 0 /\ Handed(n) = r.seq
  BY <1>1, TurnFields DEF Handed
<1>9. Leads(n) = Leads(r)
  BY <1>1 DEF Leads
<1> HIDE DEF n
<1>4. StepOK(n)
  BY <1>1, <1>2 DEF TurnOK, StepOK, RunSteps, StoreSteps, Ends
<1>5. BufferOK(n, u)
  BY <1>1, <1>3, TurnFields DEF BufferOK
<1>6. ASSUME NEW e \in s
      PROVE  EventOK(e, u, n) /\ e.seq < Handed(n)
  BY <1>1, <1>2, <1>3, <1>9 DEF TurnOK, RowsOK, EventOK
<1>7. RowsOK(n, u, s, live)
  BY <1>1, <1>2, <1>6 DEF TurnOK, RowsOK
<1>8. QED
  BY <1>4, <1>5, <1>7 DEF TurnOK, n

\* Going on to a step of the same stage keeps TurnOK.
LEMMA MovedOK ==
    ASSUME NEW r \in Turn, NEW u \in Turns, NEW s \in SUBSET Event,
           NEW live \in BOOLEAN, NEW n \in Turn,
           TurnOK(r, u, s, live), SameTrace(r, n),
           r.pc \in Steps \ {"deliver"}, n.pc \in Steps \ {"deliver"},
           n.pc \in Early => r.pc \in Early,
           n.pc \in RunSteps => r.pc \in RunSteps,
           n.pc \in StoreSteps <=> r.pc \in StoreSteps,
           n.pc = "decide" => r.pc \in Early,
           n.pc \in {"prepare", "decide"} => n.kind = "resume"
    PROVE  TurnOK(n, u, s, live)
<1>8. Leads(n) = Leads(r) /\ Leads(r) \in Nat \ {0}
  BY SameLeads, LeadsNat DEF SameTrace, TurnOK
<1>1. Handed(n) = Handed(r) /\ n.pc # "new" /\ r.pc # "new"
  BY DEF Handed, SameTrace, Steps, RunSteps, StoreSteps
<1>2. n.pc \in Late <=> r.pc \in Late
  BY DEF Late, Steps, StoreSteps, RunSteps, Ends
<1>3. \A e : EventOK(e, u, r) => EventOK(e, u, n)
  BY <1>2, <1>8 DEF EventOK, SameTrace, SameRequest
<1>4. StepOK(n)
  BY <1>1, <1>8 DEF TurnOK, StepOK, SameTrace, SameRequest
<1>5. BufferOK(n, u)
  BY <1>1, <1>3 DEF TurnOK, BufferOK, SameTrace
<1>6. RowsOK(n, u, s, live)
  BY <1>1, <1>3 DEF TurnOK, RowsOK, SameTrace
<1>7. QED
  BY <1>4, <1>5, <1>6 DEF TurnOK

\* A turn makes an event: the leading ones first, the answer last.
LEMMA EmittedOK ==
    ASSUME NEW r \in Turn, NEW u \in Turns, NEW s \in SUBSET Event,
           NEW live \in BOOLEAN, NEW n \in Turn, NEW e \in Event,
           TurnOK(r, u, s, live), SameRequest(r, n),
           r.pc \in {"runner", "decide", "run", "status"},
           e.turn = u, e.thread = r.thread, e.seq = r.seq,
           e.type \in Leading <=> r.pc \in {"runner", "decide"},
           e.type \in Leading =>
             e.type = IF r.kind = "resume" THEN "hitl_decision" ELSE "human_message",
           e.type = "ai_message" <=> r.pc = "status",
           n.buf = Append(r.buf, e), n.seq = r.seq + 1, n.seen = r.seen,
           n.pc \in {"check", "load", "run", "decide"},
           e.type = "ai_message" => n.pc = "check",
           n.pc = "decide" => r.pc = "decide" /\ n.seq < Leads(r),
           n.pc # "decide" => Leads(r) <= n.seq
    PROVE  TurnOK(n, u, s, live)
<1>11. Leads(n) = Leads(r) /\ Leads(r) \in Nat \ {0}
  BY SameLeads, LeadsNat DEF TurnOK
<1>1. /\ Len(n.buf) = Len(r.buf) + 1
      /\ \A i \in 1 .. Len(r.buf) : n.buf[i] = r.buf[i]
      /\ n.buf[Len(r.buf) + 1] = e
  BY TurnFields
<1>2. Handed(n) = Handed(r) /\ Handed(r) + Len(r.buf) = r.seq /\ Handed(r) \in Int
  <2>1. Len(r.buf) \in Nat /\ r.seq \in Nat
    BY TurnFields
  <2>2. Handed(n) = (r.seq + 1) - (Len(r.buf) + 1)
    BY <1>1 DEF Handed
  <2>3. QED
    BY <2>1, <2>2 DEF Handed
<1>3. r.pc \notin Late /\ n.pc \notin Early \cup {"new", "deliver"}
      /\ r.pc \in Steps \ {"deliver"} /\ n.pc \in Steps \ {"deliver"}
      /\ "check" \in Late
  BY DEF Late, Early, StoreSteps, Ends, Steps, RunSteps
<1>4. ASSUME NEW x \in Event, EventOK(x, u, r)
      PROVE  EventOK(x, u, n)
  BY <1>3, <1>4, <1>11, TurnFields, EventFields DEF EventOK, SameRequest
<1>5. r.seq < Leads(r) <=> e.type \in Leading
  BY <1>11, TurnFields DEF TurnOK, StepOK, Early, RunSteps
<1>6. EventOK(e, u, n)
  <2>1. r.seq \in Nat /\ n.seq = r.seq + 1 /\ n.thread = r.thread
    BY TurnFields DEF SameRequest
  <2>2. e.type = "ai_message" => n.pc \in Late
    BY <1>3
  <2>3. QED
    BY <1>5, <1>11, <2>1, <2>2 DEF EventOK, SameRequest
<1>7. StepOK(n)
  <2>1. /\ n.buf # <<>> /\ n.seq = r.seq + 1 /\ n.pc # "new" /\ n.thread = r.thread
        /\ n.kind = r.kind /\ n.target = r.target
    BY <1>1, TurnFields DEF SameRequest
  <2>2. n.pc \notin Early /\ (n.pc # "decide" => Leads(n) <= n.seq)
    BY <1>3, <1>11
  <2>3. n.pc = "decide" => n.seq < Leads(n) /\ r.pc = "decide"
    BY <1>11
  <2>4. "decide" \notin RunSteps \cup StoreSteps \cup {"deliver"} /\ "prepare" \in Early
    BY DEF RunSteps, StoreSteps, Early
  <2>5. /\ r.thread \in Threads /\ (r.kind = "resume" => r.target \in Turns)
        /\ r.pc = "decide" => r.kind = "resume"
    BY <1>3 DEF TurnOK, StepOK
  <2>6. QED
    BY <2>1, <2>2, <2>3, <2>4, <2>5 DEF StepOK
<1>8. BufferOK(n, u)
  <2>1. Len(n.buf) <= n.seq
    BY <1>1, TurnFields DEF TurnOK, BufferOK
  <2>2. ASSUME NEW i \in 1 .. Len(n.buf)
        PROVE  EventOK(n.buf[i], u, n) /\ n.buf[i].seq + 1 = Handed(n) + i
    <3>1. CASE i = Len(r.buf) + 1
      <4>1. n.buf[i] = e /\ e.seq = Handed(r) + Len(r.buf) /\ Len(r.buf) \in Nat
        BY <3>1, <1>1, <1>2, TurnFields
      <4>2. QED
        BY <4>1, <3>1, <1>2, <1>6
    <3>2. CASE i # Len(r.buf) + 1
      <4>1. i \in 1 .. Len(r.buf) /\ n.buf[i] = r.buf[i] /\ r.buf[i] \in Event
        BY <3>2, <1>1, TurnFields
      <4>2. QED
        BY <4>1, <1>2, <1>4 DEF TurnOK, BufferOK
    <3>3. QED
      BY <3>1, <3>2
  <2>3. QED
    BY <2>1, <2>2 DEF BufferOK
<1>9. RowsOK(n, u, s, live)
  BY <1>2, <1>3, <1>4 DEF TurnOK, RowsOK
<1>10. QED
  BY <1>7, <1>8, <1>9 DEF TurnOK

\* The events of the buffer are stored: the rows go on where they stopped.
LEMMA InsertedOK ==
    ASSUME NEW r \in Turn, NEW u \in Turns, NEW s \in SUBSET Event, NEW n \in Turn,
           TurnOK(r, u, s, TRUE), SameTrace(r, n), r.pc = "insert", n.pc = "deliver"
    PROVE  TurnOK(n, u, s \cup {r.buf[i] : i \in 1 .. Len(r.buf)}, TRUE)
<1> DEFINE added == {r.buf[i] : i \in 1 .. Len(r.buf)}
           all == s \cup added
<1>1. Handed(n) = Handed(r) /\ Handed(r) + Len(r.buf) = r.seq /\ Handed(r) \in Nat
  BY TurnFields DEF Handed, SameTrace, TurnOK, BufferOK
<1>2. r.pc \in Steps \ {"new", "deliver"} /\ n.pc \in Late
  BY DEF Late, Steps, StoreSteps
<1>14. Leads(n) = Leads(r) /\ Leads(r) \in Nat \ {0}
  BY SameLeads, LeadsNat DEF SameTrace, TurnOK
<1>3. \A e : EventOK(e, u, r) => EventOK(e, u, n)
  BY <1>2, <1>14 DEF EventOK, SameTrace, SameRequest
<1>4. \A i \in 1 .. Len(r.buf) :
         r.buf[i] \in Event /\ EventOK(r.buf[i], u, r) /\ r.buf[i].seq + 1 = Handed(r) + i
  BY TurnFields DEF TurnOK, BufferOK
<1>5. \A e \in s : EventOK(e, u, r) /\ e.seq < Handed(r)
  BY <1>2 DEF TurnOK, RowsOK
<1>6. \A i \in 0 .. Handed(r) - 1 : HasRow(s, i)
  BY <1>2 DEF TurnOK, RowsOK
<1>7. ASSUME NEW i \in 0 .. r.seq - 1
      PROVE  HasRow(all, i)
  <2>1. CASE i < Handed(r)
    <3>1. HasRow(s, i)
      BY <1>1, <1>6, <2>1
    <3>2. QED
      BY <3>1 DEF HasRow
  <2>2. CASE i >= Handed(r)
    <3> DEFINE k == i - Handed(r) + 1
    <3>1. k \in 1 .. Len(r.buf)
      BY <1>1, <2>2, TurnFields
    <3>2. r.buf[k] \in Event /\ r.buf[k].seq + 1 = Handed(r) + k
      BY <1>4, <3>1
    <3>3. r.buf[k].seq = i
      <4>1. r.buf[k].seq \in Nat /\ Handed(r) \in Nat /\ i \in Int
        BY <3>2, <1>1, EventFields
      <4>2. QED
        BY <3>2, <4>1
    <3>4. QED
      BY <3>1, <3>3 DEF HasRow
  <2>3. QED
    BY <2>1, <2>2, <1>1
<1>8. ASSUME NEW d \in all, NEW e \in all, d.seq = e.seq
      PROVE  d = e
  <2>1. CASE d \in s /\ e \in s
    BY <2>1, <1>8 DEF TurnOK, RowsOK
  <2>2. CASE d \in added /\ e \in added
    BY <2>2, <1>4, <1>1, <1>8, TurnFields, EventFields
  <2>3. ASSUME NEW x \in s, NEW y \in added
        PROVE  x.seq # y.seq
    BY <2>3, <1>4, <1>5, <1>1, EventFields
  <2>4. QED
    BY <2>1, <2>2, <2>3, <1>8
<1>9. ASSUME NEW e \in all
      PROVE  /\ EventOK(e, u, n)
             /\ \A i \in 0 .. e.seq : HasRow(all, i)
  <2>1. e \in Event /\ EventOK(e, u, r)
    BY <1>4, <1>5
  <2>2. e.seq < r.seq /\ e.seq \in Nat
    BY <2>1, EventFields DEF EventOK
  <2>3. QED
    BY <2>1, <2>2, <1>3, <1>7, TurnFields
<1>10. StepOK(n)
  BY <1>14 DEF TurnOK, StepOK, SameTrace, SameRequest, Early, RunSteps, StoreSteps
<1>11. BufferOK(n, u)
  BY <1>1, <1>3 DEF TurnOK, BufferOK, SameTrace
<1>12. RowsOK(n, u, all, TRUE)
  <2>1. \A i \in 0 .. n.seen - 1 : HasRow(all, i)
    <3>1. \A i \in 0 .. r.seen - 1 : HasRow(s, i)
      BY <1>2 DEF TurnOK, RowsOK
    <3>2. QED
      BY <3>1 DEF HasRow, SameTrace
  <2>2. \A i \in 0 .. Handed(n) - 1 : HasRow(all, i)
    BY <1>1, <1>6 DEF HasRow
  <2>3. \A i \in 1 .. Len(n.buf) : n.buf[i] \in all
    BY DEF SameTrace
  <2> HIDE DEF all
  <2>4. QED
    BY <2>1, <2>2, <2>3, <1>8, <1>9 DEF RowsOK
<1>13. QED
  BY <1>10, <1>11, <1>12 DEF TurnOK

\* The client has received the events: the turn goes on after the last of them,
\* and ends when it is the answer.
LEMMA DeliveredOK ==
    ASSUME NEW r \in Turn, NEW u \in Turns, NEW s \in SUBSET Event,
           NEW live \in BOOLEAN, NEW n \in Turn,
           TurnOK(r, u, s, live), SameRequest(r, n), s # {} => live,
           r.pc = "deliver",
           n.pc = AfterEvent(r, r.buf[Len(r.buf)].seq, r.buf[Len(r.buf)].type),
           n.buf = <<>>, n.seq = r.seq, n.seen = r.seq
    PROVE  TurnOK(n, u, s, live)
<1> DEFINE last == r.buf[Len(r.buf)]
<1>1. /\ r.buf # <<>> /\ Len(r.buf) \in 1 .. r.seq /\ last \in Event
      /\ Handed(r) + Len(r.buf) = r.seq
  BY TurnFields DEF TurnOK, StepOK, BufferOK, Handed
<1>2. last.seq + 1 = r.seq /\ EventOK(last, u, r)
  BY <1>1, TurnFields, EventFields DEF TurnOK, BufferOK
<1>3. last.type \in EventTypes /\ r.seq \in Nat \ {0}
  BY <1>1, EventFields, TurnFields
<1>14. /\ Leads(n) = Leads(r) /\ Leads(r) \in Nat \ {0}
       /\ Leads(r) <= r.seq
  BY SameLeads, LeadsNat DEF TurnOK, StepOK
<1>4. n.pc \in {"load", "run", "done"} /\ (last.type = "ai_message" => n.pc = "done")
  BY <1>2, <1>3, <1>14 DEF AfterEvent, EventTypes, Leading, Intermediate
<1>5. Len(n.buf) = 0 /\ Handed(n) = r.seq
  BY TurnFields DEF Handed
<1>6. n.pc \notin Early \cup StoreSteps \cup {"deliver", "new", "prepare", "decide"}
      /\ "done" \in Late
      /\ r.pc \in Steps /\ r.pc \in Late
  BY <1>4 DEF Early, StoreSteps, Late, Ends, Steps, RunSteps
<1>7. live => last \in s
  BY <1>1, TurnFields DEF TurnOK, RowsOK
<1>8. ASSUME NEW e \in s
      PROVE  EventOK(e, u, n) /\ e.seq < Handed(n)
  <2>1. EventOK(e, u, r) /\ last \in s /\ e \in Event
    BY <1>7 DEF TurnOK, RowsOK
  <2>2. e.type = "ai_message" => e = last
    <3>1. SUFFICES ASSUME e.type = "ai_message" PROVE e = last
      OBVIOUS
    <3>2. e.seq = last.seq
      BY <3>1, <2>1, <1>2, <1>1, EventFields DEF EventOK
    <3>3. QED
      BY <3>2, <2>1 DEF TurnOK, RowsOK
  <2>3. QED
    BY <2>1, <2>2, <1>4, <1>5, <1>6, <1>14 DEF EventOK, SameRequest
<1>9. live => \A i \in 0 .. r.seq - 1 : HasRow(s, i)
  <2>1. SUFFICES ASSUME live PROVE \A i \in 0 .. r.seq - 1 : HasRow(s, i)
    OBVIOUS
  <2>2. \A i \in 0 .. last.seq : HasRow(s, i)
    BY <2>1, <1>7 DEF TurnOK, RowsOK
  <2>3. last.seq = r.seq - 1
    BY <1>1, <1>2, <1>3, EventFields
  <2>4. QED
    BY <2>2, <2>3
<1>10. StepOK(n)
  BY <1>3, <1>6, <1>14, TurnFields DEF TurnOK, StepOK, SameRequest
<1>11. BufferOK(n, u)
  BY <1>5, TurnFields DEF BufferOK
<1>12. RowsOK(n, u, s, live)
  BY <1>5, <1>6, <1>8, <1>9 DEF TurnOK, RowsOK
<1>13. QED
  BY <1>10, <1>11, <1>12 DEF TurnOK

\* The thread is deleted: the rows of the turn are gone, and nothing is promised.
LEMMA ForgottenOK ==
    ASSUME NEW r \in Turn, NEW u \in Turns, NEW s \in SUBSET Event,
           NEW live \in BOOLEAN, TurnOK(r, u, s, live)
    PROVE  TurnOK(r, u, {}, FALSE)
BY DEF TurnOK, RowsOK

-----------------------------------------------------------------------------
(* From records to states *)

\* The promise of the trace holds for turn u: it has begun in a live thread.
Bound(u) == turn[u].pc # "new" /\ Live(turn[u])

\* What Inv says of one turn.
LEMMA InvTurn ==
    ASSUME Inv, NEW u \in Turns
    PROVE  /\ turn[u] \in Turn
           /\ TurnRows(u) \in SUBSET Event
           /\ Bound(u) \in BOOLEAN
           /\ TurnOK(turn[u], u, TurnRows(u), Bound(u))
           /\ TurnRows(u) # {} => Bound(u)
<1>1. turn[u] \in Turn /\ TurnRows(u) \in SUBSET Event /\ Bound(u) \in BOOLEAN
  BY DEF Inv, TypeOK, TurnRows, Bound
<1>2. TurnOK(turn[u], u, TurnRows(u), Bound(u))
  BY DEF Inv, Bound
<1>3. ASSUME NEW e \in TurnRows(u)
      PROVE  Bound(u)
  <2>1. turn[u].pc # "new"
    BY <1>1, <1>2, <1>3, NewHasNoRows
  <2>2. e.thread = turn[u].thread
    BY <1>2, <1>3 DEF TurnOK, RowsOK, EventOK
  <2>3. thread[e.thread] = "live"
    BY <1>3 DEF Inv, NoEventOutlivesThread, TurnRows
  <2>4. QED
    BY <2>1, <2>2, <2>3 DEF Bound, Live
<1>4. QED
  BY <1>1, <1>2, <1>3

\* A step of turn u that stores events of its own, if any, in a live thread.
LEMMA OneTurn ==
    ASSUME Inv, NEW u \in Turns, NEW r \in Turn, NEW added \in SUBSET Event,
           turn' = [turn EXCEPT ![u] = r],
           rows' = rows \cup added,
           \A e \in added : e.turn = u /\ thread[e.thread] = "live",
           UNCHANGED thread, memory' \in [Threads -> Memory], clock' \in Nat,
           r.pc # "new", thread[r.thread] # "none",
           TurnOK(r, u, TurnRows(u) \cup added, thread[r.thread] = "live")
    PROVE  Inv'
<1>1. TypeOK'
  BY DEF Inv, TypeOK
<1>2. NoEventOutlivesThread'
  BY DEF Inv, NoEventOutlivesThread
<1>3. ASSUME NEW v \in Turns
      PROVE  /\ turn'[v].pc # "new" => thread'[turn'[v].thread] # "none"
             /\ TurnOK(turn'[v], v, TurnRows(v)', turn'[v].pc # "new" /\ Live(turn[v])')
  <2>1. CASE v = u
    <3>1. turn'[u] = r
      BY DEF Inv, TypeOK
    <3>2. TurnRows(u)' = TurnRows(u) \cup added
      BY DEF TurnRows
    <3>3. (turn'[u].pc # "new" /\ Live(turn[u])') <=> thread[r.thread] = "live"
      BY <3>1 DEF Live
    <3>4. QED
      BY <2>1, <3>1, <3>2, <3>3
  <2>2. CASE v # u
    <3>1. turn'[v] = turn[v]
      BY <2>2 DEF Inv, TypeOK
    <3>2. TurnRows(v)' = TurnRows(v)
      BY <2>2 DEF TurnRows
    <3>3. Live(turn[v])' <=> Live(turn[v])
      BY <3>1 DEF Live
    <3>4. QED
      BY <3>1, <3>2, <3>3 DEF Inv
  <2>3. QED
    BY <2>1, <2>2
<1>4. QED
  BY <1>1, <1>2, <1>3 DEF Inv

\* The same for a step that stores nothing and does not change the thread.
LEMMA OneRecord ==
    ASSUME Inv, NEW u \in Turns, NEW n \in Turn, turn[u].pc # "new",
           turn' = [turn EXCEPT ![u] = n],
           UNCHANGED <<thread, rows>>, memory' \in [Threads -> Memory], clock' \in Nat,
           n.pc # "new", n.thread = turn[u].thread,
           TurnOK(n, u, TurnRows(u), Bound(u))
    PROVE  Inv'
<1>1. Bound(u) = (thread[n.thread] = "live")
  BY DEF Bound, Live
<1>2. thread[n.thread] # "none"
  BY DEF Inv
<1>3. TurnRows(u) \cup {} = TurnRows(u) /\ rows' = rows \cup {}
  OBVIOUS
<1>4. TurnOK(n, u, TurnRows(u) \cup {}, thread[n.thread] = "live")
  BY <1>1, <1>3
<1>5. \A e \in {} : e.turn = u /\ thread[e.thread] = "live"
  OBVIOUS
<1>6. UNCHANGED thread /\ {} \in SUBSET Event
  OBVIOUS
<1>7. QED
  BY <1>2, <1>3, <1>4, <1>5, <1>6, OneTurn

\* A turn ends and nothing else happens.
LEMMA EndInv ==
    ASSUME Inv, NEW u \in Turns, NEW how \in Ends, Active(u), End(u, how),
           UNCHANGED <<thread, rows, memory, clock>>
    PROVE  Inv'
<1> DEFINE n == Ended(turn[u], how)
<1>1. turn' = [turn EXCEPT ![u] = n]
  BY DEF End, Ended
<1>2. turn[u].pc # "new" /\ turn[u] \in Turn
  BY InvTurn DEF Active, Steps, StoreSteps, RunSteps
<1>3. n \in Turn /\ TurnOK(n, u, TurnRows(u), Bound(u))
  BY <1>2, InvTurn, EndedType, EndedOK
<1>4. n.pc # "new" /\ n.thread = turn[u].thread
  BY <1>2 DEF Ended, Turn, Ends
<1>5. memory' \in [Threads -> Memory] /\ clock' \in Nat
  BY DEF Inv, TypeOK
<1> HIDE DEF n
<1>6. QED
  BY <1>1, <1>2, <1>3, <1>4, <1>5, OneRecord

\* A turn goes on to a step of the same stage and nothing else happens.
LEMMA GotoInv ==
    ASSUME Inv, NEW u \in Turns, NEW step \in Steps \ {"deliver"}, Goto(u, step),
           turn[u].pc \in Steps \ {"deliver"},
           step \in Early => turn[u].pc \in Early,
           step \in RunSteps => turn[u].pc \in RunSteps,
           step \in StoreSteps <=> turn[u].pc \in StoreSteps,
           step = "decide" => turn[u].pc \in Early,
           step \in {"prepare", "decide"} => turn[u].kind = "resume",
           UNCHANGED <<thread, rows>>, memory' \in [Threads -> Memory], UNCHANGED clock
    PROVE  Inv'
<1> DEFINE n == [turn[u] EXCEPT !.pc = step]
<1>1. turn' = [turn EXCEPT ![u] = n]
  BY DEF Goto
<1>2. turn[u].pc # "new" /\ turn[u] \in Turn
  BY InvTurn DEF Steps, StoreSteps, RunSteps
<1>3. n \in Turn /\ n.pc = step /\ SameTrace(turn[u], n)
  BY <1>2 DEF Turn, SameTrace, SameRequest
<1>4. n.pc # "new" /\ n.thread = turn[u].thread
  BY <1>3 DEF SameTrace, SameRequest, Steps, StoreSteps, RunSteps
<1> HIDE DEF n
<1>5. TurnOK(n, u, TurnRows(u), Bound(u))
  BY <1>3, InvTurn, MovedOK DEF SameTrace, SameRequest
<1>6. clock' \in Nat
  BY DEF Inv, TypeOK
<1>7. QED
  BY <1>1, <1>2, <1>3, <1>4, <1>5, <1>6, OneRecord

\* A turn makes an event, whatever else the step does to its messages.
LEMMA EmitInv ==
    ASSUME Inv, NEW u \in Turns, NEW r \in Turn, NEW type \in EventTypes,
           NEW says \in Message \cup {NoMessage}, NEW awaiting \in BOOLEAN,
           Emit(u, r, type, says, awaiting), SameTrace(turn[u], r),
           turn[u].pc \in {"runner", "decide", "run", "status"},
           turn[u].pc = "runner" => r.kind # "resume",
           type \in Leading <=> turn[u].pc \in {"runner", "decide"},
           type \in Leading =>
             type = IF r.kind = "resume" THEN "hitl_decision" ELSE "human_message",
           type = "ai_message" <=> turn[u].pc = "status",
           UNCHANGED <<thread, rows, clock>>, memory' \in [Threads -> Memory]
    PROVE  Inv'
<1> DEFINE e == [thread |-> r.thread, turn |-> u, seq |-> r.seq, type |-> type,
                 time |-> clock, says |-> says, awaiting |-> awaiting]
           next == IF Streamed(u) \/ type = "ai_message"
                   THEN "check" ELSE AfterEvent(r, r.seq, type)
           n == [r EXCEPT !.buf = Append(@, e), !.seq = @ + 1, !.pc = next]
<1>1. turn' = [turn EXCEPT ![u] = n]
  BY DEF Emit
<1>2. turn[u].pc # "new" /\ turn[u] \in Turn /\ clock \in Nat
  BY InvTurn DEF Inv, TypeOK
<1>3. r.thread \in Threads
  BY <1>2, InvTurn DEF SameTrace, SameRequest, TurnOK, StepOK
<1>4. /\ e \in Event /\ e.turn = u /\ e.thread = turn[u].thread /\ e.seq = turn[u].seq
      /\ e.type = type
  BY <1>2, <1>3, TurnFields DEF Event, SameTrace, SameRequest
<1>5. /\ next \in {"check", "load", "run", "decide"}
      /\ type = "ai_message" => next = "check"
  BY DEF AfterEvent, EventTypes, Leading, Intermediate
<1>11. /\ Leads(r) = Leads(turn[u]) /\ Leads(r) \in Nat \ {0} /\ StepOK(turn[u])
       /\ r.kind = turn[u].kind /\ r.seq = turn[u].seq /\ r.seq \in Nat
  BY <1>2, InvTurn, SameLeads, LeadsNat, TurnFields DEF SameTrace, SameRequest, TurnOK
<1>12. /\ next = "decide" => turn[u].pc = "decide" /\ r.seq + 1 < Leads(r)
       /\ next # "decide" => Leads(r) <= r.seq + 1
  <2>1. CASE turn[u].pc \in {"run", "status"}
    <3>1. Leads(r) <= r.seq
      BY <1>11, <2>1 DEF StepOK, RunSteps
    <3>2. type \notin Leading
      BY <2>1
    <3>3. QED
      BY <3>1, <3>2, <1>11 DEF AfterEvent, Leading, Intermediate, EventTypes
  <2>2. CASE turn[u].pc = "runner"
    <3>1. r.seq = 0 /\ Leads(r) = 1
      BY <1>11, <2>2 DEF StepOK, Early, Leads
    <3>2. type \in Leading
      BY <2>2
    <3>3. QED
      BY <3>1, <3>2 DEF AfterEvent
  <2>3. CASE turn[u].pc = "decide"
    <3>1. ~Streamed(u)
      BY <1>11, <2>3 DEF StepOK, Streamed
    <3>2. type \in Leading /\ type \notin Intermediate /\ type # "ai_message"
      BY <2>3 DEF Leading, Intermediate
    <3>3. next = IF r.seq + 1 < Leads(r) THEN "decide" ELSE "load"
      BY <3>1, <3>2, Zenon DEF AfterEvent
    <3> HIDE DEF next
    <3>4. CASE r.seq + 1 < Leads(r)
      BY <3>3, <3>4, <2>3
    <3>5. CASE ~(r.seq + 1 < Leads(r))
      <4>1. next = "load"
        BY <3>3, <3>5
      <4>2. Leads(r) <= r.seq + 1
        BY <3>5, <1>11
      <4>3. QED
        BY <4>1, <4>2
    <3>6. QED
      BY <3>4, <3>5
  <2>4. QED
    BY <2>1, <2>2, <2>3
<1> HIDE DEF e, next
<1>6. /\ n.buf = Append(r.buf, e) /\ n.seq = r.seq + 1 /\ n.pc = next /\ n.seen = r.seen
      /\ SameRequest(r, n)
  BY DEF Turn, SameRequest
<1>7. n \in Turn
  <2>1. Append(r.buf, e) \in Seq(Event) /\ r.seq + 1 \in Nat
    BY <1>4, TurnFields
  <2>2. next \in {"new"} \cup Steps \cup Ends
    BY <1>5 DEF Steps, StoreSteps, RunSteps
  <2>3. QED
    BY <2>1, <2>2 DEF Turn
<1> HIDE DEF n
<1>8. TurnOK(n, u, TurnRows(u), Bound(u))
  <2>1. n.buf = Append(turn[u].buf, e) /\ n.seq = turn[u].seq + 1 /\ n.seen = turn[u].seen
    BY <1>6 DEF SameTrace
  <2>2. SameRequest(turn[u], n)
    BY <1>6 DEF SameTrace, SameRequest
  <2>4. /\ n.pc = "decide" => turn[u].pc = "decide" /\ n.seq < Leads(turn[u])
        /\ n.pc # "decide" => Leads(turn[u]) <= n.seq
    BY <1>6, <1>11, <1>12
  <2>5. e.type \in Leading =>
          e.type = IF turn[u].kind = "resume" THEN "hitl_decision" ELSE "human_message"
    BY <1>4, <1>11
  <2>3. QED
    BY <1>2, <1>4, <1>5, <1>6, <1>7, <2>1, <2>2, <2>4, <2>5, InvTurn, EmittedOK
<1>9. n.pc # "new" /\ n.thread = turn[u].thread /\ clock' \in Nat
  BY <1>2, <1>5, <1>6 DEF SameTrace, SameRequest
<1>10. QED
  BY <1>1, <1>2, <1>7, <1>8, <1>9, OneRecord

-----------------------------------------------------------------------------
(* The actions, one lemma for each group *)

LEMMA InvInit == Init => Inv
<1> SUFFICES ASSUME Init PROVE Inv
  OBVIOUS
<1>1. <<>> \in Seq(Event) /\ <<>> \in Seq(Message)
  OBVIOUS
<1>2. New \in Turn
  BY <1>1 DEF New, Turn
<1>3. TypeOK
  BY <1>1, <1>2 DEF Init, TypeOK, Memory
<1>4. ASSUME NEW u \in Turns, NEW live \in BOOLEAN
      PROVE  turn[u].pc = "new" /\ TurnOK(turn[u], u, TurnRows(u), live)
  <2>1. turn[u] = New /\ TurnRows(u) = {}
    BY DEF Init, TurnRows
  <2>2. /\ New.pc = "new" /\ New.seq = 0 /\ New.buf = <<>> /\ New.seen = 0
        /\ New.kind = "none"
    BY DEF New
  <2>3. Len(New.buf) = 0 /\ Len(New.buf) <= New.seq
    BY <2>2
  <2>4. StepOK(New)
    BY <2>2 DEF StepOK, RunSteps, StoreSteps
  <2>5. BufferOK(New, u)
    BY <2>3 DEF BufferOK
  <2>6. RowsOK(New, u, {}, live)
    BY <2>2 DEF RowsOK, Steps, StoreSteps, RunSteps
  <2>7. QED
    BY <2>1, <2>2, <2>4, <2>5, <2>6 DEF TurnOK
<1>5. NoEventOutlivesThread
  BY DEF Init, NoEventOutlivesThread
<1>6. QED
  BY <1>3, <1>4, <1>5 DEF Inv

\* A thread is created: no turn is bound to it yet.
LEMMA CreateThreadInv ==
    ASSUME Inv, NEW t \in Threads, CreateThread(t)
    PROVE  Inv'
<1>1. /\ thread[t] = "none" /\ thread' = [thread EXCEPT ![t] = "live"]
      /\ UNCHANGED <<rows, memory, turn, clock>>
  BY DEF CreateThread
<1>2. TypeOK'
  BY <1>1 DEF Inv, TypeOK
<1>3. NoEventOutlivesThread'
  BY <1>1 DEF Inv, TypeOK, NoEventOutlivesThread
<1>4. ASSUME NEW u \in Turns
      PROVE  /\ (turn[u].pc # "new" => thread[turn[u].thread] # "none")'
             /\ TurnOK(turn[u], u, TurnRows(u), turn[u].pc # "new" /\ Live(turn[u]))'
  <2>1. CASE turn[u].pc = "new"
    <3>1. (turn[u].pc # "new" /\ Live(turn[u]))' = (turn[u].pc # "new" /\ Live(turn[u]))
      BY <1>1, <2>1
    <3>2. TurnRows(u)' = TurnRows(u) /\ turn'[u] = turn[u]
      BY <1>1 DEF TurnRows
    <3>3. QED
      BY <2>1, <3>1, <3>2 DEF Inv
  <2>2. CASE turn[u].pc # "new"
    <3>1. turn[u].thread \in Threads \ {t}
      BY <1>1, <2>2, InvTurn DEF Inv, TurnOK, StepOK
    <3>2. thread'[turn[u].thread] = thread[turn[u].thread]
      BY <1>1, <3>1 DEF Inv, TypeOK
    <3>3. (turn[u].pc # "new" /\ Live(turn[u]))' = (turn[u].pc # "new" /\ Live(turn[u]))
      BY <1>1, <3>2 DEF Live
    <3>4. TurnRows(u)' = TurnRows(u) /\ turn'[u] = turn[u]
      BY <1>1 DEF TurnRows
    <3>5. QED
      BY <2>2, <3>2, <3>3, <3>4 DEF Inv
  <2>3. QED
    BY <2>1, <2>2
<1>5. QED
  BY <1>2, <1>3, <1>4 DEF Inv

\* A thread is deleted: the rows of its turns are the rows that go.
LEMMA DeleteThreadInv ==
    ASSUME Inv, NEW t \in Threads, DeleteThread(t)
    PROVE  Inv'
<1>1. /\ thread[t] = "live" /\ thread' = [thread EXCEPT ![t] = "gone"]
      /\ rows' = {e \in rows : e.thread # t}
      /\ UNCHANGED <<memory, turn, clock>>
  BY DEF DeleteThread
<1>2. TypeOK'
  BY <1>1 DEF Inv, TypeOK
<1>3. NoEventOutlivesThread'
  BY <1>1 DEF Inv, TypeOK, NoEventOutlivesThread, Event
<1>4. ASSUME NEW u \in Turns
      PROVE  /\ (turn[u].pc # "new" => thread[turn[u].thread] # "none")'
             /\ TurnOK(turn[u], u, TurnRows(u), turn[u].pc # "new" /\ Live(turn[u]))'
  <2>1. turn'[u] = turn[u] /\ \A e \in TurnRows(u) : e.thread = turn[u].thread
    BY <1>1, InvTurn DEF TurnOK, RowsOK, EventOK
  <2>2. turn[u].pc # "new" => turn[u].thread \in Threads /\ thread[turn[u].thread] # "none"
    BY InvTurn DEF Inv, TurnOK, StepOK
  <2>3. (turn[u].pc # "new" => thread[turn[u].thread] # "none")'
    BY <1>1, <2>1, <2>2 DEF Inv, TypeOK
  <2>4. CASE turn[u].thread = t
    <3>1. TurnRows(u)' = {}
      BY <1>1, <2>1, <2>4 DEF TurnRows
    <3>2. (turn[u].pc # "new" /\ Live(turn[u]))' = FALSE
      BY <1>1, <2>4 DEF Live, Inv, TypeOK
    <3>3. TurnOK(turn[u], u, {}, FALSE)
      BY InvTurn, ForgottenOK
    <3>4. QED
      BY <2>1, <2>3, <3>1, <3>2, <3>3
  <2>5. CASE turn[u].thread # t
    <3>1. TurnRows(u)' = TurnRows(u)
      BY <1>1, <2>1, <2>5 DEF TurnRows
    <3>2. turn[u].pc # "new" => thread'[turn[u].thread] = thread[turn[u].thread]
      BY <1>1, <2>2, <2>5 DEF Inv, TypeOK
    <3>3. (turn[u].pc # "new" /\ Live(turn[u]))' = (turn[u].pc # "new" /\ Live(turn[u]))
      BY <2>1, <3>2 DEF Live
    <3>4. QED
      BY <2>1, <2>3, <3>1, <3>3 DEF Inv
  <2>6. QED
    BY <2>4, <2>5
<1>5. QED
  BY <1>2, <1>3, <1>4 DEF Inv

\* A turn begins in a live thread.
LEMMA StartInv ==
    ASSUME Inv, NEW u \in Turns, NEW t \in Threads, Start(u, t)
    PROVE  Inv'
<1>1. PICK k \in Kinds, target \in Decidable(t) \cup {None} :
        /\ (k = "resume") <=> (target # None)
        /\ turn' = [turn EXCEPT ![u] = [New EXCEPT !.kind = k, !.thread = t,
                                                   !.target = target,
                                                   !.pc = IF k = "sse"
                                                          THEN "route" ELSE "get"]]
  BY DEF Start
<1> DEFINE n == [New EXCEPT !.kind = k, !.thread = t, !.target = target,
                            !.pc = IF k = "sse" THEN "route" ELSE "get"]
<1>2. target \in Turns \cup {None}
  <2>1. ASSUME NEW x \in rows, x.says.role = "call"
        PROVE  x.says.turn \in Turns
    <3>1. x.says \in Message \cup {NoMessage}
      BY EventFields DEF Inv, TypeOK
    <3>2. x.says # NoMessage
      BY <2>1 DEF NoMessage
    <3>3. QED
      BY <3>1, <3>2 DEF Message
  <2>2. QED
    BY <2>1 DEF Decidable
<1>3. <<>> \in Seq(Event) /\ <<>> \in Seq(Message)
  OBVIOUS
<1>4. New \in Turn
  BY <1>3 DEF New, Turn
<1>5. n \in Turn
  <2>1. k \in Routes /\ "route" \in Steps /\ "get" \in Steps
    BY ConversationAssumption DEF Steps
  <2>2. QED
    BY <1>2, <1>4, <2>1 DEF Turn
<1>6. /\ n.pc \in {"route", "get"} /\ n.seq = 0 /\ n.buf = <<>> /\ n.seen = 0
      /\ n.thread = t /\ n.kind = k /\ n.target = target
  BY DEF New
<1>7. TurnRows(u) = {}
  BY InvTurn, NewHasNoRows DEF Start
<1> HIDE DEF n
<1>8. TurnOK(n, u, {}, thread[n.thread] = "live")
  BY <1>1, <1>2, <1>5, <1>6, StartedOK
<1>9. /\ thread[n.thread] # "none" /\ n.pc # "new" /\ clock' \in Nat
      /\ memory' \in [Threads -> Memory] /\ UNCHANGED thread
  BY <1>6 DEF Start, Inv, TypeOK
<1>10. /\ TurnRows(u) \cup {} = {} /\ rows' = rows \cup {} /\ {} \in SUBSET Event
       /\ \A e \in {} : e.turn = u /\ thread[e.thread] = "live"
  BY <1>7 DEF Start
<1>11. turn' = [turn EXCEPT ![u] = n]
  BY <1>1 DEF n
<1>12. QED
  BY <1>5, <1>8, <1>9, <1>10, <1>11, OneTurn

\* The steps from the route to the graph run.
LEMMA PreparationInv ==
    ASSUME Inv, NEW u \in Turns,
           \/ GetThread(u) \/ GetRunner(u) \/ RunnerMissing(u)
           \/ PrepareResume(u) \/ Decide(u)
    PROVE  Inv'
<1>1. /\ turn[u] \in Turn /\ StepOK(turn[u])
      /\ memory \in [Threads -> Memory] /\ Message \subseteq Message \cup {NoMessage}
  BY InvTurn DEF Inv, TypeOK, TurnOK
<1>2. SameTrace(turn[u], turn[u])
  BY DEF SameTrace, SameRequest
<1>3. /\ {"human_message", "hitl_decision"} \subseteq EventTypes
      /\ {"human_message", "hitl_decision"} \subseteq Leading
  BY DEF EventTypes, Leading
<1>4. CASE GetThread(u)
  <2>1. /\ turn[u].pc \in {"route", "get"} /\ UNCHANGED <<thread, rows, memory, clock>>
        /\ Active(u)
    BY <1>4 DEF GetThread, Active, Steps
  <2>2. CASE thread[turn[u].thread] = "live" /\ turn[u].pc = "route"
    BY <1>1, <1>4, <2>1, <2>2, GotoInv DEF GetThread, Steps, StoreSteps, RunSteps, Early
  <2>3. CASE thread[turn[u].thread] = "live" /\ turn[u].pc = "get"
    BY <1>1, <1>4, <2>1, <2>3, GotoInv DEF GetThread, Steps, StoreSteps, RunSteps, Early
  <2>4. CASE thread[turn[u].thread] # "live"
    BY <1>4, <2>1, <2>4, EndInv DEF GetThread, Ends
  <2>5. QED
    BY <2>1, <2>2, <2>3, <2>4
<1>5. CASE GetRunner(u)
  <2>1. turn[u].pc = "runner" /\ UNCHANGED <<thread, rows, memory, clock>>
    BY <1>5 DEF GetRunner
  <2>2. CASE turn[u].kind = "resume"
    <3>1. Goto(u, "prepare")
      BY <1>5, <2>2 DEF GetRunner
    <3>2. QED
      BY <1>1, <2>1, <2>2, <3>1, GotoInv DEF Steps, StoreSteps, RunSteps, Early
  <2>3. CASE turn[u].kind # "resume"
    <3>1. Emit(u, turn[u], "human_message", [role |-> "human", turn |-> u], FALSE)
      BY <1>5, <2>3 DEF GetRunner
    <3>2. [role |-> "human", turn |-> u] \in Message
      BY DEF Message
    <3>3. QED
      BY <1>1, <1>2, <1>3, <2>1, <2>3, <3>1, <3>2, EmitInv
  <2>4. QED
    BY <2>2, <2>3
<1>6. CASE RunnerMissing(u)
  BY <1>6, EndInv DEF RunnerMissing, Active, Steps, Ends
<1>7. CASE PrepareResume(u)
  <2>1. turn[u].pc = "prepare" /\ UNCHANGED <<thread, rows, memory, clock>>
    BY <1>7 DEF PrepareResume
  <2>2. CASE memory[turn[u].thread].pending = turn[u].target
    <3>1. Goto(u, "decide")
      BY <1>7, <2>2 DEF PrepareResume
    <3>2. turn[u].kind = "resume"
      BY <1>1, <2>1 DEF StepOK
    <3>3. QED
      BY <1>1, <2>1, <3>1, <3>2, GotoInv DEF Steps, StoreSteps, RunSteps, Early
  <2>3. CASE memory[turn[u].thread].pending # turn[u].target
    BY <1>7, <2>1, <2>3, EndInv DEF PrepareResume, Active, Steps, Ends
  <2>4. QED
    BY <2>2, <2>3
<1>9. CASE Decide(u)
  <2>1. /\ turn[u].pc = "decide" /\ UNCHANGED <<thread, rows, memory, clock>>
        /\ Emit(u, turn[u], "hitl_decision", [role |-> "call", turn |-> turn[u].target], FALSE)
    BY <1>9 DEF Decide
  <2>2. turn[u].kind = "resume" /\ turn[u].target \in Turns
    BY <1>1, <2>1 DEF StepOK
  <2>3. [role |-> "call", turn |-> turn[u].target] \in Message
    BY <2>2 DEF Message
  <2>4. QED
    BY <1>1, <1>2, <1>3, <2>1, <2>2, <2>3, EmitInv
<1>8. QED
  BY <1>4, <1>5, <1>6, <1>7, <1>9

\* A checkpoint is written over the one of the thread of a turn.
LEMMA MemoryTyped ==
    ASSUME Inv, NEW u \in Turns, NEW msgs \in Seq(Message), NEW p \in Turns \cup {None},
           memory' = [memory EXCEPT ![turn[u].thread] = [msgs |-> msgs, pending |-> p]]
    PROVE  memory' \in [Threads -> Memory]
<1>1. [msgs |-> msgs, pending |-> p] \in Memory
  BY DEF Memory
<1>2. QED
  BY <1>1 DEF Inv, TypeOK

\* The messages of a checkpoint, and its pending interrupt.
LEMMA MemoryFields ==
    ASSUME Inv, NEW t \in Threads
    PROVE  memory[t].msgs \in Seq(Message) /\ memory[t].pending \in Turns \cup {None}
BY DEF Inv, TypeOK, Memory

\* The graph run loads the checkpoint.
LEMMA LoadInv ==
    ASSUME Inv, NEW u \in Turns, LoadCheckpoint(u)
    PROVE  Inv'
<1> DEFINE t == turn[u].thread
           m == memory[t]
           asked == Append(m.msgs, [role |-> "human", turn |-> u])
<1>1. turn[u] \in Turn /\ turn[u].pc = "load" /\ turn[u].pc # "new" /\ t \in Threads
  BY InvTurn DEF LoadCheckpoint, TurnOK, StepOK
<1>2. /\ m.msgs \in Seq(Message) /\ m.pending \in Turns \cup {None}
      /\ asked \in Seq(Message)
  <2>1. m.msgs \in Seq(Message) /\ m.pending \in Turns \cup {None}
    BY <1>1, MemoryFields
  <2>2. [role |-> "human", turn |-> u] \in Message
    BY DEF Message
  <2> HIDE DEF m
  <2>3. QED
    BY <2>1, <2>2
<1>3. UNCHANGED <<thread, rows, clock>> /\ clock' \in Nat
  BY DEF LoadCheckpoint, Inv, TypeOK
<1>4. /\ "run" \in Steps /\ "values" \in Steps
      /\ {"run", "values", "load"} \cap (Early \cup StoreSteps \cup {"deliver", "new", "prepare", "decide"}) = {}
      /\ {"run", "values", "load"} \subseteq RunSteps /\ "load" \in Steps
  BY DEF Steps, RunSteps, StoreSteps, Early
<1>5. ASSUME NEW n \in Turn, turn' = [turn EXCEPT ![u] = n], SameTrace(turn[u], n),
             n.pc \in {"run", "values"}, memory' \in [Threads -> Memory]
      PROVE  Inv'
  <2>1. TurnOK(n, u, TurnRows(u), Bound(u))
    BY <1>1, <1>4, <1>5, InvTurn, MovedOK
  <2>2. n.thread = turn[u].thread /\ n.pc # "new"
    BY <1>5 DEF SameTrace, SameRequest
  <2>3. QED
    BY <1>1, <1>3, <1>5, <2>1, <2>2, OneRecord
<1>6. CASE turn[u].kind # "resume"
  <2> DEFINE n == [turn[u] EXCEPT !.pc = "run", !.local = asked]
  <2>1. /\ turn' = [turn EXCEPT ![u] = n]
        /\ memory' = [memory EXCEPT ![t] = [msgs |-> asked, pending |-> None]]
    BY <1>1, <1>6 DEF LoadCheckpoint, Inv, TypeOK
  <2>2. n \in Turn /\ SameTrace(turn[u], n) /\ n.pc = "run"
    BY <1>1, <1>2, <1>4 DEF Turn, SameTrace, SameRequest
  <2> HIDE DEF n
  <2>3. memory' \in [Threads -> Memory]
    BY <1>2, <2>1, MemoryTyped
  <2>4. QED
    BY <1>5, <2>1, <2>2, <2>3
<1>7. CASE turn[u].kind = "resume"
  <2> DEFINE n == [turn[u] EXCEPT !.pc = IF m.pending = None THEN "values" ELSE "run",
                                  !.local = m.msgs, !.applied = m.pending]
  <2>1. turn' = [turn EXCEPT ![u] = n] /\ UNCHANGED memory
    BY <1>1, <1>7 DEF LoadCheckpoint, Inv, TypeOK
  <2>2. n \in Turn /\ SameTrace(turn[u], n) /\ n.pc \in {"run", "values"}
    BY <1>1, <1>2, <1>4 DEF Turn, SameTrace, SameRequest
  <2> HIDE DEF n
  <2>3. memory' \in [Threads -> Memory]
    BY <2>1 DEF Inv, TypeOK
  <2>4. QED
    BY <1>5, <2>1, <2>2, <2>3
<1>8. QED
  BY <1>6, <1>7

\* The graph runs and the state is read back.
LEMMA RunInv ==
    ASSUME Inv, NEW u \in Turns,
           \/ ContentChunk(u) \/ CallTools(u) \/ ToolResult(u) \/ SubagentResult(u)
           \/ Answer(u) \/ GraphRaises(u)
           \/ IdleTimeout(u) \/ ReadValues(u) \/ ReadStatus(u)
    PROVE  Inv'
<1>1. /\ turn[u] \in Turn
      /\ turn[u].pc \in {"run", "values", "status"} => turn[u].thread \in Threads
      /\ memory \in [Threads -> Memory] /\ turn[u].local \in Seq(Message)
      /\ turn[u].answer \in Message \cup {NoMessage} /\ clock \in Nat
  BY InvTurn, TurnFields DEF Inv, TypeOK, TurnOK, StepOK
<1>2. SameTrace(turn[u], turn[u])
  BY DEF SameTrace, SameRequest
<1>3. /\ {"content", "tool_result", "ai_message"} \subseteq EventTypes
      /\ {"content", "tool_result", "ai_message"} \cap Leading = {}
  BY DEF EventTypes, Leading, Intermediate
<1>4. \A role \in {"step", "tool", "ai", "call"} : [role |-> role, turn |-> u] \in Message
  BY DEF Message
<1>5. /\ {"run", "values", "status"} \subseteq RunSteps \cap Steps
      /\ {"run", "values", "status"} \cap
           (Early \cup StoreSteps \cup {"deliver", "new", "prepare", "decide"}) = {}
  BY DEF Steps, RunSteps, StoreSteps, Early
<1>6. CASE ContentChunk(u)
  BY <1>1, <1>2, <1>3, <1>6, EmitInv DEF ContentChunk, MayGoOn
<1>7. CASE ToolResult(u)
  <2> DEFINE said == [role |-> "tool", turn |-> u]
             msgs == Append(turn[u].local, said)
             r == [turn[u] EXCEPT !.local = msgs]
  <2>1. /\ turn[u].pc = "run" /\ Emit(u, r, "tool_result", said, FALSE)
        /\ memory' = [memory EXCEPT ![turn[u].thread] = [msgs |-> msgs, pending |-> None]]
        /\ UNCHANGED <<thread, rows, clock>>
    BY <1>7 DEF ToolResult, MayGoOn
  <2>2. said \in Message
    BY <1>4
  <2> HIDE DEF said
  <2>3. msgs \in Seq(Message)
    BY <1>1, <2>2
  <2> HIDE DEF msgs
  <2>4. r \in Turn /\ SameTrace(turn[u], r)
    BY <1>1, <2>3 DEF Turn, SameTrace, SameRequest
  <2>5. memory' \in [Threads -> Memory]
    BY <2>1, <2>3, MemoryTyped
  <2> HIDE DEF r
  <2>6. QED
    BY <1>3, <2>1, <2>2, <2>4, <2>5, EmitInv
<1>14. CASE CallTools(u)
  <2> DEFINE msgs == Append(turn[u].local, [role |-> "step", turn |-> u])
             n == [turn[u] EXCEPT !.local = msgs]
  <2>1. /\ turn[u].pc = "run" /\ turn' = [turn EXCEPT ![u] = n]
        /\ memory' = [memory EXCEPT ![turn[u].thread] = [msgs |-> msgs, pending |-> None]]
        /\ UNCHANGED <<thread, rows, clock>>
    BY <1>1, <1>14 DEF CallTools, Inv, TypeOK
  <2>2. msgs \in Seq(Message)
    BY <1>1, <1>4
  <2> HIDE DEF msgs
  <2>3. n \in Turn /\ SameTrace(turn[u], n) /\ n.pc = "run"
    BY <1>1, <2>1, <2>2 DEF Turn, SameTrace, SameRequest
  <2>4. memory' \in [Threads -> Memory]
    BY <2>1, <2>2, MemoryTyped
  <2> HIDE DEF n
  <2>5. TurnOK(n, u, TurnRows(u), Bound(u))
    BY <1>1, <1>5, <2>1, <2>3, InvTurn, MovedOK
  <2>6. n.thread = turn[u].thread /\ n.pc # "new" /\ turn[u].pc # "new"
    BY <2>1, <2>3 DEF SameTrace, SameRequest
  <2>7. QED
    BY <1>1, <2>1, <2>3, <2>4, <2>5, <2>6, OneRecord
<1>15. CASE SubagentResult(u)
  <2>1. /\ turn[u].pc = "run" /\ Emit(u, turn[u], "tool_result", NoMessage, FALSE)
        /\ UNCHANGED <<thread, rows, memory, clock>>
    BY <1>15 DEF SubagentResult, MayGoOn
  <2>2. QED
    BY <1>1, <1>2, <1>3, <2>1, EmitInv
<1>8. CASE Answer(u)
  <2>1. PICK role \in {"ai", "call"} :
          memory' = [memory EXCEPT ![turn[u].thread] =
                       [msgs |-> Append(turn[u].local, [role |-> role, turn |-> u]),
                        pending |-> IF role = "call" THEN u ELSE None]]
    BY <1>8 DEF Answer
  <2>2. Append(turn[u].local, [role |-> role, turn |-> u]) \in Seq(Message)
    BY <1>1, <1>4
  <2>3. (IF role = "call" THEN u ELSE None) \in Turns \cup {None}
    OBVIOUS
  <2>4. memory' \in [Threads -> Memory]
    BY <2>1, <2>2, <2>3, MemoryTyped
  <2>5. turn[u].pc = "run" /\ Goto(u, "values") /\ UNCHANGED <<thread, rows, clock>>
    BY <1>8 DEF Answer
  <2>6. QED
    BY <1>5, <2>4, <2>5, GotoInv
<1>9. CASE GraphRaises(u)
  BY <1>5, <1>9, EndInv DEF GraphRaises, Active, Ends
<1>10. CASE IdleTimeout(u)
  BY <1>5, <1>10, EndInv DEF IdleTimeout, Active, Ends
<1>11. CASE ReadValues(u)
  <2> DEFINE answer == LastMessage(memory[turn[u].thread].msgs)
             n == [turn[u] EXCEPT !.pc = "status", !.answer = answer]
  <2>1. /\ turn[u].pc = "values" /\ UNCHANGED <<thread, rows, memory, clock>>
        /\ turn' = [turn EXCEPT ![u] = n]
    BY <1>1, <1>11 DEF ReadValues, Inv, TypeOK
  <2>2. answer \in Message \cup {NoMessage}
    <3>1. memory[turn[u].thread].msgs \in Seq(Message)
      BY <1>1, <2>1, MemoryFields
    <3>2. QED
      BY <3>1 DEF LastMessage
  <2> HIDE DEF answer
  <2>3. n \in Turn /\ SameTrace(turn[u], n) /\ n.pc = "status"
    BY <1>1, <1>5, <2>2 DEF Turn, SameTrace, SameRequest
  <2> HIDE DEF n
  <2>4. TurnOK(n, u, TurnRows(u), Bound(u))
    BY <1>1, <1>5, <2>1, <2>3, InvTurn, MovedOK
  <2>5. n.thread = turn[u].thread /\ n.pc # "new" /\ turn[u].pc # "new"
    BY <2>1, <2>3 DEF SameTrace, SameRequest
  <2>6. QED
    BY <1>1, <2>1, <2>3, <2>4, <2>5, OneRecord
<1>12. CASE ReadStatus(u)
  <2>1. Awaiting(u) \in BOOLEAN
    BY DEF Awaiting
  <2>2. turn[u].pc = "status" /\ Emit(u, turn[u], "ai_message", turn[u].answer, Awaiting(u))
        /\ UNCHANGED <<thread, rows, memory, clock>>
    BY <1>12 DEF ReadStatus
  <2>3. QED
    BY <1>1, <1>2, <1>3, <2>1, <2>2, EmitInv
<1>13. QED
  BY <1>6, <1>7, <1>8, <1>9, <1>10, <1>11, <1>12, <1>14, <1>15

\* The rows that Insert and AckLost add to those of the turn.
LEMMA StoredRows ==
    ASSUME Inv, NEW u \in Turns, turn[u].pc = "insert", CanInsert(u)
    PROVE  LET added == {turn[u].buf[i] : i \in 1 .. Len(turn[u].buf)}
               n == [turn[u] EXCEPT !.pc = "deliver"]
           IN  /\ Stored(u) = rows \cup added
               /\ added \in SUBSET Event
               /\ \A e \in added : e.turn = u /\ e.thread = turn[u].thread
               /\ n \in Turn /\ n.pc = "deliver" /\ n.thread = turn[u].thread
               /\ TurnOK(n, u, TurnRows(u) \cup added, TRUE)
<1> DEFINE added == {turn[u].buf[i] : i \in 1 .. Len(turn[u].buf)}
           n == [turn[u] EXCEPT !.pc = "deliver"]
<1>1. turn[u] \in Turn /\ TurnRows(u) \in SUBSET Event
  BY InvTurn
<1>2. Bound(u) = TRUE
  BY DEF Bound, Live, CanInsert
<1>3. TurnOK(turn[u], u, TurnRows(u), TRUE)
  BY <1>2, InvTurn
<1>4. n \in Turn /\ n.pc = "deliver" /\ SameTrace(turn[u], n) /\ n.thread = turn[u].thread
  BY <1>1 DEF Turn, Steps, SameTrace, SameRequest
<1>5. added \in SUBSET Event
  BY <1>1, TurnFields
<1>6. \A e \in added : e.turn = u /\ e.thread = turn[u].thread
  BY <1>3 DEF TurnOK, BufferOK, EventOK
<1> HIDE DEF n
<1>7. TurnOK(n, u, TurnRows(u) \cup added, TRUE)
  BY <1>1, <1>3, <1>4, InsertedOK
<1>8. Stored(u) = rows \cup added
  BY DEF Stored
<1>9. QED
  BY <1>4, <1>5, <1>6, <1>7, <1>8 DEF n

\* The trace is stored, and the client receives it.
LEMMA StoreInv ==
    ASSUME Inv, NEW u \in Turns,
           CheckThread(u) \/ Insert(u) \/ AckLost(u) \/ Deliver(u)
    PROVE  Inv'
<1> DEFINE added == {turn[u].buf[i] : i \in 1 .. Len(turn[u].buf)}
           stored == [turn[u] EXCEPT !.pc = "deliver"]
           lost == Ended(turn[u], "failed")
<1>1. /\ turn[u] \in Turn /\ TurnRows(u) \in SUBSET Event
      /\ memory \in [Threads -> Memory] /\ clock \in Nat
  BY InvTurn DEF Inv, TypeOK
<1>2. CASE CheckThread(u)
  <2>1. turn[u].pc = "check" /\ UNCHANGED <<thread, rows, memory, clock>>
    BY <1>2 DEF CheckThread
  <2>2. CASE thread[turn[u].thread] = "live"
    BY <1>1, <1>2, <2>1, <2>2, GotoInv DEF CheckThread, Steps, StoreSteps, RunSteps, Early
  <2>3. CASE thread[turn[u].thread] # "live"
    BY <1>2, <2>1, <2>3, EndInv DEF CheckThread, Active, Steps, StoreSteps, Ends
  <2>4. QED
    BY <2>2, <2>3
<1>3. ASSUME turn[u].pc = "insert", CanInsert(u), rows' = Stored(u),
             UNCHANGED <<thread, memory, clock>>,
             turn' = [turn EXCEPT ![u] = stored] \/ turn' = [turn EXCEPT ![u] = lost]
      PROVE  Inv'
  <2>1. /\ rows' = rows \cup added /\ added \in SUBSET Event
        /\ thread[turn[u].thread] = "live"
        /\ stored \in Turn /\ stored.pc = "deliver" /\ stored.thread = turn[u].thread
        /\ TurnOK(stored, u, TurnRows(u) \cup added, TRUE)
    BY <1>3, StoredRows DEF CanInsert
  <2>2. \A e \in added : e.turn = u /\ thread[e.thread] = "live"
    BY <1>3, <2>1, StoredRows
  <2>3. /\ lost \in Turn /\ lost.pc = "failed" /\ lost.thread = turn[u].thread
        /\ lost = Ended(stored, "failed")
    <3>1. lost \in Turn
      BY <1>1, EndedType DEF Ends
    <3>2. lost.pc = "failed" /\ lost.thread = turn[u].thread
      BY <1>1 DEF Ended, Turn
    <3>3. lost = Ended(stored, "failed")
      BY <1>1, EndedAfter
    <3>4. QED
      BY <3>1, <3>2, <3>3
  <2>4. TurnRows(u) \cup added \in SUBSET Event
    BY <1>1, <2>1
  <2> HIDE DEF added, stored, lost
  <2>5. TurnOK(lost, u, TurnRows(u) \cup added, TRUE)
    BY <2>1, <2>3, <2>4, EndedOK DEF Ends
  <2>6. memory' \in [Threads -> Memory] /\ clock' \in Nat /\ UNCHANGED thread
    BY <1>1, <1>3
  <2>7. CASE turn' = [turn EXCEPT ![u] = stored]
    <3>1. /\ (thread[stored.thread] = "live") = TRUE /\ thread[stored.thread] # "none"
          /\ stored.pc # "new"
      BY <2>1
    <3>2. QED
      BY <2>1, <2>2, <2>6, <2>7, <3>1, OneTurn
  <2>8. CASE turn' = [turn EXCEPT ![u] = lost]
    <3>1. /\ (thread[lost.thread] = "live") = TRUE /\ thread[lost.thread] # "none"
          /\ lost.pc # "new"
      BY <2>1, <2>3
    <3>2. QED
      BY <2>1, <2>2, <2>3, <2>5, <2>6, <2>8, <3>1, OneTurn
  <2>9. QED
    BY <1>3, <2>7, <2>8
<1>4. CASE Insert(u)
  <2>1. turn[u].pc = "insert" /\ UNCHANGED <<thread, memory, clock>>
    BY <1>4 DEF Insert
  <2>2. CASE CanInsert(u)
    BY <1>3, <1>4, <2>1, <2>2 DEF Insert, Goto
  <2>3. CASE ~CanInsert(u)
    BY <1>4, <2>1, <2>3, EndInv DEF Insert, Active, Steps, StoreSteps, Ends
  <2>4. QED
    BY <2>2, <2>3
<1>5. CASE AckLost(u)
  BY <1>3, <1>5 DEF AckLost, End, Ended
<1>6. CASE Deliver(u)
  <2> DEFINE last == turn[u].buf[Len(turn[u].buf)]
             local == IF last.type = "ai_message" THEN <<>> ELSE turn[u].local
             n == [turn[u] EXCEPT !.pc = AfterEvent(turn[u], last.seq, last.type),
                                  !.seen = turn[u].seq,
                                  !.buf = <<>>, !.local = local, !.answer = NoMessage]
  <2>1. /\ turn[u].pc = "deliver" /\ UNCHANGED <<thread, rows, memory, clock>>
        /\ turn' = [turn EXCEPT ![u] = n]
    BY <1>6 DEF Deliver
  <2>2. last.type \in EventTypes
    <3>1. turn[u].buf # <<>>
      BY <2>1, InvTurn DEF TurnOK, StepOK, StoreSteps
    <3>2. Len(turn[u].buf) \in 1 .. Len(turn[u].buf)
      BY <1>1, <3>1, TurnFields
    <3>3. QED
      BY <1>1, <3>2, TurnFields, EventFields
  <2>3. AfterEvent(turn[u], last.seq, last.type) \in {"load", "run", "done", "decide"}
    BY <2>2 DEF AfterEvent, EventTypes, Leading, Intermediate
  <2> HIDE DEF last
  <2>4. local \in Seq(Message)
    BY <1>1, TurnFields
  <2> HIDE DEF local
  <2>5. /\ n.pc = AfterEvent(turn[u], last.seq, last.type) /\ n.buf = <<>> /\ n.seq = turn[u].seq
        /\ n.seen = turn[u].seq /\ SameRequest(turn[u], n)
    BY <1>1 DEF Turn, SameRequest
  <2>6. n \in Turn
    <3>1. <<>> \in Seq(Event) /\ <<>> \in Seq(Message)
      OBVIOUS
    <3>2. AfterEvent(turn[u], last.seq, last.type) \in {"new"} \cup Steps \cup Ends
      BY <2>3 DEF Steps, RunSteps, Ends
    <3>3. turn[u].seq \in Nat
      BY <1>1, TurnFields
    <3>4. QED
      BY <1>1, <2>4, <3>1, <3>2, <3>3 DEF Turn
  <2> HIDE DEF n
  <2>7. TurnOK(n, u, TurnRows(u), Bound(u))
    BY <1>1, <2>1, <2>5, <2>6, InvTurn, DeliveredOK DEF last
  <2>8. n.pc # "new" /\ n.thread = turn[u].thread
    BY <2>3, <2>5 DEF SameRequest
  <2>9. QED
    BY <1>1, <2>1, <2>6, <2>7, <2>8, OneRecord
<1>7. QED
  BY <1>2, <1>4, <1>5, <1>6

\* A call fails or a client goes away.
LEMMA FailureInv ==
    ASSUME Inv, NEW u \in Turns, CallRaises(u) \/ Disconnect(u)
    PROVE  Inv'
<1>1. CASE CallRaises(u)
  BY <1>1, EndInv DEF CallRaises, Active, Steps, StoreSteps, RunSteps, Ends
<1>2. CASE Disconnect(u)
  BY <1>2, EndInv DEF Disconnect, Active, Steps, Ends
<1>3. QED
  BY <1>1, <1>2

\* The process dies: every turn that is under way is cut.
LEMMA RestartInv ==
    ASSUME Inv, Restart
    PROVE  Inv'
<1>1. /\ UNCHANGED <<thread, rows, memory, clock>>
      /\ turn' = [u \in Turns |-> IF Active(u) THEN Ended(turn[u], "cut") ELSE turn[u]]
  BY DEF Restart, Ended
<1>2. ASSUME NEW u \in Turns
      PROVE  /\ turn'[u] \in Turn
             /\ (turn[u].pc # "new" => thread[turn[u].thread] # "none")'
             /\ TurnOK(turn[u], u, TurnRows(u), turn[u].pc # "new" /\ Live(turn[u]))'
  <2>1. TurnRows(u)' = TurnRows(u)
    BY <1>1 DEF TurnRows
  <2>2. CASE Active(u)
    <3> DEFINE n == Ended(turn[u], "cut")
    <3>1. turn'[u] = n /\ turn[u] \in Turn /\ turn[u].pc # "new"
      BY <1>1, <2>2, InvTurn DEF Active, Steps, StoreSteps, RunSteps
    <3>2. /\ n \in Turn /\ n.pc = "cut" /\ n.thread = turn[u].thread
          /\ TurnOK(n, u, TurnRows(u), Bound(u))
      <4>1. "cut" \in Ends
        BY DEF Ends
      <4>2. n \in Turn /\ TurnOK(n, u, TurnRows(u), Bound(u))
        BY <3>1, <4>1, InvTurn, EndedType, EndedOK
      <4>3. n.pc = "cut" /\ n.thread = turn[u].thread
        BY <3>1 DEF Ended, Turn
      <4>4. QED
        BY <4>2, <4>3
    <3> HIDE DEF n
    <3>3. (turn[u].pc # "new" /\ Live(turn[u]))' = Bound(u)
      BY <1>1, <3>1, <3>2 DEF Bound, Live
    <3>4. (turn[u].pc # "new" => thread[turn[u].thread] # "none")'
      BY <1>1, <3>1, <3>2 DEF Inv
    <3>5. QED
      BY <2>1, <3>1, <3>2, <3>3, <3>4
  <2>3. CASE ~Active(u)
    <3>1. turn'[u] = turn[u]
      BY <1>1, <2>3
    <3>2. (turn[u].pc # "new" /\ Live(turn[u]))' = (turn[u].pc # "new" /\ Live(turn[u]))
      BY <1>1, <3>1 DEF Live
    <3>3. QED
      BY <1>1, <2>1, <3>1, <3>2 DEF Inv, TypeOK
  <2>4. QED
    BY <2>2, <2>3
<1>3. TypeOK'
  BY <1>1, <1>2 DEF Inv, TypeOK
<1>4. NoEventOutlivesThread'
  BY <1>1 DEF Inv, NoEventOutlivesThread
<1>5. QED
  BY <1>2, <1>3, <1>4 DEF Inv

\* Nothing happens.
LEMMA StutterInv == Inv /\ UNCHANGED vars => Inv'
<1> SUFFICES ASSUME Inv, UNCHANGED vars PROVE Inv'
  OBVIOUS
<1>1. UNCHANGED <<thread, rows, memory, turn, clock>>
  BY DEF vars
<1>2. TypeOK' /\ NoEventOutlivesThread'
  BY <1>1 DEF Inv, TypeOK, NoEventOutlivesThread
<1>3. ASSUME NEW u \in Turns
      PROVE  TurnRows(u)' = TurnRows(u) /\ Live(turn[u])' = Live(turn[u])
  BY <1>1 DEF TurnRows, Live
<1>4. QED
  BY <1>1, <1>2, <1>3 DEF Inv

\* Inv is inductive.
LEMMA InvNext == Inv /\ [Next]_vars => Inv'
<1> SUFFICES ASSUME Inv, [Next]_vars PROVE Inv'
  OBVIOUS
<1>1. CASE \E t \in Threads : CreateThread(t) \/ DeleteThread(t)
  BY <1>1, CreateThreadInv, DeleteThreadInv
<1>2. CASE \E u \in Turns, t \in Threads : Start(u, t)
  BY <1>2, StartInv
<1>3. ASSUME NEW u \in Turns, ServerStep(u) \/ GraphStep(u) \/ Deliver(u) \/ Disconnect(u)
      PROVE  Inv'
  BY <1>3, PreparationInv, LoadInv, RunInv, StoreInv, FailureInv DEF ServerStep, GraphStep
<1>4. CASE Restart
  BY <1>4, RestartInv
<1>5. CASE UNCHANGED vars
  BY <1>5, StutterInv
<1>6. QED
  BY <1>1, <1>2, <1>3, <1>4, <1>5 DEF Next

-----------------------------------------------------------------------------
(* Theorems *)

\* Inv holds in every reachable state.
THEOREM Invariance == Spec => []Inv
<1>1. Init => Inv
  BY InvInit
<1>2. Inv /\ [Next]_vars => Inv'
  BY InvNext
<1>3. QED
  BY <1>1, <1>2, PTL DEF Spec

\* TypeCorrect: every variable has its type, whatever the requests do.
THEOREM TypeCorrect == Spec => []TypeOK
<1>1. Inv => TypeOK
  BY DEF Inv
<1>2. QED
  BY <1>1, Invariance, PTL

\* EventsGoWithThread: no event outlives its thread, although turns are under
\* way when it is deleted, requests overlap, calls fail and the process dies.
THEOREM EventsGoWithThread == Spec => []NoEventOutlivesThread
<1>1. Inv => NoEventOutlivesThread
  BY DEF Inv
<1>2. QED
  BY <1>1, Invariance, PTL

\* SeenKept: what a client has received of a turn is in the trace as long as the
\* thread is, under every failure of the model.
THEOREM SeenKept == Spec => []SeenIsStored
<1>1. Inv => SeenIsStored
  <2> SUFFICES ASSUME Inv, NEW u \in Turns, turn[u].pc # "new",
                      thread[turn[u].thread] = "live",
                      NEW i \in 0 .. turn[u].seen - 1
               PROVE  \E e \in RowsOf(turn[u].thread, u) : e.seq = i
    BY DEF SeenIsStored
  <2>1. Bound(u)
    BY DEF Bound, Live
  <2>2. HasRow(TurnRows(u), i)
    BY <2>1, InvTurn DEF TurnOK, RowsOK
  <2>3. \A e \in TurnRows(u) : e.thread = turn[u].thread
    BY InvTurn DEF TurnOK, RowsOK, EventOK
  <2>4. QED
    BY <2>2, <2>3 DEF HasRow, TurnRows, RowsOf
<1>2. QED
  BY <1>1, Invariance, PTL

-----------------------------------------------------------------------------
(* The trace implements ThreadLog *)

\* A row of a turn that is bound to thread t is in its log there.
LEMMA LogOfTurn ==
    ASSUME Inv, NEW t \in Threads, NEW u \in Turns
    PROVE  /\ Log[t][u] = {<<e.seq, e.type>> : e \in RowsOf(t, u)}
           /\ turn[u].thread = t => RowsOf(t, u) = TurnRows(u)
           /\ turn[u].thread # t => Log[t][u] = {}
<1>1. Log[t][u] = {<<e.seq, e.type>> : e \in RowsOf(t, u)}
  BY DEF Log
<1>2. \A e \in TurnRows(u) : e.thread = turn[u].thread
  BY InvTurn DEF TurnOK, RowsOK, EventOK
<1>3. RowsOf(t, u) = {e \in TurnRows(u) : e.thread = t}
  BY DEF RowsOf, TurnRows
<1>4. QED
  BY <1>1, <1>2, <1>3

\* Inv makes every log well formed.
LEMMA LogWellFormed ==
    ASSUME Inv, NEW t \in Threads, NEW u \in Turns
    PROVE  Trace!WellFormed(Log[t][u])
<1> DEFINE s == RowsOf(t, u)
<1>1. Log[t][u] = {<<e.seq, e.type>> : e \in s}
  BY LogOfTurn
<1>2. s \subseteq TurnRows(u) /\ s \subseteq Event
  BY InvTurn DEF RowsOf, TurnRows
<1>3. \A e \in s : EventOK(e, u, turn[u])
  BY <1>2, InvTurn DEF TurnOK, RowsOK
<1>4. \A d, e \in s : d.seq = e.seq => d = e
  BY <1>2, InvTurn DEF TurnOK, RowsOK
<1>5. ASSUME NEW e \in s, NEW i \in 0 .. e.seq
      PROVE  \E d \in s : d.seq = i
  <2>1. PICK d \in TurnRows(u) : d.seq = i
    BY <1>2, <1>5, InvTurn DEF TurnOK, RowsOK, HasRow
  <2>2. turn[u].thread = t
    BY <1>3, <1>5 DEF EventOK, RowsOf
  <2>3. QED
    BY <2>1, <2>2, LogOfTurn
<1> HIDE DEF s
<1>6. \A x \in Log[t][u] : \E e \in s : x = <<e.seq, e.type>> /\ x[1] = e.seq /\ x[2] = e.type
  BY <1>1
<1>7. ASSUME NEW e \in s
      PROVE  \E x \in Log[t][u] : x[1] = e.seq /\ x[2] = e.type
  <2>1. <<e.seq, e.type>> \in Log[t][u]
    BY <1>1
  <2>2. <<e.seq, e.type>>[1] = e.seq /\ <<e.seq, e.type>>[2] = e.type
    OBVIOUS
  <2>3. QED
    BY <2>1, <2>2
<1>8. Trace!Numbered(Log[t][u])
  BY <1>4, <1>6 DEF Trace!Numbered
<1>9. Trace!NoGaps(Log[t][u])
  <2> SUFFICES ASSUME NEW x \in Log[t][u], NEW i \in 0 .. x[1]
               PROVE  \E y \in Log[t][u] : y[1] = i
    BY DEF Trace!NoGaps
  <2>1. PICK e \in s : x[1] = e.seq
    BY <1>6
  <2>2. PICK d \in s : d.seq = i
    BY <1>5, <2>1
  <2>3. QED
    BY <1>7, <2>2
<1>10. Trace!Opened(Log[t][u])
  <2>1. turn[u] \in Turn /\ StepOK(turn[u])
    BY InvTurn DEF TurnOK
  <2>2. Leads(turn[u]) \in Nat \ {0} /\ (turn[u].kind # "resume" => Leads(turn[u]) = 1)
    BY <2>1, LeadsNat DEF Leads
  <2>3. \A e \in s : e.seq \in Nat /\ (e.type \in Leading <=> e.seq < Leads(turn[u]))
    BY <1>2, <1>3, EventFields DEF EventOK
  <2>4. ASSUME NEW x \in Log[t][u], x[1] = 0
        PROVE  x[2] \in Trace!Leading
    BY <1>6, <2>2, <2>3, <2>4 DEF Leading, Trace!Leading
  <2>5. ASSUME NEW x \in Log[t][u], NEW y \in Log[t][u], x[2] \in Trace!Leading, y[1] < x[1]
        PROVE  x[2] = "hitl_decision" /\ y[2] = "hitl_decision"
    <3>1. PICK e \in s : x[1] = e.seq /\ x[2] = e.type
      BY <1>6
    <3>2. PICK d \in s : y[1] = d.seq /\ y[2] = d.type
      BY <1>6
    <3>3. d.seq < e.seq /\ e.seq < Leads(turn[u]) /\ d.seq \in Nat /\ e.seq \in Nat
      BY <2>3, <2>5, <3>1, <3>2 DEF Leading, Trace!Leading
    <3>4. turn[u].kind = "resume" /\ d.type \in Leading /\ e.type \in Leading
      BY <2>2, <2>3, <3>3
    <3>5. QED
      BY <1>3, <3>1, <3>2, <3>4 DEF EventOK
  <2>6. QED
    BY <2>4, <2>5 DEF Trace!Opened
<1>11. \A x \in Log[t][u], y \in Log[t][u] : x[2] = "ai_message" => y[1] <= x[1]
  <2> SUFFICES ASSUME NEW x \in Log[t][u], NEW y \in Log[t][u], x[2] = "ai_message"
               PROVE  y[1] <= x[1]
    OBVIOUS
  <2>1. PICK d \in s : x[1] = d.seq /\ x[2] = d.type
    BY <1>6
  <2>2. PICK e \in s : y[1] = e.seq
    BY <1>6
  <2>3. d.seq + 1 = turn[u].seq /\ e.seq < turn[u].seq /\ d.seq \in Nat /\ e.seq \in Nat
    BY <1>2, <1>3, <2>1, <2>2, EventFields DEF EventOK
  <2>4. QED
    BY <2>1, <2>2, <2>3
<1>12. QED
  BY <1>8, <1>9, <1>10, <1>11 DEF Trace!WellFormed

LEMMA LogsWellFormed == Inv => \A t \in Threads, u \in Turns : Trace!WellFormed(Log[t][u])
BY LogWellFormed

\* The same after a step.
LEMMA LogsStayWellFormed ==
    Inv' => \A t \in Threads, u \in Turns : Trace!WellFormed(Log'[t][u])
<1>1. Inv' => (\A t \in Threads, u \in Turns : Trace!WellFormed(Log[t][u]))'
  BY LogsWellFormed, PTL
<1>2. (\A t \in Threads, u \in Turns : Trace!WellFormed(Log[t][u]))' =>
        \A t \in Threads, u \in Turns : Trace!WellFormed(Log'[t][u])
  BY DEF Trace!WellFormed, Trace!Numbered, Trace!NoGaps, Trace!Opened
<1>3. QED
  BY <1>1, <1>2

\* The log does not change when the rows do not.
LEMMA SameLog == UNCHANGED rows => UNCHANGED Log
BY DEF Log, RowsOf

\* Two logs that differ in one entry.
LEMMA OneEntry ==
    ASSUME NEW L, NEW M, NEW t \in Threads, NEW u \in Turns,
           L = [x \in Threads |-> [v \in Turns |-> L[x][v]]],
           M = [x \in Threads |-> [v \in Turns |-> M[x][v]]],
           \A x \in Threads, v \in Turns : ~(x = t /\ v = u) => M[x][v] = L[x][v]
    PROVE  M = [L EXCEPT ![t][u] = M[t][u]]
<1> DEFINE N == [L EXCEPT ![t][u] = M[t][u]]
<1>1. N = [x \in Threads |-> IF x = t THEN [L[t] EXCEPT ![u] = M[t][u]] ELSE L[x]]
  OBVIOUS
<1>2. [L[t] EXCEPT ![u] = M[t][u]] = [v \in Turns |-> M[t][v]]
  OBVIOUS
<1>3. \A x \in Threads \ {t} : L[x] = M[x]
  <2> SUFFICES ASSUME NEW x \in Threads \ {t} PROVE L[x] = M[x]
    OBVIOUS
  <2>1. L[x] = [v \in Turns |-> L[x][v]] /\ M[x] = [v \in Turns |-> M[x][v]]
    OBVIOUS
  <2>2. \A v \in Turns : L[x][v] = M[x][v]
    OBVIOUS
  <2>3. QED
    BY <2>1, <2>2
<1>4. M[t] = [v \in Turns |-> M[t][v]]
  OBVIOUS
<1>5. M = [x \in Threads |-> M[x]]
  OBVIOUS
<1> HIDE DEF N
<1>6. N = M
  BY <1>1, <1>2, <1>3, <1>4, <1>5
<1>7. QED
  BY <1>6 DEF N

\* Rows of turn u added in its live thread are a Record of ThreadLog.
LEMMA AddedIsRecord ==
    ASSUME Inv, Inv', NEW u \in Turns, turn[u].pc = "insert", CanInsert(u),
           rows' = Stored(u), UNCHANGED thread
    PROVE  \E t \in Threads : Trace!Record(t, u)
<1>1. PICK t \in Threads : turn[u].thread = t /\ thread[t] = "live"
  BY InvTurn DEF CanInsert, TurnOK, StepOK
<1>2. \A e \in rows' \ rows : e.turn = u /\ e.thread = t
  BY <1>1, StoredRows
<1>3. rows \subseteq rows'
  BY DEF Stored
<1>4. \A x \in Threads, v \in Turns : ~(x = t /\ v = u) => Log'[x][v] = Log[x][v]
  <2> SUFFICES ASSUME NEW x \in Threads, NEW v \in Turns, ~(x = t /\ v = u)
               PROVE  Log'[x][v] = Log[x][v]
    OBVIOUS
  <2>1. RowsOf(x, v)' = RowsOf(x, v)
    BY <1>2, <1>3 DEF RowsOf
  <2>2. QED
    BY <2>1 DEF Log
<1>5. Log[t][u] \subseteq Log'[t][u]
  BY <1>1, <1>3 DEF Log, RowsOf
<1>6. \A x \in Threads \ {t} : Log[x][u] = {}
  BY <1>1, LogOfTurn
<1>7. Trace!WellFormed(Log'[t][u])
  BY <1>1, LogsStayWellFormed
<1>8. Log' = [Log EXCEPT ![t][u] = Log'[t][u]]
  <2>1. Log = [x \in Threads |-> [v \in Turns |-> Log[x][v]]]
    BY DEF Log
  <2>2. Log' = [x \in Threads |-> [v \in Turns |-> Log'[x][v]]]
    BY DEF Log
  <2>3. QED
    BY <1>4, <2>1, <2>2, OneEntry
<1>9. Trace!Record(t, u)
  BY <1>1, <1>5, <1>6, <1>7, <1>8, Zenon DEF Trace!Record
<1>10. QED
  BY <1>1, <1>9

\* A thread that is deleted takes its log along.
LEMMA DeleteIsErase ==
    ASSUME Inv, NEW t \in Threads, DeleteThread(t)
    PROVE  Trace!Erase(t)
<1>1. /\ thread[t] = "live" /\ thread' = [thread EXCEPT ![t] = "gone"]
      /\ rows' = {e \in rows : e.thread # t}
  BY DEF DeleteThread
<1>2. ASSUME NEW x \in Threads, NEW v \in Turns
      PROVE  Log'[x][v] = IF x = t THEN {} ELSE Log[x][v]
  <2>1. RowsOf(x, v)' = IF x = t THEN {} ELSE RowsOf(x, v)
    BY <1>1 DEF RowsOf
  <2>2. QED
    BY <2>1 DEF Log
<1>3. Log' = [Log EXCEPT ![t] = [v \in Turns |-> {}]]
  <2>1. Log' = [x \in Threads |-> [v \in Turns |-> Log'[x][v]]]
    BY DEF Log
  <2>2. Log = [x \in Threads |-> [v \in Turns |-> Log[x][v]]]
    BY DEF Log
  <2>3. \A x \in Threads :
          [v \in Turns |-> Log'[x][v]] =
            IF x = t THEN [v \in Turns |-> {}] ELSE [v \in Turns |-> Log[x][v]]
    BY <1>2
  <2>4. \A x \in Threads : Log'[x] = IF x = t THEN [v \in Turns |-> {}] ELSE Log[x]
    BY <2>1, <2>2, <2>3
  <2>5. Log' = [x \in Threads |-> Log'[x]] /\ Log = [x \in Threads |-> Log[x]]
    BY <2>1, <2>2
  <2>6. QED
    BY <2>4, <2>5
<1>4. QED
  BY <1>1, <1>3 DEF Trace!Erase

\* Steps of a turn that store nothing are stutters of ThreadLog.
LEMMA TurnStep ==
    ASSUME NEW u \in Turns, ServerStep(u) \/ GraphStep(u) \/ Deliver(u) \/ Disconnect(u)
    PROVE  \/ UNCHANGED <<thread, rows>>
           \/ turn[u].pc = "insert" /\ CanInsert(u) /\ rows' = Stored(u) /\ UNCHANGED thread
<1>1. CASE \/ GetThread(u) \/ GetRunner(u) \/ RunnerMissing(u) \/ PrepareResume(u)
           \/ LoadCheckpoint(u) \/ IdleTimeout(u) \/ ReadValues(u) \/ ReadStatus(u)
           \/ CheckThread(u) \/ CallRaises(u) \/ Decide(u)
  BY <1>1 DEF GetThread, GetRunner, RunnerMissing, PrepareResume, Decide, LoadCheckpoint,
              IdleTimeout, ReadValues, ReadStatus, CheckThread, CallRaises
<1>2. CASE Insert(u) \/ AckLost(u)
  BY <1>2 DEF Insert, AckLost
<1>3. CASE GraphStep(u)
  BY <1>3 DEF GraphStep, ContentChunk, CallTools, ToolResult, SubagentResult, Answer,
              GraphRaises
<1>4. CASE Deliver(u) \/ Disconnect(u)
  BY <1>4 DEF Deliver, Disconnect
<1>5. QED
  BY <1>1, <1>2, <1>3, <1>4 DEF ServerStep

\* ImplementsThreadLog: the trace keeps what ThreadLog promises its readers.
THEOREM ImplementsThreadLog == Spec => LogIsKept
<1>1. Init => Trace!Init
  <2> SUFFICES ASSUME Init PROVE Trace!Init
    OBVIOUS
  <2>1. \A t \in Threads, u \in Turns : {<<e.seq, e.type>> : e \in RowsOf(t, u)} = {}
    BY DEF Init, RowsOf
  <2>2. Log = [t \in Threads |-> [u \in Turns |-> {}]]
    BY <2>1 DEF Log
  <2>3. QED
    BY <2>2 DEF Init, Trace!Init
<1>2. Inv /\ Inv' /\ [Next]_vars => [Trace!Next]_(Trace!vars)
  <2> SUFFICES ASSUME Inv, Inv', [Next]_vars PROVE [Trace!Next]_(Trace!vars)
    OBVIOUS
  <2>1. ASSUME UNCHANGED <<thread, rows>>
        PROVE  [Trace!Next]_(Trace!vars)
    BY <2>1, SameLog DEF Trace!vars
  <2>2. ASSUME NEW t \in Threads, CreateThread(t)
        PROVE  Trace!Next
    <3>1. Trace!Open(t)
      BY <2>2, SameLog DEF CreateThread, Trace!Open
    <3>2. QED
      BY <3>1 DEF Trace!Next
  <2>3. ASSUME NEW t \in Threads, DeleteThread(t)
        PROVE  Trace!Next
    BY <2>3, DeleteIsErase DEF Trace!Next
  <2>4. ASSUME NEW u \in Turns, ServerStep(u) \/ GraphStep(u) \/ Deliver(u) \/ Disconnect(u)
        PROVE  [Trace!Next]_(Trace!vars)
    <3>1. CASE UNCHANGED <<thread, rows>>
      BY <2>1, <3>1
    <3>2. CASE /\ turn[u].pc = "insert" /\ CanInsert(u) /\ rows' = Stored(u)
               /\ UNCHANGED thread
      BY <3>2, AddedIsRecord DEF Trace!Next
    <3>3. QED
      BY <2>4, <3>1, <3>2, TurnStep
  <2>5. CASE \E u \in Turns, t \in Threads : Start(u, t)
    BY <2>1, <2>5 DEF Start
  <2>6. CASE Restart \/ UNCHANGED vars
    BY <2>1, <2>6 DEF Restart, vars
  <2>7. QED
    BY <2>2, <2>3, <2>4, <2>5, <2>6 DEF Next
<1>3. QED
  BY <1>1, <1>2, Invariance, PTL DEF Spec, LogIsKept, Trace!Spec

=============================================================================
