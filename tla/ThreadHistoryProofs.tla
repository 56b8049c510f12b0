-------------------------- MODULE ThreadHistoryProofs --------------------------
(***************************************************************************)
(* Theorems about ThreadHistory for every set of threads and turns and     *)
(* every MaxChunks, when clients wait for their turn (~Overlap): the       *)
(* answer that a turn stores is its own, a resume that ends well had its   *)
(* decisions applied, the last event of a thread asks for a decision       *)
(* exactly when the agent waits for one, the messages of a thread are      *)
(* those of its history, and the history shows what the agent remembers.   *)
(*                                                                         *)
(* Six invariants are laid on the one of ConversationProofs: OwnInv (the   *)
(* checkpoint, seen from the turn at work on it), TimeInv (the order of    *)
(* the events of two turns), ToldInv (what the trace says of the pending   *)
(* interrupt), SaidInv (what the events of a turn say and how they are     *)
(* numbered), ApartInv (the events of two turns do not interleave) and     *)
(* ListInv (the messages of the checkpoint, event by event).  Calls may    *)
(* fail and the process may die.                                           *)
(***************************************************************************)
EXTENDS ThreadHistory, ConversationProofs, SequencesExt, FiniteSetTheorems

\* m is an answer of the agent, made in turn u.
Own(m, u) == m.role \in {"ai", "call"} /\ m.turn = u

\* The events in the hands of turn u, and all that it has made and are left.
Buffered(u) == {turn[u].buf[i] : i \in 1 .. Len(turn[u].buf)}

Made(u) == TurnRows(u) \cup Buffered(u)

Storing == StoreSteps \cup {"deliver"}

\* The turn of record r hands on events, the last of which has one of the types.
Handing(r, types) == r.pc \in Storing /\ Last(r.buf).type \in types

\* The graph of r is running, and it has answered.
Running(r) == r.pc = "run" \/ Handing(r, Intermediate)

Answered(r) == r.pc \in {"values", "status"} \/ Handing(r, {"ai_message"})

\* While the graph runs its messages are those of the checkpoint m; when it has
\* answered they end in its answer, and m waits for a decision when that is a
\* call.
RunOK(r, u, m) ==
    /\ Running(r) => r.local = m.msgs
    /\ Answered(r) =>
         /\ m.msgs # <<>>
         /\ Own(Last(m.msgs), u)
         /\ m.pending = IF Last(m.msgs).role = "call" THEN u ELSE None
    /\ r.pc = "status" => r.answer = Last(m.msgs)
    /\ Handing(r, {"ai_message"}) => (Last(r.buf).awaiting <=> m.pending # None)

\* A resume whose decisions were checked finds the interrupt they are for.
ResumeOK(r, u, m) ==
    r.kind = "resume" =>
        /\ r.target # u
        /\ r.pc \in {"decide", "load"} => m.pending = r.target
        /\ r.pc \in Storing => Last(r.buf).type = "ai_message"
        /\ r.pc \in {"run", "values", "status", "done"} \cup Storing =>
             r.applied = r.target

EventSays(e) ==
    /\ e.type = "ai_message" => Own(e.says, e.turn)
    /\ e.awaiting => e.type = "ai_message"

\* A thread has at most one turn at work.
Alone ==
    \A u, v \in Turns : Active(u) /\ Active(v) /\ turn[u].thread = turn[v].thread => u = v

OwnTurn(u) ==
    /\ \A e \in Made(u) : EventSays(e)
    /\ turn[u].pc # "new" =>
         /\ RunOK(turn[u], u, memory[turn[u].thread])
         /\ ResumeOK(turn[u], u, memory[turn[u].thread])

OwnInv == Alone /\ \A u \in Turns : OwnTurn(u)

-----------------------------------------------------------------------------
(* Lemmas about records *)

LEMMA LastAppended ==
    ASSUME NEW S, NEW s \in Seq(S), NEW e \in S
    PROVE  Append(s, e) # <<>> /\ Last(Append(s, e)) = e
BY DEF Last

\* A turn that has ended looks at no checkpoint.
LEMMA EndedOwn ==
    ASSUME NEW r, NEW u, NEW m, NEW k, r.pc \in Ends, ResumeOK(r, u, m)
    PROVE  RunOK(r, u, k) /\ ResumeOK(r, u, k)
<1>1. r.pc \notin Storing \cup {"run", "values", "status", "load", "decide"}
  BY DEF Ends, Storing, StoreSteps
<1>2. RunOK(r, u, k)
  BY <1>1 DEF RunOK, Running, Answered, Handing
<1>3. ResumeOK(r, u, k)
  BY <1>1 DEF ResumeOK
<1>4. QED
  BY <1>2, <1>3

\* Ending a turn badly.
LEMMA CutOwn ==
    ASSUME NEW r \in Turn, NEW u, NEW m, NEW how \in {"failed", "cut"}, ResumeOK(r, u, m)
    PROVE  /\ Ended(r, how) \in Turn /\ Ended(r, how).buf = <<>> /\ Ended(r, how).pc = how
           /\ Ended(r, how).thread = r.thread
           /\ RunOK(Ended(r, how), u, m) /\ ResumeOK(Ended(r, how), u, m)
<1> DEFINE n == Ended(r, how)
<1>1. n \in Turn
  BY EndedType DEF Ends
<1>2. n.buf = <<>> /\ n.pc = how /\ n.thread = r.thread /\ n.kind = r.kind /\ n.target = r.target
  BY DEF Ended, Turn
<1> HIDE DEF n
<1>3. n.pc \in Ends /\ n.pc \notin Storing \cup {"run", "values", "status", "load", "decide", "done"}
  BY <1>2 DEF Ends, Storing, StoreSteps
<1>4. ResumeOK(n, u, m)
  BY <1>2, <1>3 DEF ResumeOK
<1>5. RunOK(n, u, m)
  BY <1>3, <1>4, EndedOwn
<1>6. QED
  BY <1>1, <1>2, <1>4, <1>5 DEF n

\* Two records that differ in their step, which is of the same stage.
LEMMA MovedOwn ==
    ASSUME NEW r \in Turn, NEW u, NEW m, NEW step, RunOK(r, u, m), ResumeOK(r, u, m),
           \/ r.pc \in {"route", "get", "runner"} /\ step \in {"get", "runner", "prepare"}
           \/ r.pc \in Storing /\ step \in Storing
    PROVE  RunOK([r EXCEPT !.pc = step], u, m) /\ ResumeOK([r EXCEPT !.pc = step], u, m)
<1> DEFINE n == [r EXCEPT !.pc = step]
<1>1. /\ n.pc = step /\ n.buf = r.buf /\ n.local = r.local /\ n.kind = r.kind
      /\ n.target = r.target /\ n.applied = r.applied /\ n.answer = r.answer
  BY DEF Turn
<1> HIDE DEF n
<1>2. CASE r.pc \in {"route", "get", "runner"} /\ step \in {"get", "runner", "prepare"}
  BY <1>1, <1>2 DEF RunOK, ResumeOK, Running, Answered, Handing, Storing, StoreSteps, n
<1>3. CASE r.pc \in Storing /\ step \in Storing
  <2>1. n.pc \notin {"run", "values", "status", "load", "decide", "done"}
    BY <1>1, <1>3 DEF Storing, StoreSteps
  <2>2. \A types : Handing(n, types) <=> Handing(r, types)
    BY <1>1, <1>3 DEF Handing
  <2>3. RunOK(n, u, m)
    BY <1>1, <2>1, <2>2 DEF RunOK, Running, Answered
  <2>4. ResumeOK(n, u, m)
    BY <1>1, <1>3, <2>1 DEF ResumeOK
  <2>5. QED
    BY <2>3, <2>4 DEF n
<1>4. QED
  BY <1>2, <1>3

-----------------------------------------------------------------------------
(* What any step of a turn does *)

\* The events of a record.
In(buf) == {buf[i] : i \in 1 .. Len(buf)}

\* Turn u, which is at work, becomes the record n: it makes at most one event,
\* stores none but its own, and adds at most one message of its own to the
\* checkpoint of its thread.
Becomes(u, n) ==
    LET r == turn[u]
        t == r.thread
    IN  /\ Active(u)
        /\ n \in Turn
        /\ turn' = [turn EXCEPT ![u] = n]
        /\ n.thread = t /\ n.pc \in Steps \cup Ends
        /\ UNCHANGED <<thread, clock>>
        /\ rows \subseteq rows' /\ rows' \subseteq rows \cup In(r.buf)
        /\ \/ In(n.buf) \subseteq In(r.buf)
           \/ /\ r.pc \notin Late
              /\ \E e : e.time = clock /\ EventSays(e) /\ In(n.buf) \subseteq In(r.buf) \cup {e}
        /\ \/ UNCHANGED memory
           \/ \E m \in Message : \E p :
                /\ m.turn = u
                /\ memory' = [memory EXCEPT ![t] = [msgs |-> Append(memory[t].msgs, m),
                                                    pending |-> p]]
        /\ n.pc = "done" =>
             /\ r.pc = "deliver" /\ Last(r.buf).type = "ai_message"
             /\ UNCHANGED <<rows, memory>>
        /\ RunOK(n, u, memory'[t])
        /\ ResumeOK(n, u, memory'[t])

\* What OwnInv says of one turn.
LEMMA OwnFacts ==
    ASSUME Inv, OwnInv, NEW u \in Turns, Active(u)
    PROVE  /\ turn[u] \in Turn /\ turn[u].pc # "new" /\ turn[u].thread \in Threads
           /\ RunOK(turn[u], u, memory[turn[u].thread])
           /\ ResumeOK(turn[u], u, memory[turn[u].thread])
           /\ \A e \in Buffered(u) : EventSays(e)
           /\ memory[turn[u].thread].msgs \in Seq(Message)
           /\ memory[turn[u].thread].pending \in Turns \cup {None}
<1>1. turn[u] \in Turn /\ turn[u].pc # "new"
  BY InvTurn DEF Active, Steps, StoreSteps, RunSteps
<1>2. turn[u].thread \in Threads
  BY <1>1, InvTurn DEF TurnOK, StepOK
<1>3. OwnTurn(u)
  BY DEF OwnInv
<1>4. QED
  BY <1>1, <1>2, <1>3, MemoryFields DEF OwnTurn, Made

\* The buffered events of a turn are events of it.
LEMMA BufferedOwn ==
    ASSUME Inv, NEW u \in Turns, NEW e \in Buffered(u)
    PROVE  e \in Event /\ e.turn = u /\ e.thread = turn[u].thread /\ EventOK(e, u, turn[u])
<1>1. PICK i \in 1 .. Len(turn[u].buf) : e = turn[u].buf[i]
  BY DEF Buffered
<1>2. QED
  BY <1>1, InvTurn, TurnFields DEF TurnOK, BufferOK, EventOK

\* The other turns of the thread are not at work, and nothing else that they
\* look at changes.
LEMMA BecomesOwn ==
    ASSUME Inv, OwnInv, NEW u \in Turns, NEW n, Becomes(u, n)
    PROVE  OwnInv'
<1> DEFINE t == turn[u].thread
<1>1. /\ turn \in [Turns -> Turn] /\ memory \in [Threads -> Memory]
      /\ turn[u] \in Turn /\ t \in Threads /\ turn[u].pc # "new"
  BY OwnFacts DEF Inv, TypeOK, Becomes
<1>2. /\ turn'[u] = n /\ \A v \in Turns \ {u} : turn'[v] = turn[v]
  BY <1>1 DEF Becomes
<1>3. n.thread = t /\ \A x \in Threads \ {t} : memory'[x] = memory[x]
  BY <1>1 DEF Becomes
<1>4. \A v \in Turns : Active(v)' => Active(v)
  BY <1>2 DEF Active, Becomes
<1>5. \A v \in Turns : turn'[v].thread = turn[v].thread
  BY <1>2, <1>3
<1>6. Alone'
  BY <1>4, <1>5 DEF OwnInv, Alone
<1>7. Buffered(u) = In(turn[u].buf) /\ Buffered(u)' = In(n.buf)
  BY <1>2 DEF Buffered, In
<1>8. \A e \in Buffered(u) : EventSays(e) /\ e.turn = u
  BY BufferedOwn DEF OwnInv, OwnTurn, Made
<1>9. \A v \in Turns : \A e \in TurnRows(v) : EventSays(e)
  BY DEF OwnInv, OwnTurn, Made
<1>10. ASSUME NEW v \in Turns, NEW e \in Made(v)'
       PROVE  EventSays(e)
  <2>1. CASE e \in TurnRows(v)'
    <3>1. e \in TurnRows(v) \/ e \in Buffered(u)
      BY <2>1, <1>7 DEF TurnRows, Becomes
    <3>2. QED
      BY <3>1, <1>8, <1>9
  <2>2. CASE e \in Buffered(v)' /\ v = u
    BY <2>2, <1>7, <1>8 DEF Becomes
  <2>3. CASE e \in Buffered(v)' /\ v # u
    <3>1. e \in Buffered(v)
      BY <2>3, <1>2 DEF Buffered
    <3>2. QED
      BY <3>1 DEF OwnInv, OwnTurn, Made
  <2>4. QED
    BY <1>10, <2>1, <2>2, <2>3 DEF Made
<1>11. ASSUME NEW v \in Turns, turn'[v].pc # "new"
       PROVE  /\ RunOK(turn'[v], v, memory'[turn'[v].thread])
              /\ ResumeOK(turn'[v], v, memory'[turn'[v].thread])
  <2>1. CASE v = u
    BY <2>1, <1>2, <1>3 DEF Becomes
  <2>2. CASE v # u
    <3> DEFINE r == turn[v]
    <3>1. /\ turn'[v] = r /\ r \in Turn /\ r.pc # "new" /\ r.thread \in Threads
          /\ TurnOK(r, v, TurnRows(v), Bound(v))
      BY <1>1, <1>2, <2>2, <1>11, InvTurn DEF TurnOK, StepOK
    <3>2. RunOK(r, v, memory[r.thread]) /\ ResumeOK(r, v, memory[r.thread])
      BY <3>1 DEF OwnInv, OwnTurn
    <3>3. CASE r.thread # t
      BY <3>1, <3>2, <3>3, <1>3
    <3>4. CASE r.thread = t
      <4>1. ~Active(v)
        BY <2>2, <3>4 DEF OwnInv, Alone, Becomes
      <4>2. r.pc \in Ends
        BY <4>1, <3>1, TurnFields DEF Active
      <4>3. QED
        BY <3>1, <3>2, <4>2, EndedOwn
    <3>5. QED
      BY <3>3, <3>4
  <2>3. QED
    BY <2>1, <2>2
<1>12. \A v \in Turns : OwnTurn(v)'
  <2> SUFFICES ASSUME NEW v \in Turns PROVE OwnTurn(v)'
    OBVIOUS
  <2>1. \A e \in Made(v)' : EventSays(e)
    BY <1>10
  <2>2. QED
    BY <2>1, <1>11 DEF OwnTurn, EventSays, Own
<1>13. QED
  BY <1>6, <1>12 DEF OwnInv

-----------------------------------------------------------------------------
(* The actions of a turn, one lemma for each group *)

\* A turn ends badly.
LEMMA EndBecomes ==
    ASSUME Inv, OwnInv, NEW u \in Turns, NEW how \in {"failed", "cut"},
           Active(u), End(u, how), UNCHANGED <<thread, memory, clock>>,
           rows \subseteq rows', rows' \subseteq rows \cup In(turn[u].buf)
    PROVE  \E n : Becomes(u, n)
<1> DEFINE n == Ended(turn[u], how)
<1>1. turn' = [turn EXCEPT ![u] = n]
  BY DEF End, Ended
<1>2. /\ n \in Turn /\ n.buf = <<>> /\ n.pc = how /\ n.thread = turn[u].thread
      /\ RunOK(n, u, memory[turn[u].thread]) /\ ResumeOK(n, u, memory[turn[u].thread])
  BY OwnFacts, CutOwn
<1> HIDE DEF n
<1>3. In(n.buf) \subseteq In(turn[u].buf)
  BY <1>2 DEF In
<1>4. n.pc \in Steps \cup Ends /\ n.pc # "done"
  BY <1>2 DEF Ends
<1>5. Becomes(u, n)
  BY <1>1, <1>2, <1>3, <1>4 DEF Becomes
<1>6. QED
  BY <1>5

\* A turn goes on to a step of the same stage.
LEMMA GotoBecomes ==
    ASSUME Inv, OwnInv, NEW u \in Turns, NEW step \in Steps, Goto(u, step),
           \/ turn[u].pc \in {"route", "get", "runner"} /\ step \in {"get", "runner", "prepare"}
           \/ turn[u].pc \in Storing /\ step \in Storing,
           UNCHANGED <<thread, memory, clock>>,
           rows \subseteq rows', rows' \subseteq rows \cup In(turn[u].buf)
    PROVE  \E n : Becomes(u, n)
<1> DEFINE n == [turn[u] EXCEPT !.pc = step]
<1>1. turn' = [turn EXCEPT ![u] = n]
  BY DEF Goto
<1>2. Active(u)
  BY DEF Active, Steps, Storing, StoreSteps
<1>3. turn[u] \in Turn
  BY <1>2, OwnFacts
<1>4. n \in Turn /\ n.buf = turn[u].buf /\ n.pc = step /\ n.thread = turn[u].thread
  BY <1>3 DEF Turn
<1>5. RunOK(n, u, memory[turn[u].thread]) /\ ResumeOK(n, u, memory[turn[u].thread])
  BY <1>2, <1>3, OwnFacts, MovedOwn
<1> HIDE DEF n
<1>6. n.pc # "done"
  BY <1>4 DEF Steps, StoreSteps, RunSteps
<1>7. Becomes(u, n)
  BY <1>1, <1>2, <1>4, <1>5, <1>6 DEF Becomes
<1>8. QED
  BY <1>7

\* The record n that r becomes when it makes an event.
Emitted(u, r, n, type, awaiting) ==
    /\ n.buf # <<>> /\ Last(n.buf).type = type /\ Last(n.buf).awaiting = awaiting
    /\ n.pc = IF Streamed(u) \/ type = "ai_message" THEN "check" ELSE AfterEvent(r, r.seq, type)
    /\ SameRequest(r, n) /\ n.local = r.local /\ n.answer = r.answer
    /\ n.applied = r.applied

\* A turn makes an event e, whatever else the step does to its messages.
LEMMA EmitBecomes ==
    ASSUME Inv, OwnInv, NEW u \in Turns, NEW r \in Turn, NEW type \in EventTypes,
           NEW says \in Message \cup {NoMessage}, NEW awaiting \in BOOLEAN,
           Emit(u, r, type, says, awaiting), SameTrace(turn[u], r),
           turn[u].pc \in {"runner", "decide", "run", "status"},
           UNCHANGED <<thread, rows, clock>>,
           type = "ai_message" => Own(says, u), awaiting => type = "ai_message",
           \/ UNCHANGED memory
           \/ \E m \in Message : \E p :
                /\ m.turn = u
                /\ memory' = [memory EXCEPT ![turn[u].thread] =
                     [msgs |-> Append(memory[turn[u].thread].msgs, m), pending |-> p]],
           \A n \in Turn :
             Emitted(u, r, n, type, awaiting) =>
                /\ RunOK(n, u, memory'[turn[u].thread])
                /\ ResumeOK(n, u, memory'[turn[u].thread])
    PROVE  \E n : Becomes(u, n)
<1> DEFINE e == [thread |-> r.thread, turn |-> u, seq |-> r.seq, type |-> type,
                 time |-> clock, says |-> says, awaiting |-> awaiting]
           next == IF Streamed(u) \/ type = "ai_message"
                   THEN "check" ELSE AfterEvent(r, r.seq, type)
           n == [r EXCEPT !.buf = Append(@, e), !.seq = @ + 1, !.pc = next]
<1>1. turn' = [turn EXCEPT ![u] = n]
  BY DEF Emit
<1>2. Active(u) /\ turn[u].pc \notin Late /\ clock \in Nat
  BY DEF Active, Steps, RunSteps, Late, StoreSteps, Ends, Inv, TypeOK
<1>3. r.thread \in Threads /\ r.thread = turn[u].thread /\ r.buf = turn[u].buf
  BY <1>2, OwnFacts DEF SameTrace, SameRequest
<1>4. e \in Event
  BY <1>2, <1>3, TurnFields DEF Event
<1>5. next \in {"check", "load", "run", "decide"}
  BY DEF AfterEvent, EventTypes, Leading, Intermediate
<1>6. e.time = clock /\ e.type = type /\ e.awaiting = awaiting /\ e.says = says /\ e.turn = u
  OBVIOUS
<1> HIDE DEF e, next
<1>7. /\ n.buf = Append(r.buf, e) /\ n.pc = next /\ n.local = r.local /\ n.answer = r.answer
      /\ n.applied = r.applied /\ SameRequest(r, n)
  BY DEF Turn, SameRequest
<1>8. n \in Turn
  <2>1. Append(r.buf, e) \in Seq(Event) /\ r.seq + 1 \in Nat
    BY <1>4, TurnFields
  <2>2. next \in {"new"} \cup Steps \cup Ends
    BY <1>5 DEF Steps, StoreSteps, RunSteps
  <2>3. QED
    BY <2>1, <2>2 DEF Turn
<1> HIDE DEF n
<1>9. n.buf # <<>> /\ Last(n.buf) = e
  BY <1>4, <1>7, TurnFields, LastAppended
<1>10. RunOK(n, u, memory'[turn[u].thread]) /\ ResumeOK(n, u, memory'[turn[u].thread])
  BY <1>6, <1>7, <1>8, <1>9 DEF next, Emitted
<1>11. In(n.buf) \subseteq In(turn[u].buf) \cup {e}
  <2>1. Len(n.buf) = Len(r.buf) + 1 /\ n.buf[Len(r.buf) + 1] = e
        /\ \A i \in 1 .. Len(r.buf) : n.buf[i] = r.buf[i]
    BY <1>7, TurnFields
  <2>2. Len(r.buf) \in Nat
    BY TurnFields
  <2>3. ASSUME NEW x \in In(n.buf)
        PROVE  x \in In(r.buf) \cup {e}
    <3>1. PICK i \in 1 .. Len(n.buf) : x = n.buf[i]
      BY <2>3 DEF In
    <3>2. i = Len(r.buf) + 1 \/ i \in 1 .. Len(r.buf)
      BY <2>1, <2>2
    <3>3. QED
      BY <2>1, <3>1, <3>2 DEF In
  <2>4. QED
    BY <1>3, <2>3
<1>12. EventSays(e)
  BY <1>6 DEF EventSays
<1>13. n.thread = turn[u].thread /\ n.pc \in Steps \cup Ends /\ n.pc # "done"
  BY <1>3, <1>5, <1>7 DEF SameRequest, Steps, StoreSteps, RunSteps
<1>14. \E x : x.time = clock /\ EventSays(x) /\ In(n.buf) \subseteq In(turn[u].buf) \cup {x}
  BY <1>6, <1>11, <1>12
<1>15. UNCHANGED <<thread, clock>> /\ rows \subseteq rows' /\ rows' \subseteq rows \cup In(turn[u].buf)
  OBVIOUS
<1>16. Becomes(u, n)
  BY <1>1, <1>2, <1>8, <1>10, <1>13, <1>14, <1>15, Zenon DEF Becomes
<1>17. QED
  BY <1>16

\* The steps from the route to the graph run.
LEMMA PreparationBecomes ==
    ASSUME Inv, OwnInv, NEW u \in Turns,
           \/ GetThread(u) \/ GetRunner(u) \/ RunnerMissing(u)
           \/ PrepareResume(u) \/ Decide(u)
    PROVE  \E n : Becomes(u, n)
<1> DEFINE m == memory[turn[u].thread]
<1>1. /\ turn[u].pc \in {"route", "get", "runner", "prepare", "decide"}
      /\ UNCHANGED <<thread, rows, memory, clock>>
  BY DEF GetThread, GetRunner, RunnerMissing, PrepareResume, Decide
<1>2. Active(u)
  BY <1>1 DEF Active, Steps
<1>3. turn[u] \in Turn /\ RunOK(turn[u], u, m) /\ ResumeOK(turn[u], u, m)
  BY <1>2, OwnFacts
<1>4. rows \subseteq rows' /\ rows' \subseteq rows \cup In(turn[u].buf) /\ memory' = memory
  BY <1>1
<1>5. {"get", "runner", "prepare"} \subseteq Steps
  BY DEF Steps
<1>6. SameTrace(turn[u], turn[u])
  BY DEF SameTrace, SameRequest
<1>7. /\ {"human_message", "hitl_decision"} \subseteq EventTypes
      /\ \A r, i : /\ AfterEvent(r, i, "human_message") \in {"decide", "load"}
                  /\ AfterEvent(r, i, "hitl_decision") \in {"decide", "load"}
      /\ {"human_message", "hitl_decision"} \cap (Intermediate \cup {"ai_message"}) = {}
  BY DEF EventTypes, Leading, Intermediate, AfterEvent
<1>8. \A role \in {"human", "call"}, v \in Turns : [role |-> role, turn |-> v] \in Message
  BY DEF Message
<1>9. CASE GetThread(u) \/ RunnerMissing(u) \/ (PrepareResume(u) /\ m.pending # turn[u].target)
           \/ (GetRunner(u) /\ turn[u].kind = "resume")
  <2>1. CASE End(u, "failed")
    BY <1>1, <1>2, <1>4, <2>1, EndBecomes
  <2>2. CASE \E step \in {"get", "runner", "prepare"} :
               Goto(u, step) /\ turn[u].pc \in {"route", "get", "runner"}
    BY <1>1, <1>4, <1>5, <2>2, GotoBecomes
  <2>3. QED
    BY <1>9, <2>1, <2>2 DEF GetThread, GetRunner, RunnerMissing, PrepareResume
<1>13. ASSUME turn[u].kind = "resume", NEW n \in Turn, n.pc \in {"decide", "load"},
              n.kind = "resume", n.target = turn[u].target, m.pending = turn[u].target
       PROVE  RunOK(n, u, m) /\ ResumeOK(n, u, m)
  <2>1. n.pc \notin Storing
    BY <1>13 DEF Storing, StoreSteps
  <2>2. RunOK(n, u, m)
    BY <1>13, <2>1 DEF RunOK, Running, Answered, Handing
  <2>3. ResumeOK(n, u, m)
    BY <1>3, <1>13, <2>1 DEF ResumeOK
  <2>4. QED
    BY <2>2, <2>3
<1>10. CASE GetRunner(u) /\ turn[u].kind # "resume"
  <2>1. /\ Emit(u, turn[u], "human_message", [role |-> "human", turn |-> u], FALSE)
        /\ turn[u].pc = "runner"
    BY <1>10 DEF GetRunner
  <2>2. ASSUME NEW n \in Turn, Emitted(u, turn[u], n, "human_message", FALSE)
        PROVE  RunOK(n, u, memory'[turn[u].thread]) /\ ResumeOK(n, u, memory'[turn[u].thread])
    <3>1. /\ n.pc \in {"check", "load", "decide"} /\ n.kind # "resume"
          /\ Last(n.buf).type = "human_message"
      BY <1>7, <1>10, <2>2 DEF Emitted, SameRequest
    <3>2. QED
      BY <1>7, <3>1 DEF RunOK, ResumeOK, Running, Answered, Handing
  <2>3. "human_message" \in EventTypes /\ [role |-> "human", turn |-> u] \in Message \cup {NoMessage}
        /\ FALSE \in BOOLEAN
    BY <1>7, <1>8
  <2>4. QED
    BY <1>1, <1>3, <1>4, <1>6, <2>1, <2>2, <2>3, EmitBecomes
<1>11. CASE PrepareResume(u) /\ m.pending = turn[u].target
  <2> DEFINE n == [turn[u] EXCEPT !.pc = "decide"]
  <2>1. turn' = [turn EXCEPT ![u] = n] /\ turn[u].pc = "prepare"
    BY <1>11 DEF PrepareResume, Goto
  <2>2. turn[u].kind = "resume"
    BY <2>1, InvTurn DEF TurnOK, StepOK
  <2>3. /\ n \in Turn /\ n.pc = "decide" /\ n.kind = "resume" /\ n.target = turn[u].target
        /\ n.buf = turn[u].buf /\ n.thread = turn[u].thread
    BY <1>3, <2>2 DEF Turn, Steps
  <2> HIDE DEF n
  <2>4. RunOK(n, u, m) /\ ResumeOK(n, u, m)
    BY <1>11, <1>13, <2>2, <2>3
  <2>5. n.pc # "done" /\ n.pc \in Steps \cup Ends /\ In(n.buf) \subseteq In(turn[u].buf)
    BY <2>3 DEF Steps
  <2>6. Becomes(u, n)
    BY <1>1, <1>2, <1>4, <2>1, <2>3, <2>4, <2>5 DEF Becomes
  <2>7. QED
    BY <2>6
<1>14. CASE Decide(u)
  <2>1. /\ Emit(u, turn[u], "hitl_decision", [role |-> "call", turn |-> turn[u].target], FALSE)
        /\ turn[u].pc = "decide"
    BY <1>14 DEF Decide
  <2>2. turn[u].kind = "resume" /\ turn[u].target \in Turns
    BY <2>1, InvTurn DEF TurnOK, StepOK
  <2>3. ASSUME NEW n \in Turn, Emitted(u, turn[u], n, "hitl_decision", FALSE)
        PROVE  RunOK(n, u, memory'[turn[u].thread]) /\ ResumeOK(n, u, memory'[turn[u].thread])
    <3>1. n.pc \in {"decide", "load"} /\ n.kind = "resume" /\ n.target = turn[u].target
      BY <1>7, <2>2, <2>3 DEF Emitted, SameRequest, Streamed
    <3>2. m.pending = turn[u].target
      BY <1>3, <2>1, <2>2 DEF ResumeOK
    <3>3. QED
      BY <1>4, <1>13, <2>2, <3>1, <3>2
  <2>4. "hitl_decision" \in EventTypes
        /\ [role |-> "call", turn |-> turn[u].target] \in Message \cup {NoMessage}
        /\ FALSE \in BOOLEAN
    BY <1>7, <1>8, <2>2
  <2>5. QED
    BY <1>1, <1>3, <1>4, <1>6, <2>1, <2>3, <2>4, EmitBecomes
<1>12. QED
  BY <1>9, <1>10, <1>11, <1>14

\* The graph run loads the checkpoint.
LEMMA LoadBecomes ==
    ASSUME Inv, OwnInv, NEW u \in Turns, LoadCheckpoint(u)
    PROVE  \E n : Becomes(u, n)
<1> DEFINE t == turn[u].thread
           m == memory[t]
           said == [role |-> "human", turn |-> u]
           asked == Append(m.msgs, said)
<1>1. turn[u].pc = "load" /\ UNCHANGED <<thread, rows, clock>>
  BY DEF LoadCheckpoint
<1>2. /\ Active(u) /\ turn[u].pc \notin Late
      /\ {"run", "values"} \subseteq Steps \ ({"done"} \cup Storing)
  BY <1>1 DEF Active, Steps, RunSteps, Storing, StoreSteps, Late, Ends
<1>3. /\ turn[u] \in Turn /\ t \in Threads /\ ResumeOK(turn[u], u, m)
      /\ m.msgs \in Seq(Message) /\ m.pending \in Turns \cup {None}
      /\ memory \in [Threads -> Memory] /\ turn \in [Turns -> Turn]
  BY <1>2, OwnFacts DEF Inv, TypeOK
<1>4. rows \subseteq rows' /\ rows' \subseteq rows \cup In(turn[u].buf)
  BY <1>1
<1>5. CASE turn[u].kind # "resume"
  <2> DEFINE n == [turn[u] EXCEPT !.pc = "run", !.local = asked]
  <2>1. turn' = [turn EXCEPT ![u] = n]
    BY <1>3, <1>5 DEF LoadCheckpoint
  <2>2. memory' = [memory EXCEPT ![t] = [msgs |-> asked, pending |-> None]]
    BY <1>5 DEF LoadCheckpoint
  <2>3. said \in Message /\ said.turn = u
    BY DEF Message
  <2> HIDE DEF said
  <2>4. asked \in Seq(Message)
    BY <1>3, <2>3
  <2>5. \E x \in Message : \E p :
          x.turn = u /\ memory' = [memory EXCEPT ![t] = [msgs |-> Append(m.msgs, x), pending |-> p]]
    BY <2>2, <2>3
  <2>6. memory'[t].msgs = asked
    BY <1>3, <2>2
  <2> HIDE DEF asked
  <2>7. /\ n \in Turn /\ n.buf = turn[u].buf /\ n.pc = "run" /\ n.thread = t
        /\ n.local = asked /\ n.kind # "resume"
    BY <1>2, <1>3, <1>5, <2>4 DEF Turn
  <2> HIDE DEF n
  <2>8. RunOK(n, u, memory'[t]) /\ ResumeOK(n, u, memory'[t])
    BY <1>2, <2>6, <2>7 DEF RunOK, ResumeOK, Running, Answered, Handing
  <2>9. n.pc # "done" /\ n.pc \in Steps \cup Ends /\ In(n.buf) \subseteq In(turn[u].buf)
    BY <1>2, <2>7
  <2>10. Becomes(u, n)
    BY <1>1, <1>2, <1>4, <2>1, <2>5, <2>7, <2>8, <2>9 DEF Becomes
  <2>11. QED
    BY <2>10
<1>6. CASE turn[u].kind = "resume"
  <2> DEFINE n == [turn[u] EXCEPT !.pc = IF m.pending = None THEN "values" ELSE "run",
                                  !.local = m.msgs, !.applied = m.pending]
  <2>1. turn' = [turn EXCEPT ![u] = n] /\ UNCHANGED memory
    BY <1>3, <1>6 DEF LoadCheckpoint
  <2>2. m.pending = turn[u].target /\ turn[u].target # u
    BY <1>1, <1>3, <1>6 DEF ResumeOK
  <2>3. turn[u].target \in Turns
    BY <1>6, InvTurn DEF TurnOK, StepOK
  <2>4. m.pending # None
    BY <2>2, <2>3, ConversationAssumption
  <2>5. /\ n \in Turn /\ n.buf = turn[u].buf /\ n.pc = "run" /\ n.thread = t
        /\ n.local = m.msgs /\ n.applied = n.target /\ n.target # u
    BY <1>2, <1>3, <2>2, <2>4 DEF Turn
  <2> HIDE DEF n
  <2>6. RunOK(n, u, m)
    BY <1>2, <2>5 DEF RunOK, Running, Answered, Handing
  <2>7. ResumeOK(n, u, m)
    BY <1>2, <2>5 DEF ResumeOK
  <2>8. n.pc # "done" /\ n.pc \in Steps \cup Ends /\ In(n.buf) \subseteq In(turn[u].buf)
    BY <1>2, <2>5
  <2>9. Becomes(u, n)
    BY <1>1, <1>2, <1>4, <2>1, <2>5, <2>6, <2>7, <2>8 DEF Becomes
  <2>10. QED
    BY <2>9
<1>7. QED
  BY <1>5, <1>6

\* The graph runs: its messages are those of the checkpoint, and what it makes
\* of them is in both.
LEMMA GraphBecomes ==
    ASSUME Inv, OwnInv, NEW u \in Turns,
           \/ ContentChunk(u) \/ CallTools(u) \/ ToolResult(u) \/ SubagentResult(u)
           \/ Answer(u) \/ GraphRaises(u) \/ IdleTimeout(u)
    PROVE  \E n : Becomes(u, n)
<1> DEFINE t == turn[u].thread
           m == memory[t]
<1>1. turn[u].pc = "run" /\ UNCHANGED <<thread, rows, clock>>
  BY DEF ContentChunk, CallTools, ToolResult, SubagentResult, Answer, GraphRaises,
         IdleTimeout, MayGoOn
<1>2. /\ Active(u) /\ turn[u].pc \notin Late /\ "run" \notin Storing
      /\ "values" \in Steps /\ "values" \notin Storing
  BY <1>1 DEF Active, Steps, RunSteps, Storing, StoreSteps, Late, Ends
<1>3. /\ turn[u] \in Turn /\ t \in Threads
      /\ RunOK(turn[u], u, m) /\ ResumeOK(turn[u], u, m)
      /\ m.msgs \in Seq(Message) /\ memory \in [Threads -> Memory]
  BY <1>2, OwnFacts DEF Inv, TypeOK
<1>4. turn[u].local = m.msgs
  BY <1>1, <1>3 DEF RunOK, Running
<1>5. rows \subseteq rows' /\ rows' \subseteq rows \cup In(turn[u].buf)
  BY <1>1
<1>6. /\ {"content", "tool_result"} \subseteq EventTypes \cap Intermediate
      /\ \A r, i : /\ AfterEvent(r, i, "content") = "run"
                  /\ AfterEvent(r, i, "tool_result") = "run"
      /\ "ai_message" \notin Intermediate
  BY DEF EventTypes, Leading, Intermediate, AfterEvent
<1>7. \A role \in {"step", "tool", "ai", "call"} :
         [role |-> role, turn |-> u] \in Message
  BY DEF Message
<1>8. ASSUME NEW type \in {"content", "tool_result"}, NEW r \in Turn, NEW n \in Turn,
             SameTrace(turn[u], r), r.applied = turn[u].applied,
             Emitted(u, r, n, type, FALSE), NEW k, r.local = k.msgs
      PROVE  RunOK(n, u, k) /\ ResumeOK(n, u, k)
  <2>1. /\ n.pc \in {"check", "run"} /\ Last(n.buf).type = type /\ n.local = k.msgs
        /\ n.kind = turn[u].kind /\ n.target = turn[u].target /\ n.applied = turn[u].applied
        /\ n.kind = "resume" => n.pc = "run"
    BY <1>6, <1>8 DEF Emitted, SameRequest, SameTrace, Streamed
  <2>2. type # "ai_message" /\ "check" \notin {"values", "status", "load"}
    BY <1>6
  <2>3. RunOK(n, u, k)
    BY <2>1, <2>2 DEF RunOK, Answered, Running, Handing
  <2>4. ResumeOK(n, u, k)
    BY <1>1, <1>2, <1>3, <2>1 DEF ResumeOK
  <2>5. QED
    BY <2>3, <2>4
<1>9. CASE ContentChunk(u) \/ SubagentResult(u)
  <2>1. PICK type \in {"content", "tool_result"} :
          Emit(u, turn[u], type, NoMessage, FALSE) /\ UNCHANGED memory
    BY <1>9 DEF ContentChunk, SubagentResult
  <2>2. SameTrace(turn[u], turn[u])
    BY DEF SameTrace, SameRequest
  <2>3. ASSUME NEW n \in Turn, Emitted(u, turn[u], n, type, FALSE)
        PROVE  RunOK(n, u, memory'[t]) /\ ResumeOK(n, u, memory'[t])
    BY <1>3, <1>4, <1>8, <2>1, <2>2, <2>3
  <2>4. type \in EventTypes /\ NoMessage \in Message \cup {NoMessage} /\ FALSE \in BOOLEAN
    BY <1>6
  <2>5. type # "ai_message"
    BY <2>1
  <2>6. QED
    BY <1>1, <1>3, <2>1, <2>2, <2>3, <2>4, <2>5, EmitBecomes
<1>14. CASE CallTools(u)
  <2> DEFINE said == [role |-> "step", turn |-> u]
             msgs == Append(turn[u].local, said)
             n == [turn[u] EXCEPT !.local = msgs]
  <2>1. /\ turn' = [turn EXCEPT ![u] = n]
        /\ memory' = [memory EXCEPT ![t] = [msgs |-> msgs, pending |-> None]]
    BY <1>3, <1>14 DEF CallTools, Inv, TypeOK
  <2>2. said \in Message /\ said.turn = u
    BY <1>7
  <2> HIDE DEF said
  <2>3. msgs \in Seq(Message)
    BY <1>3, <1>4, <2>2
  <2>4. \E x \in Message : \E p :
          x.turn = u /\ memory' = [memory EXCEPT ![t] = [msgs |-> Append(m.msgs, x), pending |-> p]]
    BY <1>4, <2>1, <2>2
  <2>5. memory'[t].msgs = msgs
    BY <1>3, <2>1
  <2> HIDE DEF msgs
  <2>6. /\ n \in Turn /\ n.buf = turn[u].buf /\ n.pc = "run" /\ n.thread = t
        /\ n.kind = turn[u].kind /\ n.target = turn[u].target /\ n.applied = turn[u].applied
        /\ n.local = msgs
    BY <1>1, <1>3, <2>3 DEF Turn
  <2> HIDE DEF n
  <2>7. RunOK(n, u, memory'[t])
    BY <1>2, <2>5, <2>6 DEF RunOK, Running, Answered, Handing
  <2>8. ResumeOK(n, u, memory'[t])
    BY <1>1, <1>2, <1>3, <2>6 DEF ResumeOK
  <2>9. n.pc # "done" /\ n.pc \in Steps \cup Ends /\ In(n.buf) \subseteq In(turn[u].buf)
    BY <1>1, <1>2, <2>6 DEF Active
  <2>10. Becomes(u, n)
    BY <1>1, <1>2, <1>5, <2>1, <2>4, <2>6, <2>7, <2>8, <2>9 DEF Becomes
  <2>11. QED
    BY <2>10
<1>10. CASE ToolResult(u)
  <2> DEFINE said == [role |-> "tool", turn |-> u]
             msgs == Append(turn[u].local, said)
             r == [turn[u] EXCEPT !.local = msgs]
  <2>1. /\ Emit(u, r, "tool_result", said, FALSE)
        /\ memory' = [memory EXCEPT ![t] = [msgs |-> msgs, pending |-> None]]
    BY <1>10 DEF ToolResult
  <2>2. said \in Message /\ said.turn = u
    BY <1>7
  <2> HIDE DEF said
  <2>3. msgs \in Seq(Message)
    BY <1>3, <1>4, <2>2
  <2>4. \E x \in Message : \E p :
          x.turn = u /\ memory' = [memory EXCEPT ![t] = [msgs |-> Append(m.msgs, x), pending |-> p]]
    BY <1>4, <2>1, <2>2
  <2>5. memory'[t].msgs = msgs
    BY <1>3, <2>1
  <2> HIDE DEF msgs
  <2>6. r \in Turn /\ SameTrace(turn[u], r) /\ r.local = msgs /\ r.applied = turn[u].applied
    BY <1>3, <2>3 DEF Turn, SameTrace, SameRequest
  <2> HIDE DEF r
  <2>7. ASSUME NEW n \in Turn, Emitted(u, r, n, "tool_result", FALSE)
        PROVE  RunOK(n, u, memory'[t]) /\ ResumeOK(n, u, memory'[t])
    BY <1>8, <2>5, <2>6, <2>7
  <2>8. "tool_result" \in EventTypes /\ said \in Message \cup {NoMessage} /\ FALSE \in BOOLEAN
    BY <1>6, <2>2
  <2>9. QED
    BY <1>1, <2>1, <2>4, <2>6, <2>7, <2>8, EmitBecomes
<1>11. CASE Answer(u)
  <2>1. PICK role \in {"ai", "call"} :
          memory' = [memory EXCEPT ![t] =
                       [msgs |-> Append(turn[u].local, [role |-> role, turn |-> u]),
                        pending |-> IF role = "call" THEN u ELSE None]]
    BY <1>11 DEF Answer
  <2> DEFINE said == [role |-> role, turn |-> u]
             n == [turn[u] EXCEPT !.pc = "values"]
  <2>2. said \in Message /\ said.turn = u /\ said.role = role
    BY <1>7
  <2> HIDE DEF said
  <2>3. \E x \in Message : \E p :
          x.turn = u /\ memory' = [memory EXCEPT ![t] = [msgs |-> Append(m.msgs, x), pending |-> p]]
    BY <1>4, <2>1, <2>2 DEF said
  <2>4. /\ memory'[t].msgs = Append(m.msgs, said)
        /\ memory'[t].pending = IF said.role = "call" THEN u ELSE None
    BY <1>3, <1>4, <2>1, <2>2 DEF said
  <2>5. memory'[t].msgs # <<>> /\ Last(memory'[t].msgs) = said
    BY <1>3, <2>2, <2>4, LastAppended
  <2>6. turn' = [turn EXCEPT ![u] = n]
    BY <1>11 DEF Answer, Goto
  <2>7. /\ n \in Turn /\ n.buf = turn[u].buf /\ n.pc = "values" /\ n.thread = t
        /\ n.kind = turn[u].kind /\ n.target = turn[u].target /\ n.applied = turn[u].applied
    BY <1>2, <1>3 DEF Turn
  <2> HIDE DEF n
  <2>8. RunOK(n, u, memory'[t])
    BY <1>2, <2>2, <2>4, <2>5, <2>7 DEF RunOK, Running, Answered, Handing, Own
  <2>9. ResumeOK(n, u, memory'[t])
    BY <1>1, <1>2, <1>3, <2>7 DEF ResumeOK
  <2>10. n.pc # "done" /\ n.pc \in Steps \cup Ends /\ In(n.buf) \subseteq In(turn[u].buf)
    BY <1>2, <2>7
  <2>11. Becomes(u, n)
    BY <1>1, <1>2, <1>5, <2>3, <2>6, <2>7, <2>8, <2>9, <2>10 DEF Becomes
  <2>12. QED
    BY <2>11
<1>12. CASE GraphRaises(u) \/ IdleTimeout(u)
  <2>1. End(u, "failed") /\ UNCHANGED memory
    BY <1>12 DEF GraphRaises, IdleTimeout
  <2>2. QED
    BY <1>1, <1>2, <1>5, <2>1, EndBecomes
<1>13. QED
  BY <1>9, <1>10, <1>11, <1>12, <1>14

\* The state is read back: the last message is the answer of the turn, and its
\* status is whether the checkpoint waits for a decision on it.
LEMMA ReadBecomes ==
    ASSUME Inv, OwnInv, NEW u \in Turns, ReadValues(u) \/ ReadStatus(u)
    PROVE  \E n : Becomes(u, n)
<1> DEFINE t == turn[u].thread
           m == memory[t]
<1>1. turn[u].pc \in {"values", "status"} /\ UNCHANGED <<thread, rows, memory, clock>>
  BY DEF ReadValues, ReadStatus
<1>2. /\ Active(u) /\ turn[u].pc \notin Late
      /\ "status" \in Steps \ Storing /\ "ai_message" \notin Intermediate
  BY <1>1 DEF Active, Steps, RunSteps, Storing, StoreSteps, Late, Ends, Intermediate
<1>3. /\ turn[u] \in Turn /\ t \in Threads
      /\ RunOK(turn[u], u, m) /\ ResumeOK(turn[u], u, m)
      /\ m.msgs \in Seq(Message) /\ m.pending \in Turns \cup {None}
      /\ turn \in [Turns -> Turn]
  BY <1>2, OwnFacts DEF Inv, TypeOK
<1>4. /\ m.msgs # <<>> /\ Own(Last(m.msgs), u)
      /\ m.pending = IF Last(m.msgs).role = "call" THEN u ELSE None
  BY <1>1, <1>3 DEF RunOK, Answered
<1>5. rows \subseteq rows' /\ rows' \subseteq rows \cup In(turn[u].buf) /\ memory' = memory
  BY <1>1
<1>6. turn[u].kind = "resume" => turn[u].target # u /\ turn[u].applied = turn[u].target
  BY <1>1, <1>3 DEF ResumeOK
<1>7. CASE ReadValues(u)
  <2> DEFINE answer == LastMessage(m.msgs)
             n == [turn[u] EXCEPT !.pc = "status", !.answer = answer]
  <2>1. turn' = [turn EXCEPT ![u] = n]
    BY <1>3, <1>7 DEF ReadValues
  <2>2. answer = Last(m.msgs) /\ answer \in Message
    <3>1. answer = Last(m.msgs)
      BY <1>4 DEF LastMessage, Last
    <3>2. Len(m.msgs) \in 1 .. Len(m.msgs)
      BY <1>3, <1>4
    <3>3. QED
      BY <1>3, <3>1, <3>2 DEF Last
  <2> HIDE DEF answer
  <2>3. /\ n \in Turn /\ n.buf = turn[u].buf /\ n.pc = "status" /\ n.thread = t
        /\ n.kind = turn[u].kind /\ n.target = turn[u].target /\ n.applied = turn[u].applied
        /\ n.answer = answer
    BY <1>2, <1>3, <2>2 DEF Turn
  <2> HIDE DEF n
  <2>4. RunOK(n, u, m)
    BY <1>2, <1>4, <2>2, <2>3 DEF RunOK, Running, Handing
  <2>5. ResumeOK(n, u, m)
    BY <1>2, <1>6, <2>3 DEF ResumeOK
  <2>6. n.pc # "done" /\ n.pc \in Steps \cup Ends /\ In(n.buf) \subseteq In(turn[u].buf)
    BY <1>2, <2>3
  <2>7. Becomes(u, n)
    BY <1>1, <1>2, <1>5, <2>1, <2>3, <2>4, <2>5, <2>6 DEF Becomes
  <2>8. QED
    BY <2>7
<1>8. CASE ReadStatus(u)
  <2>1. Emit(u, turn[u], "ai_message", turn[u].answer, Awaiting(u)) /\ turn[u].pc = "status"
    BY <1>8 DEF ReadStatus
  <2>2. turn[u].answer = Last(m.msgs) /\ Own(turn[u].answer, u)
    BY <1>3, <1>4, <2>1 DEF RunOK
  <2>3. Awaiting(u) \in BOOLEAN
    BY DEF Awaiting
  <2>4. Awaiting(u) <=> m.pending # None
    <3>1. m.pending # None => turn[u].answer.role = "call"
      BY <1>4, <2>2
    <3>2. turn[u].kind = "resume" => turn[u].answer.turn # turn[u].target
      BY <1>6, <2>2 DEF Own
    <3>3. QED
      BY <3>1, <3>2 DEF Awaiting
  <2> DEFINE awaiting == Awaiting(u)
  <2>5. ASSUME NEW n \in Turn, Emitted(u, turn[u], n, "ai_message", awaiting)
        PROVE  RunOK(n, u, memory'[t]) /\ ResumeOK(n, u, memory'[t])
    <3>1. /\ n.pc = "check" /\ Last(n.buf).type = "ai_message" /\ Last(n.buf).awaiting = awaiting
          /\ n.kind = turn[u].kind /\ n.target = turn[u].target /\ n.applied = turn[u].applied
      BY <2>5 DEF Emitted, SameRequest
    <3>2. RunOK(n, u, m)
      BY <1>2, <1>4, <2>4, <3>1 DEF RunOK, Running, Handing
    <3>3. ResumeOK(n, u, m)
      BY <1>6, <3>1 DEF ResumeOK
    <3>4. QED
      BY <1>5, <3>2, <3>3
  <2>6. SameTrace(turn[u], turn[u])
    BY DEF SameTrace, SameRequest
  <2>7. "ai_message" \in EventTypes /\ turn[u].answer \in Message \cup {NoMessage}
    BY <1>3, TurnFields DEF EventTypes
  <2> HIDE DEF awaiting
  <2>8. awaiting \in BOOLEAN /\ Emit(u, turn[u], "ai_message", turn[u].answer, awaiting)
    BY <2>1, <2>3 DEF awaiting
  <2>9. QED
    BY <1>1, <1>3, <1>5, <2>2, <2>5, <2>6, <2>7, <2>8, <2>1, EmitBecomes
<1>9. QED
  BY <1>7, <1>8

\* The trace is stored, and the client receives it.
LEMMA StoreBecomes ==
    ASSUME Inv, OwnInv, NEW u \in Turns,
           CheckThread(u) \/ Insert(u) \/ AckLost(u) \/ Deliver(u)
    PROVE  \E n : Becomes(u, n)
<1> DEFINE t == turn[u].thread
           m == memory[t]
<1>1. turn[u].pc \in Storing /\ UNCHANGED <<thread, memory, clock>>
  BY DEF CheckThread, Insert, AckLost, Deliver, Storing, StoreSteps
<1>2. Active(u) /\ {"insert", "deliver"} \subseteq Steps \cap Storing
  BY <1>1 DEF Active, Steps, Storing, StoreSteps
<1>3. turn[u] \in Turn /\ RunOK(turn[u], u, m) /\ ResumeOK(turn[u], u, m)
  BY <1>2, OwnFacts
<1>4. CASE CheckThread(u) \/ Insert(u) \/ AckLost(u)
  <2>1. rows \subseteq rows' /\ rows' \subseteq rows \cup In(turn[u].buf)
    BY <1>4 DEF CheckThread, Insert, AckLost, Stored, In
  <2>2. CASE End(u, "failed")
    BY <1>1, <1>2, <2>1, <2>2, EndBecomes
  <2>3. CASE \E step \in {"insert", "deliver"} : Goto(u, step)
    BY <1>1, <1>2, <2>1, <2>3, GotoBecomes
  <2>4. QED
    BY <1>4, <2>2, <2>3 DEF CheckThread, Insert, AckLost
<1>5. CASE Deliver(u)
  <2> DEFINE last == Last(turn[u].buf)
             local == IF last.type = "ai_message" THEN <<>> ELSE turn[u].local
             n == [turn[u] EXCEPT !.pc = AfterEvent(turn[u], last.seq, last.type),
                                  !.seen = turn[u].seq, !.buf = <<>>, !.local = local, !.answer = NoMessage]
  <2>1. /\ turn[u].pc = "deliver" /\ UNCHANGED <<rows, memory>>
        /\ turn' = [turn EXCEPT ![u] = n]
    BY <1>5 DEF Deliver, Last
  <2>2. last.type \in EventTypes
    <3>1. turn[u].buf # <<>>
      BY <2>1, InvTurn DEF TurnOK, StepOK, StoreSteps
    <3>2. Len(turn[u].buf) \in 1 .. Len(turn[u].buf)
      BY <1>3, <3>1, TurnFields
    <3>3. QED
      BY <1>3, <3>2, TurnFields, EventFields DEF Last
  <2> DEFINE next == AfterEvent(turn[u], last.seq, last.type)
  <2>3. /\ next \in {"load", "run", "done", "decide"}
        /\ next = "done" <=> last.type = "ai_message"
        /\ next = "run" => last.type \in Intermediate
        /\ "ai_message" \notin Intermediate
    BY <2>2 DEF AfterEvent, EventTypes, Leading, Intermediate
  <2>4. local \in Seq(Message) /\ (last.type \in Intermediate => local = turn[u].local)
    BY <1>3, <2>3, TurnFields
  <2>5. /\ last.type \in Intermediate => turn[u].local = m.msgs
        /\ turn[u].kind = "resume" =>
             last.type = "ai_message" /\ turn[u].applied = turn[u].target /\ turn[u].target # u
    BY <1>1, <1>3 DEF RunOK, ResumeOK, Running, Handing
  <2> HIDE DEF last, local, next
  <2>6. /\ n.pc = next /\ n.buf = <<>> /\ n.local = local /\ n.thread = t
        /\ n.kind = turn[u].kind /\ n.target = turn[u].target /\ n.applied = turn[u].applied
    BY <1>3 DEF Turn, next
  <2>7. n \in Turn
    <3>1. <<>> \in Seq(Event)
      OBVIOUS
    <3>2. next \in {"new"} \cup Steps \cup Ends
      BY <2>3 DEF Steps, RunSteps, Ends
    <3>3. turn[u].seq \in Nat
      BY <1>3, TurnFields
    <3>4. QED
      BY <1>3, <2>4, <3>1, <3>2, <3>3 DEF Turn, next
  <2> HIDE DEF n
  <2>8. n.pc \in {"load", "run", "done", "decide"} /\ n.pc \notin Storing
    BY <2>3, <2>6 DEF Storing, StoreSteps
  <2>9. RunOK(n, u, m)
    BY <2>3, <2>4, <2>5, <2>6, <2>8 DEF RunOK, Running, Answered, Handing
  <2>10. ResumeOK(n, u, m)
    BY <2>3, <2>5, <2>6, <2>8 DEF ResumeOK
  <2>11. n.pc \in Steps \cup Ends
    BY <2>8 DEF Steps, RunSteps, Ends
  <2>12. In(n.buf) \subseteq In(turn[u].buf)
    BY <2>6 DEF In
  <2>13. n.pc = "done" => turn[u].pc = "deliver" /\ Last(turn[u].buf).type = "ai_message"
    BY <2>1, <2>3, <2>6 DEF last
  <2>14. Becomes(u, n)
    BY <1>1, <1>2, <2>1, <2>6, <2>7, <2>9, <2>10, <2>11, <2>12, <2>13 DEF Becomes
  <2>15. QED
    BY <2>14
<1>6. QED
  BY <1>4, <1>5

\* A call fails or a client goes away.
LEMMA FailureBecomes ==
    ASSUME Inv, OwnInv, NEW u \in Turns, CallRaises(u) \/ Disconnect(u)
    PROVE  \E n : Becomes(u, n)
<1>1. Active(u)
  BY DEF CallRaises, Disconnect, Active, Steps, StoreSteps, RunSteps
<1>2. (End(u, "failed") \/ End(u, "cut")) /\ UNCHANGED <<thread, rows, memory, clock>>
  BY DEF CallRaises, Disconnect
<1>3. QED
  BY <1>1, <1>2, EndBecomes

\* Every step of a turn.
LEMMA TurnBecomes ==
    ASSUME Inv, OwnInv, NEW u \in Turns,
           ServerStep(u) \/ GraphStep(u) \/ Deliver(u) \/ Disconnect(u)
    PROVE  \E n : Becomes(u, n)
BY PreparationBecomes, LoadBecomes, GraphBecomes, ReadBecomes, StoreBecomes, FailureBecomes
   DEF ServerStep, GraphStep

-----------------------------------------------------------------------------
(* OwnInv is inductive *)

LEMMA OwnInit == Init => OwnInv
<1> SUFFICES ASSUME Init PROVE OwnInv
  OBVIOUS
<1>1. \A u \in Turns : turn[u].pc = "new" /\ turn[u].buf = <<>>
  BY DEF Init, New
<1>2. "new" \notin Steps
  BY DEF Steps, StoreSteps, RunSteps
<1>3. \A u \in Turns : ~Active(u)
  BY <1>1, <1>2 DEF Active
<1>4. \A u \in Turns : Made(u) = {}
  BY <1>1 DEF Init, Made, TurnRows, Buffered
<1>5. QED
  BY <1>1, <1>3, <1>4 DEF OwnInv, Alone, OwnTurn

\* A step that leaves the turns and the checkpoints alone and adds no events.
LEMMA SameOwn ==
    ASSUME OwnInv, UNCHANGED <<memory, turn>>, rows' \subseteq rows
    PROVE  OwnInv'
<1>1. \A u \in Turns : Made(u)' \subseteq Made(u)
  BY DEF Made, TurnRows, Buffered
<1>2. Alone'
  BY DEF OwnInv, Alone, Active
<1>3. ASSUME NEW u \in Turns
      PROVE  OwnTurn(u)'
  <2>1. \A e \in Made(u)' : EventSays(e)
    BY <1>1 DEF OwnInv, OwnTurn
  <2>2. turn'[u].pc # "new" =>
          /\ RunOK(turn'[u], u, memory'[turn'[u].thread])
          /\ ResumeOK(turn'[u], u, memory'[turn'[u].thread])
    BY DEF OwnInv, OwnTurn
  <2>3. QED
    BY <2>1, <2>2 DEF OwnTurn, EventSays, Own
<1>4. QED
  BY <1>2, <1>3 DEF OwnInv

\* Turn u begins as the record n, and nothing else changes.
Begins(u, t, n) ==
    /\ turn[u].pc = "new"
    /\ thread[t] = "live"
    /\ Overlap \/ \A v \in Turns : Active(v) => turn[v].thread # t
    /\ n \in Turn
    /\ turn' = [turn EXCEPT ![u] = n]
    /\ n.pc \in {"route", "get"} /\ n.thread = t /\ n.buf = <<>>
    /\ n.kind = "resume" => n.target \in Decidable(t)
    /\ clock' = clock + 1
    /\ UNCHANGED <<thread, rows, memory>>

LEMMA StartBegins ==
    ASSUME Inv, NEW u \in Turns, NEW t \in Threads, Start(u, t)
    PROVE  \E n : Begins(u, t, n)
<1>1. PICK k \in Kinds, target \in Decidable(t) \cup {None} :
        /\ (k = "resume") <=> (target # None)
        /\ turn' = [turn EXCEPT ![u] = [New EXCEPT !.kind = k, !.thread = t,
                                                   !.target = target,
                                                   !.pc = IF k = "sse"
                                                          THEN "route" ELSE "get"]]
  BY DEF Start
<1> DEFINE n == [New EXCEPT !.kind = k, !.thread = t, !.target = target,
                            !.pc = IF k = "sse" THEN "route" ELSE "get"]
<1>2. /\ n.pc \in {"route", "get"} /\ n.buf = <<>> /\ n.thread = t /\ n.kind = k
      /\ n.target = target
  BY DEF New
<1>3. turn' = [turn EXCEPT ![u] = n]
  BY <1>1
<1> HIDE DEF n
<1>4. n \in Turn
  <2>1. Inv'
    BY StartInv
  <2>2. turn' \in [Turns -> Turn] /\ turn \in [Turns -> Turn]
    BY <2>1 DEF Inv, TypeOK
  <2>3. turn'[u] = n
    BY <1>3, <2>2
  <2>4. QED
    BY <2>2, <2>3
<1>5. n.kind = "resume" => n.target \in Decidable(t)
  BY <1>1, <1>2
<1>6. Begins(u, t, n)
  BY <1>2, <1>3, <1>4, <1>5 DEF Start, Begins
<1>7. QED
  BY <1>6

\* A turn begins on a thread that is at rest; the interrupt that it decides is
\* of another turn.
LEMMA BeginsOwn ==
    ASSUME Inv, OwnInv, ~Overlap, NEW u \in Turns, NEW t \in Threads, NEW n, Begins(u, t, n)
    PROVE  OwnInv'
<1>1. /\ turn \in [Turns -> Turn] /\ turn[u].pc = "new" /\ UNCHANGED <<rows, memory>>
      /\ turn' = [turn EXCEPT ![u] = n]
      /\ n.pc \in {"route", "get"} /\ n.thread = t /\ n.buf = <<>>
  BY DEF Inv, TypeOK, Begins
<1>2. turn'[u] = n /\ \A v \in Turns \ {u} : turn'[v] = turn[v]
  BY <1>1
<1>3. TurnRows(u) = {}
  BY <1>1, InvTurn, NewHasNoRows
<1>4. ASSUME NEW v \in Turns \ {u}, Active(v)
      PROVE  turn[v].thread # t
  BY <1>4 DEF Begins
<1>5. Alone'
  <2> SUFFICES ASSUME NEW v \in Turns, NEW w \in Turns, Active(v)', Active(w)',
                      turn'[v].thread = turn'[w].thread
               PROVE  v = w
    BY DEF Alone
  <2>1. \A x \in Turns \ {u} : Active(x)' => Active(x)
    BY <1>2 DEF Active
  <2>2. CASE v # u /\ w # u
    BY <1>2, <2>1, <2>2 DEF OwnInv, Alone
  <2>3. CASE v = u \/ w = u
    BY <1>1, <1>2, <1>4, <2>1, <2>3
  <2>4. QED
    BY <2>2, <2>3
<1>6. ASSUME NEW e \in rows
      PROVE  EventSays(e) /\ e.turn \in Turns \ {u}
  <2>1. e.turn \in Turns /\ e \in TurnRows(e.turn)
    BY <1>6, EventFields DEF Inv, TypeOK, TurnRows
  <2>2. QED
    BY <2>1, <1>3 DEF OwnInv, OwnTurn, Made
<1>7. n.kind = "resume" => n.target # u
  <2>1. SUFFICES ASSUME n.kind = "resume" PROVE n.target # u
    OBVIOUS
  <2>2. PICK e \in rows : e.awaiting /\ n.target = e.says.turn
    BY <2>1 DEF Begins, Decidable
  <2>3. QED
    BY <1>6, <2>2 DEF EventSays, Own
<1>8. n.pc \notin Storing \cup {"load", "decide", "run", "values", "status", "done"}
  BY <1>1 DEF Storing, StoreSteps
<1>9. \A m : RunOK(n, u, m) /\ ResumeOK(n, u, m)
  BY <1>7, <1>8 DEF RunOK, ResumeOK, Running, Answered, Handing
<1>10. ASSUME NEW v \in Turns
       PROVE  OwnTurn(v)'
  <2>1. CASE v = u
    <3>1. Made(u)' = {}
      BY <1>1, <1>2, <1>3 DEF Made, TurnRows, Buffered
    <3>2. QED
      BY <2>1, <3>1, <1>2, <1>9 DEF OwnTurn
  <2>2. CASE v # u
    <3>1. Made(v)' = Made(v) /\ turn'[v] = turn[v] /\ memory' = memory
      BY <1>1, <1>2, <2>2 DEF Made, TurnRows, Buffered
    <3>2. \A e \in Made(v)' : EventSays(e)
      BY <3>1 DEF OwnInv, OwnTurn
    <3>3. turn'[v].pc # "new" =>
            /\ RunOK(turn'[v], v, memory'[turn'[v].thread])
            /\ ResumeOK(turn'[v], v, memory'[turn'[v].thread])
      BY <3>1 DEF OwnInv, OwnTurn
    <3>4. QED
      BY <3>2, <3>3 DEF OwnTurn, EventSays, Own
  <2>3. QED
    BY <2>1, <2>2
<1>11. QED
  BY <1>5, <1>10 DEF OwnInv

\* The process dies: the turns at work are cut.
LEMMA RestartOwn ==
    ASSUME Inv, OwnInv, Restart
    PROVE  OwnInv'
<1>1. /\ UNCHANGED <<rows, memory>>
      /\ turn' = [u \in Turns |-> IF Active(u) THEN Ended(turn[u], "cut") ELSE turn[u]]
  BY DEF Restart, Ended
<1>2. ASSUME NEW u \in Turns
      PROVE  ~Active(u)' /\ OwnTurn(u)'
  <2>1. CASE Active(u)
    <3> DEFINE n == Ended(turn[u], "cut")
               m == memory[turn[u].thread]
    <3>1. /\ turn'[u] = n /\ n.buf = <<>> /\ n.pc = "cut" /\ n.thread = turn[u].thread
          /\ RunOK(n, u, m) /\ ResumeOK(n, u, m)
      BY <1>1, <2>1, OwnFacts, CutOwn
    <3> HIDE DEF n
    <3>2. "cut" \notin Steps
      BY DEF Steps, StoreSteps, RunSteps
    <3>3. Made(u)' \subseteq Made(u)
      BY <1>1, <3>1 DEF Made, TurnRows, Buffered
    <3>4. \A e \in Made(u)' : EventSays(e)
      BY <3>3 DEF OwnInv, OwnTurn
    <3>5. RunOK(turn'[u], u, memory'[turn'[u].thread]) /\ ResumeOK(turn'[u], u, memory'[turn'[u].thread])
      BY <1>1, <3>1
    <3>6. QED
      BY <3>1, <3>2, <3>4, <3>5 DEF Active, OwnTurn, EventSays, Own
  <2>2. CASE ~Active(u)
    <3>1. turn'[u] = turn[u] /\ Made(u)' = Made(u)
      BY <1>1, <2>2 DEF Made, TurnRows, Buffered
    <3>2. \A e \in Made(u)' : EventSays(e)
      BY <3>1 DEF OwnInv, OwnTurn
    <3>3. turn'[u].pc # "new" =>
            /\ RunOK(turn'[u], u, memory'[turn'[u].thread])
            /\ ResumeOK(turn'[u], u, memory'[turn'[u].thread])
      BY <1>1, <3>1 DEF OwnInv, OwnTurn
    <3>4. QED
      BY <2>2, <3>1, <3>2, <3>3 DEF Active, OwnTurn, EventSays, Own
  <2>3. QED
    BY <2>1, <2>2
<1>3. QED
  BY <1>2 DEF OwnInv, Alone

LEMMA OwnNext == ~Overlap /\ Inv /\ OwnInv /\ [Next]_vars => OwnInv'
<1> SUFFICES ASSUME ~Overlap, Inv, OwnInv, [Next]_vars PROVE OwnInv'
  OBVIOUS
<1>1. ASSUME NEW t \in Threads, CreateThread(t) \/ DeleteThread(t)
      PROVE  OwnInv'
  BY <1>1, SameOwn DEF CreateThread, DeleteThread
<1>2. ASSUME NEW u \in Turns, NEW t \in Threads, Start(u, t)
      PROVE  OwnInv'
  BY <1>2, StartBegins, BeginsOwn
<1>3. ASSUME NEW u \in Turns, ServerStep(u) \/ GraphStep(u) \/ Deliver(u) \/ Disconnect(u)
      PROVE  OwnInv'
  BY <1>3, TurnBecomes, BecomesOwn
<1>4. CASE Restart
  BY <1>4, RestartOwn
<1>5. CASE UNCHANGED vars
  BY <1>5, SameOwn DEF vars
<1>6. QED
  BY <1>1, <1>2, <1>3, <1>4, <1>5 DEF Next

LEMMA OwnHolds ==
    ASSUME ~Overlap
    PROVE  Spec => []OwnInv
<1>1. Inv /\ OwnInv /\ [Next]_vars => OwnInv'
  BY OwnNext
<1>2. QED
  BY <1>1, OwnInit, Invariance, PTL DEF Spec

\* AnswersOwn: when clients wait for their turn, the answer that a turn stores
\* is one that the agent made in that turn, although the code takes the last
\* message of a checkpoint that it reads back when the run is over.
THEOREM AnswersOwn ==
    ASSUME ~Overlap
    PROVE  Spec => []AnswerIsOwn
<1>1. Inv /\ OwnInv => AnswerIsOwn
  <2> SUFFICES ASSUME Inv, OwnInv, NEW e \in rows, e.type = "ai_message"
               PROVE  Own(e.says, e.turn)
    BY DEF AnswerIsOwn, Own
  <2>1. e.turn \in Turns /\ e \in Made(e.turn)
    BY EventFields DEF Inv, TypeOK, Made, TurnRows
  <2>2. QED
    BY <2>1 DEF OwnInv, OwnTurn, EventSays
<1>2. QED
  BY <1>1, OwnHolds, Invariance, PTL

\* DecisionsKept: when clients wait for their turn, nothing comes between the
\* check of the decisions and the run that takes them: a resume that ends well
\* had them applied to the interrupt that they were made for.
THEOREM DecisionsKept ==
    ASSUME ~Overlap
    PROVE  Spec => []DecisionsApplied
<1>1. OwnInv => DecisionsApplied
  BY DEF OwnInv, OwnTurn, ResumeOK, DecisionsApplied
<1>2. QED
  BY <1>1, OwnHolds, PTL

-----------------------------------------------------------------------------
(* The order of the events of a thread *)

\* The events that the other turns have stored in the thread of turn u.
Others(u) == {d \in EventsOf(turn[u].thread) : d.turn # u}

\* No event of a turn is later than its answer, and while a turn is at work its
\* events are later than those of the others.
TurnTime(u) ==
    /\ \A e \in Made(u) : e.time <= clock
    /\ \A d, e \in Made(u) : e.type = "ai_message" => d.time <= e.time
    /\ Active(u) => \A d \in Others(u) : d.time < clock /\ \A e \in Made(u) : d.time < e.time

TimeInv == \A u \in Turns : TurnTime(u)

\* What is known of an event that a turn has made.
LEMMA MadeFacts ==
    ASSUME Inv, NEW u \in Turns, NEW e \in Made(u)
    PROVE  /\ e \in Event /\ e.time \in Nat /\ e.turn = u /\ e.thread = turn[u].thread
           /\ EventOK(e, u, turn[u])
<1>1. e \in Event /\ EventOK(e, u, turn[u])
  BY InvTurn, BufferedOwn DEF Made, TurnOK, RowsOK
<1>2. QED
  BY <1>1 DEF Event, EventOK

\* A row is an event that its turn has made.
LEMMA RowFacts ==
    ASSUME Inv, NEW e \in rows
    PROVE  e \in Event /\ e.turn \in Turns /\ e \in TurnRows(e.turn) /\ e \in Made(e.turn)
BY EventFields DEF Inv, TypeOK, Made, TurnRows

\* What a step of turn u does to the events: those of the other turns, of the
\* other threads too, stay as they are.
LEMMA BecomesEvents ==
    ASSUME Inv, OwnInv, NEW u \in Turns, NEW n, Becomes(u, n)
    PROVE  /\ turn'[u] = n /\ \A v \in Turns \ {u} : turn'[v] = turn[v]
           /\ \A v \in Turns : Active(v)' => Active(v)
           /\ \A v \in Turns : turn'[v].thread = turn[v].thread
           /\ \A v \in Turns \ {u} : Made(v)' = Made(v) /\ TurnRows(v)' = TurnRows(v)
           /\ TurnRows(u) \subseteq TurnRows(u)' /\ TurnRows(u)' \subseteq Made(u)
           /\ \A v \in Turns : Active(v) => Others(v)' = Others(v)
           /\ \A x \in Threads : x # turn[u].thread => EventsOf(x)' = EventsOf(x)
<1>1. turn \in [Turns -> Turn] /\ rows \subseteq rows' /\ rows' \subseteq rows \cup Buffered(u)
  BY DEF Inv, TypeOK, Becomes, Buffered, In
<1>2. turn'[u] = n /\ n.thread = turn[u].thread /\ \A v \in Turns \ {u} : turn'[v] = turn[v]
  BY <1>1 DEF Becomes
<1>3. \A v \in Turns : Active(v)' => Active(v)
  BY <1>2 DEF Active, Becomes
<1>4. \A v \in Turns : turn'[v].thread = turn[v].thread
  BY <1>2
<1>5. \A e \in Buffered(u) : e.turn = u /\ e.thread = turn[u].thread
  BY BufferedOwn
<1>6. ASSUME NEW v \in Turns \ {u}
      PROVE  Made(v)' = Made(v) /\ TurnRows(v)' = TurnRows(v)
  <2>1. TurnRows(v)' = TurnRows(v)
    BY <1>1, <1>5, <1>6 DEF TurnRows
  <2>2. Buffered(v)' = Buffered(v)
    BY <1>2, <1>6 DEF Buffered
  <2>3. QED
    BY <2>1, <2>2 DEF Made
<1>7. TurnRows(u) \subseteq TurnRows(u)' /\ TurnRows(u)' \subseteq Made(u)
  BY <1>1 DEF TurnRows, Made
<1>8. \A x \in Threads : x # turn[u].thread => EventsOf(x)' = EventsOf(x)
  BY <1>1, <1>5 DEF EventsOf
<1>9. ASSUME NEW v \in Turns, Active(v)
      PROVE  Others(v)' = Others(v)
  <2>1. CASE v = u
    BY <1>1, <1>2, <1>5, <2>1 DEF Others, EventsOf
  <2>2. CASE v # u
    <3>1. turn[v].thread \in Threads /\ turn[v].thread # turn[u].thread
      BY <1>9, <2>2, OwnFacts DEF OwnInv, Alone, Becomes
    <3>2. QED
      BY <1>4, <1>8, <3>1 DEF Others
  <2>3. QED
    BY <2>1, <2>2
<1>10. QED
  BY <1>2, <1>3, <1>4, <1>6, <1>7, <1>8, <1>9

LEMMA BecomesTime ==
    ASSUME Inv, OwnInv, TimeInv, NEW u \in Turns, NEW n, Becomes(u, n)
    PROVE  TimeInv'
<1>1. clock' = clock /\ clock \in Nat
  BY DEF Becomes, Inv, TypeOK
<1>2. ASSUME NEW v \in Turns, Made(v)' \subseteq Made(v)
      PROVE  TurnTime(v)'
  <2>1. TurnTime(v) /\ (Active(v)' => Active(v)) /\ (Active(v) => Others(v)' = Others(v))
    BY BecomesEvents DEF TimeInv
  <2> DEFINE made == Made(v)'
             others == Others(v)'
  <2>2. (\A e \in made : e.time <= clock') /\ (\A d, e \in made : e.type = "ai_message" => d.time <= e.time)
    BY <1>1, <1>2, <2>1 DEF TurnTime
  <2>3. Active(v)' => \A d \in others : d.time < clock' /\ \A e \in made : d.time < e.time
    BY <1>1, <1>2, <2>1 DEF TurnTime
  <2>4. QED
    BY <2>2, <2>3 DEF TurnTime
<1>3. turn'[u] = n /\ TurnRows(u)' \subseteq Made(u)
  BY BecomesEvents
<1>4. \A v \in Turns \ {u} : TurnTime(v)'
  <2>1. \A v \in Turns \ {u} : Made(v)' = Made(v)
    BY BecomesEvents
  <2>2. QED
    BY <1>2, <2>1
<1>5. CASE In(n.buf) \subseteq In(turn[u].buf)
  <2>1. Buffered(u)' \subseteq Buffered(u)
    BY <1>5, <1>3 DEF Buffered, In
  <2>2. Made(u)' \subseteq Made(u)
    BY <1>3, <2>1 DEF Made
  <2>3. QED
    BY <1>2, <1>4, <2>2 DEF TimeInv
<1>6. CASE /\ turn[u].pc \notin Late
           /\ \E e : e.time = clock /\ EventSays(e) /\ In(n.buf) \subseteq In(turn[u].buf) \cup {e}
  <2>1. PICK e : e.time = clock /\ In(n.buf) \subseteq In(turn[u].buf) \cup {e}
    BY <1>6
  <2>2. Made(u)' \subseteq Made(u) \cup {e}
    BY <1>3, <2>1 DEF Made, Buffered, In
  <2>3. \A d \in Made(u) : d.type # "ai_message" /\ d.time \in Nat /\ d.time <= clock
    BY <1>6, MadeFacts DEF EventOK, TimeInv, TurnTime
  <2>4. \A d \in Made(u)' : d.time <= clock /\ (d.type = "ai_message" => d.time = clock)
    BY <1>1, <2>1, <2>2, <2>3
  <2>5. \A d, x \in Made(u)' : x.type = "ai_message" => d.time <= x.time
    BY <2>4
  <2>6. Active(u) /\ Others(u)' = Others(u)
    BY BecomesEvents DEF Becomes
  <2>7. \A d \in Others(u) : d.time < clock /\ \A x \in Made(u)' : d.time < x.time
    BY <2>1, <2>2, <2>6 DEF TimeInv, TurnTime
  <2>8. TurnTime(u)'
    BY <1>1, <2>4, <2>5, <2>6, <2>7 DEF TurnTime
  <2>9. QED
    BY <1>4, <2>8 DEF TimeInv
<1>7. QED
  BY <1>5, <1>6 DEF Becomes

\* What the beginning of a turn does to the events.
LEMMA BeginsEvents ==
    ASSUME Inv, NEW u \in Turns, NEW t \in Threads, NEW n, Begins(u, t, n)
    PROVE  /\ turn'[u] = n /\ \A v \in Turns \ {u} : turn'[v] = turn[v]
           /\ UNCHANGED <<rows, memory, thread>> /\ TurnRows(u) = {} /\ Made(u)' = {}
           /\ \A v \in Turns \ {u} : Made(v)' = Made(v) /\ Others(v)' = Others(v)
           /\ Others(u)' = EventsOf(t)
<1>1. /\ turn \in [Turns -> Turn] /\ turn[u].pc = "new" /\ UNCHANGED <<rows, memory, thread>>
      /\ turn' = [turn EXCEPT ![u] = n] /\ n.thread = t /\ n.buf = <<>>
  BY DEF Inv, TypeOK, Begins
<1>2. turn'[u] = n /\ \A v \in Turns \ {u} : turn'[v] = turn[v]
  BY <1>1
<1>3. TurnRows(u) = {}
  BY <1>1, InvTurn, NewHasNoRows
<1>4. Made(u)' = {}
  BY <1>1, <1>2, <1>3 DEF Made, TurnRows, Buffered
<1>5. \A v \in Turns \ {u} : Made(v)' = Made(v) /\ Others(v)' = Others(v)
  BY <1>1, <1>2 DEF Made, TurnRows, Buffered, Others, EventsOf
<1>6. Others(u)' = EventsOf(t)
  BY <1>1, <1>2, <1>3 DEF Others, EventsOf, TurnRows
<1>7. QED
  BY <1>1, <1>2, <1>3, <1>4, <1>5, <1>6

LEMMA BeginsTime ==
    ASSUME Inv, TimeInv, NEW u \in Turns, NEW t \in Threads, NEW n, Begins(u, t, n)
    PROVE  TimeInv'
<1>1. clock' = clock + 1 /\ clock \in Nat
  BY DEF Begins, Inv, TypeOK
<1>2. \A d \in rows : d.time \in Nat /\ d.time <= clock
  BY RowFacts, MadeFacts DEF TimeInv, TurnTime
<1>3. TurnTime(u)'
  <2>1. \A d \in Others(u)' : d.time < clock'
    BY <1>1, <1>2, BeginsEvents DEF EventsOf
  <2>2. QED
    BY <2>1, BeginsEvents DEF TurnTime
<1>4. ASSUME NEW v \in Turns \ {u}
      PROVE  TurnTime(v)'
  <2>1. /\ Made(v)' = Made(v) /\ Others(v)' = Others(v) /\ Active(v)' = Active(v)
        /\ TurnTime(v)
    BY <1>4, BeginsEvents DEF Active, TimeInv
  <2>2. \A e \in Made(v) : e.time \in Nat
    BY MadeFacts
  <2>3. \A e \in Others(v) : e.time \in Nat
    BY <1>2 DEF Others, EventsOf
  <2>4. QED
    BY <1>1, <2>1, <2>2, <2>3 DEF TurnTime
<1>5. QED
  BY <1>3, <1>4 DEF TimeInv

\* A step after which no turn is at work that was not, and that adds no events.
LEMMA FewerTime ==
    ASSUME TimeInv, UNCHANGED clock, rows' \subseteq rows,
           \A u \in Turns : /\ Buffered(u)' \subseteq Buffered(u)
                            /\ Active(u)' => Active(u) /\ turn'[u].thread = turn[u].thread
    PROVE  TimeInv'
<1> SUFFICES ASSUME NEW u \in Turns PROVE TurnTime(u)'
  BY DEF TimeInv
<1>1. Made(u)' \subseteq Made(u)
  BY DEF Made, TurnRows
<1>2. Active(u)' => Active(u) /\ Others(u)' \subseteq Others(u)
  BY DEF Others, EventsOf
<1>3. QED
  BY <1>1, <1>2 DEF TimeInv, TurnTime

LEMMA TimeInit == Init => TimeInv
<1> SUFFICES ASSUME Init PROVE TimeInv
  OBVIOUS
<1>1. \A u \in Turns : Made(u) = {}
  BY DEF Init, New, Made, TurnRows, Buffered
<1>2. \A u \in Turns : Others(u) = {}
  BY DEF Init, Others, EventsOf
<1>3. QED
  BY <1>1, <1>2 DEF TimeInv, TurnTime

LEMMA TimeNext == ~Overlap /\ Inv /\ OwnInv /\ TimeInv /\ [Next]_vars => TimeInv'
<1> SUFFICES ASSUME ~Overlap, Inv, OwnInv, TimeInv, [Next]_vars PROVE TimeInv'
  OBVIOUS
<1>1. ASSUME NEW t \in Threads, CreateThread(t) \/ DeleteThread(t)
      PROVE  TimeInv'
  <2>1. UNCHANGED <<turn, clock>> /\ rows' \subseteq rows
    BY <1>1 DEF CreateThread, DeleteThread
  <2>2. QED
    BY <2>1, FewerTime DEF Buffered, Active
<1>2. ASSUME NEW u \in Turns, NEW t \in Threads, Start(u, t)
      PROVE  TimeInv'
  BY <1>2, StartBegins, BeginsTime
<1>3. ASSUME NEW u \in Turns, ServerStep(u) \/ GraphStep(u) \/ Deliver(u) \/ Disconnect(u)
      PROVE  TimeInv'
  BY <1>3, TurnBecomes, BecomesTime
<1>4. CASE Restart
  <2>1. /\ UNCHANGED <<rows, clock>>
        /\ turn' = [u \in Turns |-> IF Active(u) THEN Ended(turn[u], "cut") ELSE turn[u]]
    BY <1>4 DEF Restart, Ended
  <2>2. ASSUME NEW u \in Turns
        PROVE  /\ Buffered(u)' \subseteq Buffered(u)
               /\ Active(u)' => Active(u) /\ turn'[u].thread = turn[u].thread
    <3>1. CASE Active(u)
      <4>1. turn'[u].buf = <<>> /\ turn'[u].thread = turn[u].thread
        BY <2>1, <3>1, OwnFacts, CutOwn
      <4>2. QED
        BY <3>1, <4>1 DEF Buffered
    <3>2. CASE ~Active(u)
      BY <2>1, <3>2 DEF Buffered, Active
    <3>3. QED
      BY <3>1, <3>2
  <2>3. QED
    BY <2>1, <2>2, FewerTime
<1>5. CASE UNCHANGED vars
  BY <1>5, FewerTime DEF vars, Buffered, Active
<1>6. QED
  BY <1>1, <1>2, <1>3, <1>4, <1>5 DEF Next

-----------------------------------------------------------------------------
(* What the trace says of the pending interrupt *)

\* The agent remembers a message of turn u in thread t.
Spoke(u, t) == \E i \in 1 .. Len(memory[t].msgs) : memory[t].msgs[i].turn = u

\* A turn on thread t ended badly and left something.
Spoiled(t) == \E u \in Turns : turn[u].thread = t /\ turn[u].pc \in Ends /\ ~Whole(u)

Waiting(t) == {memory[t].pending} \ {None}

\* As long as no turn has spoiled the thread, its last event asks for the
\* decision that the agent waits for: at rest, and while the turn at work has
\* added nothing to what the agent remembers, of the events of the others.
Asks(t) ==
    thread[t] # "gone" /\ ~Spoiled(t) =>
        /\ Quiet(t) => Asking(EventsOf(t)) = Waiting(t)
        /\ \A u \in Turns : Active(u) /\ turn[u].thread = t /\ ~Spoke(u, t) =>
             Asking(Others(u)) = Waiting(t)

ToldInv == \A t \in Threads : Asks(t)

\* The event that all others come before.
LEMMA NewestIs ==
    ASSUME NEW S \in SUBSET Event, NEW e \in S, \A d \in S : d # e => Earlier(d, e)
    PROVE  Newest(S) = {e}
<1>1. \A d \in S : d.time \in Nat /\ d.seq \in Nat
  BY DEF Event
<1>2. \A d \in S : ~Earlier(e, d)
  BY <1>1 DEF Earlier
<1>3. QED
  BY <1>2 DEF Newest

\* What Asks says after a step is said of the events and turns after the step.
LEMMA ToldNext ==
    ASSUME NEW t \in Threads,
           thread'[t] # "gone", ~Spoiled(t)' =>
             /\ Quiet(t)' => Asking(EventsOf(t)') = {memory'[t].pending} \ {None}
             /\ \A u \in Turns : Active(u)' /\ turn'[u].thread = t /\ ~Spoke(u, t)' =>
                  Asking(Others(u)') = {memory'[t].pending} \ {None}
    PROVE  Asks(t)'
<1>1. Asking(EventsOf(t))' = Asking(EventsOf(t)')
  BY DEF Asking, Newest, Earlier
<1>2. \A u \in Turns : Asking(Others(u))' = Asking(Others(u)')
  BY DEF Asking, Newest, Earlier
<1>3. QED
  BY <1>1, <1>2 DEF Asks, Waiting

\* Whole, by what the agent remembers of the turn.
LEMMA WholeIs ==
    ASSUME NEW u \in Turns
    PROVE  Whole(u) <=> \/ turn[u].pc = "done"
                        \/ RowsOf(turn[u].thread, u) = {} /\ ~Spoke(u, turn[u].thread)
BY DEF Whole, Spoke

\* A turn that left something keeps having done so.
LEMMA WholeBefore ==
    ASSUME NEW u \in Turns, NEW t \in Threads, turn'[u] = turn[u], turn[u].thread = t,
           EventsOf(t) \subseteq EventsOf(t)', Spoke(u, t) => Spoke(u, t)', Whole(u)'
    PROVE  Whole(u)
<1>1. CASE turn'[u].pc = "done"
  BY <1>1, WholeIs
<1>2. CASE turn'[u].pc # "done"
  <2>1. RowsOf(t, u)' = {} /\ ~Spoke(u, t)'
    BY <1>2 DEF Whole, Spoke, RowsOf
  <2>2. RowsOf(t, u) \subseteq RowsOf(t, u)'
    BY DEF RowsOf, EventsOf
  <2>3. QED
    BY <2>1, <2>2, WholeIs
<1>3. QED
  BY <1>1, <1>2

\* A thread is not spoiled after a step if it was not, when the turns on it that
\* had ended stay as they are.
LEMMA SpoiledStays ==
    ASSUME NEW t \in Threads, ~Spoiled(t)', EventsOf(t) \subseteq EventsOf(t)',
           \A u \in Turns : turn[u].thread = t /\ turn[u].pc \in Ends =>
                              turn'[u] = turn[u] /\ (Spoke(u, t) => Spoke(u, t)')
    PROVE  ~Spoiled(t)
<1> SUFFICES ASSUME NEW u \in Turns, turn[u].thread = t, turn[u].pc \in Ends
             PROVE  Whole(u)
  BY DEF Spoiled
<1>1. turn'[u] = turn[u] /\ (Spoke(u, t) => Spoke(u, t)')
  OBVIOUS
<1>2. Whole(u)'
  BY <1>1 DEF Spoiled
<1>3. QED
  BY <1>1, <1>2, WholeBefore

\* A step that does not touch thread t, nor the turns on it.
LEMMA UntouchedTold ==
    ASSUME NEW t \in Threads, Asks(t), thread'[t] # "gone" => thread[t] # "gone",
           memory'[t] = memory[t], EventsOf(t)' = EventsOf(t),
           \A u \in Turns : turn[u].thread = t \/ turn'[u].thread = t => turn'[u] = turn[u]
    PROVE  Asks(t)'
<1> SUFFICES ASSUME thread'[t] # "gone" PROVE Asks(t)'
  BY DEF Asks
<1> SUFFICES ASSUME ~Spoiled(t)'
             PROVE  /\ Quiet(t)' => Asking(EventsOf(t)') = {memory'[t].pending} \ {None}
                    /\ \A u \in Turns : Active(u)' /\ turn'[u].thread = t /\ ~Spoke(u, t)' =>
                         Asking(Others(u)') = {memory'[t].pending} \ {None}
  BY ToldNext
<1>1. \A u \in Turns : Spoke(u, t)' = Spoke(u, t)
  BY DEF Spoke
<1>2. ~Spoiled(t)
  BY <1>1, SpoiledStays
<1>3. Quiet(t)' => Quiet(t)
  BY DEF Quiet, Active
<1>4. \A u \in Turns : turn'[u].thread = t => Active(u)' = Active(u) /\ Others(u)' = Others(u)
  BY DEF Active, Others
<1>5. QED
  BY <1>1, <1>2, <1>3, <1>4 DEF Asks, Waiting

\* The turn at work ends and leaves nothing: the events are those of the others.
LEMMA LeavesNothing ==
    ASSUME NEW u \in Turns, NEW t \in Threads, turn[u].thread = t, turn'[u].thread = t,
           turn'[u].pc \in Ends \ {"done"}, ~Spoiled(t)',
           rows \subseteq rows', \A e \in rows' \ rows : e.turn = u
    PROVE  EventsOf(t)' = Others(u) /\ ~Spoke(u, t)'
<1>1. Whole(u)'
  BY DEF Spoiled
<1>2. RowsOf(t, u)' = {} /\ ~Spoke(u, t)'
  BY <1>1 DEF Whole, Spoke, RowsOf
<1>3. EventsOf(t)' = Others(u)
  BY <1>2 DEF RowsOf, EventsOf, Others
<1>4. QED
  BY <1>2, <1>3

\* The turn at work ends with its answer: it is the last event of the thread,
\* and asks for a decision when the agent waits for one.
LEMMA AnswerIsLast ==
    ASSUME Inv, OwnInv, TimeInv, NEW u \in Turns, turn[u].pc = "deliver",
           Last(turn[u].buf).type = "ai_message", thread[turn[u].thread] = "live"
    PROVE  Asking(EventsOf(turn[u].thread)) = Waiting(turn[u].thread)
<1> DEFINE r == turn[u]
           t == r.thread
           e == Last(r.buf)
<1>1. Active(u) /\ Bound(u) = TRUE
  BY DEF Active, Steps, Bound, Live
<1>2. r \in Turn /\ r.buf # <<>> /\ TurnOK(r, u, TurnRows(u), TRUE)
  BY <1>1, InvTurn DEF TurnOK, StepOK
<1>3. Len(r.buf) \in 1 .. Len(r.buf)
  BY <1>2, TurnFields
<1>4. e \in Buffered(u) /\ e \in TurnRows(u)
  BY <1>2, <1>3 DEF Last, Buffered, TurnOK, RowsOK
<1>5. e \in Made(u) /\ e \in Event /\ e.turn = u /\ e.thread = t
  BY <1>4, BufferedOwn DEF Made
<1>6. e \in EventsOf(t) /\ EventsOf(t) \in SUBSET Event
  BY <1>4, <1>5 DEF EventsOf, TurnRows, Inv, TypeOK
<1>7. e.seq + 1 = r.seq /\ r.seq \in Nat /\ e.seq \in Nat
  BY <1>2, <1>4, <1>5, BufferedOwn, TurnFields, EventFields DEF EventOK
<1>8. ASSUME NEW d \in EventsOf(t), d # e
      PROVE  Earlier(d, e)
  <2>1. d \in rows /\ d \in Event /\ d.time \in Nat /\ d.seq \in Nat /\ e.time \in Nat
    BY <1>5, <1>8, <1>6 DEF EventsOf, Event
  <2>2. CASE d.turn = u
    <3>1. d \in TurnRows(u) /\ d \in Made(u)
      BY <2>1, <2>2 DEF TurnRows, Made
    <3>2. d.seq < r.seq /\ d.seq # e.seq
      BY <1>2, <1>4, <1>8, <3>1 DEF TurnOK, RowsOK, EventOK
    <3>3. d.time <= e.time
      BY <1>5, <3>1 DEF TimeInv, TurnTime
    <3>4. QED
      BY <1>7, <2>1, <3>2, <3>3 DEF Earlier
  <2>3. CASE d.turn # u
    <3>1. d \in Others(u)
      BY <2>3 DEF Others
    <3>2. QED
      BY <1>1, <1>5, <3>1 DEF TimeInv, TurnTime, Earlier
  <2>4. QED
    BY <2>2, <2>3
<1> DEFINE all == EventsOf(t)
<1>9. Newest(all) = {e}
  <2> HIDE DEF all, e
  <2>1. all \in SUBSET Event /\ e \in all /\ \A d \in all : d # e => Earlier(d, e)
    BY <1>6, <1>8 DEF all
  <2>2. QED
    BY <2>1, NewestIs
<1>10. Asking(all) = IF e.awaiting THEN {e.says.turn} ELSE {}
  BY <1>9 DEF Asking
<1>11. EventSays(e) /\ RunOK(r, u, memory[t])
  BY <1>1, <1>4, OwnFacts
<1>12. Handing(r, {"ai_message"}) /\ Answered(r)
  BY DEF Handing, Answered, Storing
<1>13. e.says.turn = u /\ (e.awaiting <=> memory[t].pending # None)
       /\ memory[t].pending \in {u, None}
  BY <1>5, <1>11, <1>12 DEF EventSays, Own, RunOK
<1>14. u # None
  BY ConversationAssumption
<1>15. QED
  BY <1>10, <1>13, <1>14 DEF Waiting

\* What a step of turn u does to the memory of a thread.
LEMMA BecomesMemory ==
    ASSUME Inv, OwnInv, NEW u \in Turns, NEW n, Becomes(u, n),
           NEW t \in Threads, turn[u].thread = t
    PROVE  /\ UNCHANGED memory \/ Spoke(u, t)'
           /\ \A v \in Turns, x \in Threads : Spoke(v, x) => Spoke(v, x)'
           /\ \A x \in Threads : x # t => memory'[x] = memory[x]
<1> DEFINE msgs == memory[t].msgs
<1>1. memory \in [Threads -> Memory] /\ msgs \in Seq(Message)
  BY OwnFacts DEF Inv, TypeOK, Becomes
<1>2. CASE UNCHANGED memory
  BY <1>2 DEF Spoke
<1>3. CASE \E m \in Message : \E p :
             /\ m.turn = u
             /\ memory' = [memory EXCEPT ![t] = [msgs |-> Append(msgs, m), pending |-> p]]
  <2>1. PICK m \in Message : \E p :
               /\ m.turn = u
               /\ memory' = [memory EXCEPT ![t] = [msgs |-> Append(msgs, m), pending |-> p]]
    BY <1>3
  <2>2. /\ memory'[t].msgs = Append(msgs, m)
        /\ \A x \in Threads : x # t => memory'[x] = memory[x]
    BY <1>1, <2>1
  <2> HIDE DEF msgs
  <2>3. /\ Len(Append(msgs, m)) = Len(msgs) + 1 /\ Append(msgs, m)[Len(msgs) + 1] = m
        /\ \A i \in 1 .. Len(msgs) : Append(msgs, m)[i] = msgs[i]
        /\ Len(msgs) \in Nat
    BY <1>1
  <2>4. Len(msgs) + 1 \in 1 .. Len(Append(msgs, m))
        /\ \A i \in 1 .. Len(msgs) : i \in 1 .. Len(Append(msgs, m))
    BY <2>3
  <2>5. Spoke(u, t)'
    BY <2>1, <2>2, <2>3, <2>4 DEF Spoke
  <2>6. ASSUME NEW v \in Turns, NEW x \in Threads, Spoke(v, x)
        PROVE  Spoke(v, x)'
    <3>1. CASE x = t
      BY <2>2, <2>3, <2>4, <2>6, <3>1, SMTT(30) DEF Spoke, msgs
    <3>2. CASE x # t
      BY <2>2, <2>6, <3>2 DEF Spoke
    <3>3. QED
      BY <3>1, <3>2
  <2>7. QED
    BY <2>2, <2>5, <2>6
<1>4. QED
  BY <1>2, <1>3 DEF Becomes

LEMMA BecomesTold ==
    ASSUME Inv, OwnInv, TimeInv, ToldInv, NEW u \in Turns, NEW n, Becomes(u, n)
    PROVE  ToldInv'
<1>1. PICK t \in Threads : turn[u].thread = t
  BY OwnFacts DEF Becomes
<1>2. /\ Active(u) /\ turn[u].thread = t /\ turn[u].pc \notin Ends /\ UNCHANGED thread
      /\ turn[u].pc # "new" /\ thread \in [Threads -> {"none", "live", "gone"}]
  BY <1>1 DEF Becomes, Active, Steps, StoreSteps, RunSteps, Ends, Inv, TypeOK
<1>3. /\ turn'[u] = n /\ \A v \in Turns \ {u} : turn'[v] = turn[v]
      /\ \A v \in Turns : turn'[v].thread = turn[v].thread
      /\ \A v \in Turns : Active(v)' => Active(v)
      /\ Others(u)' = Others(u)
  BY <1>2, BecomesEvents
<1>4. ASSUME NEW x \in Threads, x # t
      PROVE  Asks(x)'
  <2>1. memory'[x] = memory[x] /\ EventsOf(x)' = EventsOf(x)
    BY <1>2, <1>4, BecomesEvents, BecomesMemory
  <2>2. \A v \in Turns : turn[v].thread = x \/ turn'[v].thread = x => turn'[v] = turn[v]
    BY <1>2, <1>3, <1>4
  <2>3. Asks(x) /\ thread'[x] = thread[x]
    BY <1>2 DEF ToldInv
  <2>4. QED
    BY <2>1, <2>2, <2>3, UntouchedTold
<1>5. Asks(t)'
  <2> SUFFICES ASSUME thread'[t] # "gone" PROVE Asks(t)'
    BY DEF Asks
  <2> SUFFICES ASSUME ~Spoiled(t)'
               PROVE  /\ Quiet(t)' => Asking(EventsOf(t)') = {memory'[t].pending} \ {None}
                      /\ \A v \in Turns : Active(v)' /\ turn'[v].thread = t /\ ~Spoke(v, t)' =>
                           Asking(Others(v)') = {memory'[t].pending} \ {None}
    BY <1>2, ToldNext
  <2>1. rows \subseteq rows' /\ \A e \in rows' \ rows : e.turn = u
    <3>1. \A e \in Buffered(u) : e.turn = u
      BY BufferedOwn
    <3>2. QED
      BY <3>1 DEF Becomes, Buffered, In
  <2>2. EventsOf(t) \subseteq EventsOf(t)'
    BY <2>1 DEF EventsOf
  <2>3. \A v \in Turns : turn[v].thread = t /\ turn[v].pc \in Ends =>
           turn'[v] = turn[v] /\ (Spoke(v, t) => Spoke(v, t)')
    BY <1>2, <1>3, BecomesMemory
  <2>4. ~Spoiled(t)
    BY <1>2, <2>2, <2>3, SpoiledStays
  <2>5. ~Spoke(u, t) => Asking(Others(u)) = Waiting(t)
    BY <1>2, <2>4 DEF ToldInv, Asks
  <2>6. ~Spoke(u, t)' => memory' = memory /\ Asking(Others(u)) = {memory'[t].pending} \ {None}
    BY <1>2, <2>5, BecomesMemory DEF Waiting
  <2>7. \A v \in Turns : Active(v)' /\ turn'[v].thread = t => v = u
    BY <1>2, <1>3 DEF OwnInv, Alone
  <2>8. \A v \in Turns : Active(v)' /\ turn'[v].thread = t /\ ~Spoke(v, t)' =>
           Asking(Others(v)') = {memory'[t].pending} \ {None}
    BY <1>3, <2>6, <2>7
  <2>9. ASSUME Quiet(t)'
        PROVE  Asking(EventsOf(t)') = {memory'[t].pending} \ {None}
    <3>1. turn'[u].pc \in Ends
      BY <1>2, <1>3, <2>9 DEF Quiet, Active, Becomes
    <3>2. CASE turn'[u].pc = "done"
      <4>1. /\ turn[u].pc = "deliver" /\ Last(turn[u].buf).type = "ai_message"
            /\ UNCHANGED <<rows, memory>>
        BY <1>3, <3>2 DEF Becomes
      <4>2. thread[t] # "none"
        BY <1>2 DEF Inv
      <4>3. thread[t] = "live"
        BY <1>2, <4>2
      <4>4. Asking(EventsOf(t)) = Waiting(t)
        BY <1>2, <4>1, <4>3, AnswerIsLast
      <4>5. EventsOf(t)' = EventsOf(t)
        BY <4>1 DEF EventsOf
      <4>6. QED
        BY <4>1, <4>4, <4>5 DEF Waiting
    <3>3. CASE turn'[u].pc # "done"
      <4>1. EventsOf(t)' = Others(u) /\ ~Spoke(u, t)'
        BY <1>2, <1>3, <2>1, <3>1, <3>3, LeavesNothing
      <4>2. QED
        BY <2>6, <4>1
    <3>4. QED
      BY <3>2, <3>3
  <2>10. QED
    BY <2>8, <2>9
<1>6. QED
  BY <1>4, <1>5 DEF ToldInv

LEMMA BeginsTold ==
    ASSUME Inv, ToldInv, ~Overlap, NEW u \in Turns, NEW t \in Threads, NEW n, Begins(u, t, n)
    PROVE  ToldInv'
<1>1. /\ turn'[u] = n /\ n.thread = t /\ n.pc \in {"route", "get"} /\ turn[u].pc = "new"
      /\ \A v \in Turns \ {u} : turn'[v] = turn[v] /\ Others(v)' = Others(v)
      /\ UNCHANGED <<rows, memory, thread>> /\ Others(u)' = EventsOf(t)
  <2>1. n.thread = t /\ n.pc \in {"route", "get"} /\ turn[u].pc = "new"
    BY DEF Begins
  <2>2. QED
    BY <2>1, BeginsEvents
<1>2. turn[u].pc \notin Ends \cup Steps /\ turn'[u].pc \in Steps \ Ends
  BY <1>1 DEF Ends, Steps, StoreSteps, RunSteps
<1>3. \A x \in Threads, v \in Turns : EventsOf(x)' = EventsOf(x) /\ Spoke(v, x)' = Spoke(v, x)
  BY <1>1 DEF EventsOf, Spoke
<1>4. ASSUME NEW x \in Threads, thread'[x] # "gone", ~Spoiled(x)'
      PROVE  /\ Quiet(x)' => Asking(EventsOf(x)') = {memory'[x].pending} \ {None}
             /\ \A v \in Turns : Active(v)' /\ turn'[v].thread = x /\ ~Spoke(v, x)' =>
                  Asking(Others(v)') = {memory'[x].pending} \ {None}
  <2>1. \A v \in Turns : turn[v].thread = x /\ turn[v].pc \in Ends =>
           turn'[v] = turn[v] /\ (Spoke(v, x) => Spoke(v, x)')
    BY <1>1, <1>2, <1>3
  <2>2. ~Spoiled(x)
    BY <1>3, <1>4, <2>1, SpoiledStays
  <2>3. thread[x] # "gone" /\ memory' = memory
    BY <1>1, <1>4
  <2>4. Quiet(x) => Asking(EventsOf(x)) = {memory'[x].pending} \ {None}
    BY <2>2, <2>3 DEF ToldInv, Asks, Waiting
  <2>5. \A v \in Turns : Active(v) /\ turn[v].thread = x /\ ~Spoke(v, x) =>
           Asking(Others(v)) = {memory'[x].pending} \ {None}
    BY <2>2, <2>3 DEF ToldInv, Asks, Waiting
  <2>6. Quiet(x)' => Quiet(x)
    BY <1>1, <1>2 DEF Quiet, Active
  <2>7. ASSUME NEW v \in Turns, Active(v)', turn'[v].thread = x, ~Spoke(v, x)'
        PROVE  Asking(Others(v)') = {memory'[x].pending} \ {None}
    <3>1. CASE v # u
      BY <1>1, <1>3, <2>5, <2>7, <3>1 DEF Active
    <3>2. CASE v = u
      <4>1. x = t
        BY <1>1, <2>7, <3>2
      <4>2. Quiet(t)
        BY DEF Begins, Quiet
      <4>3. QED
        BY <1>1, <2>4, <3>2, <4>1, <4>2
    <3>3. QED
      BY <3>1, <3>2
  <2>8. QED
    BY <1>3, <2>4, <2>6, <2>7
<1>5. ASSUME NEW x \in Threads
      PROVE  Asks(x)'
  <2>1. CASE thread'[x] = "gone"
    BY <2>1 DEF Asks
  <2>2. CASE thread'[x] # "gone"
    BY <1>4, <2>2, ToldNext
  <2>3. QED
    BY <2>1, <2>2
<1>6. QED
  BY <1>5 DEF ToldInv

\* The process dies: a turn that was at work spoils its thread, or leaves nothing.
LEMMA RestartTold ==
    ASSUME Inv, OwnInv, ToldInv, Restart
    PROVE  ToldInv'
<1>1. /\ UNCHANGED <<thread, rows, memory>>
      /\ turn' = [u \in Turns |-> IF Active(u) THEN Ended(turn[u], "cut") ELSE turn[u]]
  BY DEF Restart, Ended
<1>2. ASSUME NEW u \in Turns, Active(u)
      PROVE  turn'[u].pc = "cut" /\ turn'[u].thread = turn[u].thread
  BY <1>1, <1>2, OwnFacts, CutOwn
<1>3. \A u \in Turns : ~Active(u) => turn'[u] = turn[u]
  BY <1>1
<1>4. "cut" \in Ends \ {"done"} /\ "cut" \notin Steps /\ Ends \cap Steps = {}
  BY DEF Ends, Steps, StoreSteps, RunSteps
<1>5. \A u \in Turns : ~Active(u)'
  BY <1>2, <1>3, <1>4 DEF Active
<1>6. \A x \in Threads, u \in Turns : EventsOf(x)' = EventsOf(x) /\ Spoke(u, x)' = Spoke(u, x)
  BY <1>1 DEF EventsOf, Spoke
<1>7. ASSUME NEW t \in Threads, thread'[t] # "gone", ~Spoiled(t)'
      PROVE  Asking(EventsOf(t)') = {memory'[t].pending} \ {None}
  <2>1. \A u \in Turns : turn[u].thread = t /\ turn[u].pc \in Ends =>
           turn'[u] = turn[u] /\ (Spoke(u, t) => Spoke(u, t)')
    BY <1>3, <1>4, <1>6 DEF Active
  <2>2. EventsOf(t)' = EventsOf(t)
    BY <1>1 DEF EventsOf
  <2>3. ~Spoiled(t)
    BY <1>7, <2>1, <2>2, SpoiledStays
  <2>4. Asks(t) /\ thread[t] # "gone" /\ memory' = memory
    BY <1>1, <1>7 DEF ToldInv
  <2>5. CASE Quiet(t)
    BY <2>2, <2>3, <2>4, <2>5 DEF Asks, Waiting
  <2>6. CASE ~Quiet(t)
    <3>1. PICK u \in Turns : turn[u].thread = t /\ Active(u)
      BY <2>6 DEF Quiet
    <3>2. EventsOf(t)' = Others(u) /\ ~Spoke(u, t)'
      <4>1. turn'[u].thread = t /\ turn'[u].pc \in Ends \ {"done"}
        BY <1>2, <1>4, <3>1
      <4>2. QED
        BY <1>1, <1>7, <3>1, <4>1, LeavesNothing
    <3>3. QED
      BY <1>6, <2>3, <2>4, <3>1, <3>2 DEF Asks, Waiting
  <2>7. QED
    BY <2>5, <2>6
<1>8. ASSUME NEW t \in Threads
      PROVE  Asks(t)'
  <2>1. CASE thread'[t] = "gone"
    BY <2>1 DEF Asks
  <2>2. CASE thread'[t] # "gone"
    BY <1>5, <1>7, <2>2, ToldNext
  <2>3. QED
    BY <2>1, <2>2
<1>9. QED
  BY <1>8 DEF ToldInv

LEMMA ToldInit == Init => ToldInv
<1> SUFFICES ASSUME Init, NEW t \in Threads PROVE Asks(t)
  BY DEF ToldInv
<1>1. EventsOf(t) = {} /\ memory[t].pending = None
  BY DEF Init, EventsOf
<1>2. \A u \in Turns : turn[u].pc = "new" /\ "new" \notin Steps
  BY DEF Init, New, Steps, StoreSteps, RunSteps
<1>3. Asking(EventsOf(t)) = {} /\ Waiting(t) = {}
  BY <1>1 DEF Asking, Newest, Waiting
<1>4. QED
  BY <1>2, <1>3 DEF Asks, Active

LEMMA ToldNextInv ==
    ~Overlap /\ Inv /\ OwnInv /\ TimeInv /\ ToldInv /\ [Next]_vars => ToldInv'
<1> SUFFICES ASSUME ~Overlap, Inv, OwnInv, TimeInv, ToldInv, [Next]_vars PROVE ToldInv'
  OBVIOUS
<1>1. ASSUME UNCHANGED <<memory, turn>>,
             \A x \in Threads : thread'[x] # "gone" =>
                thread[x] # "gone" /\ EventsOf(x)' = EventsOf(x)
      PROVE  ToldInv'
  <2> SUFFICES ASSUME NEW x \in Threads PROVE Asks(x)'
    BY DEF ToldInv
  <2>1. CASE thread'[x] = "gone"
    BY <2>1 DEF Asks
  <2>2. CASE thread'[x] # "gone"
    <3>1. Asks(x) /\ memory'[x] = memory[x] /\ turn' = turn
      BY <1>1 DEF ToldInv
    <3>2. QED
      BY <1>1, <2>2, <3>1, UntouchedTold
  <2>3. QED
    BY <2>1, <2>2
<1>2. thread \in [Threads -> {"none", "live", "gone"}]
  BY DEF Inv, TypeOK
<1>3. ASSUME NEW t \in Threads, CreateThread(t)
      PROVE  ToldInv'
  BY <1>1, <1>2, <1>3 DEF CreateThread, EventsOf
<1>4. ASSUME NEW t \in Threads, DeleteThread(t)
      PROVE  ToldInv'
  BY <1>1, <1>2, <1>4 DEF DeleteThread, EventsOf
<1>5. ASSUME NEW u \in Turns, NEW t \in Threads, Start(u, t)
      PROVE  ToldInv'
  BY <1>5, StartBegins, BeginsTold
<1>6. ASSUME NEW u \in Turns, ServerStep(u) \/ GraphStep(u) \/ Deliver(u) \/ Disconnect(u)
      PROVE  ToldInv'
  BY <1>6, TurnBecomes, BecomesTold
<1>7. CASE Restart
  BY <1>7, RestartTold
<1>8. CASE UNCHANGED vars
  BY <1>1, <1>8 DEF vars, EventsOf
<1>9. QED
  BY <1>3, <1>4, <1>5, <1>6, <1>7, <1>8 DEF Next

\* PendingTold: when clients wait for their turn, the last event of a thread at
\* rest, all of whose turns ended well or left nothing, asks for a decision
\* exactly when the agent waits for one, and on the answer it waits on.
THEOREM PendingTold ==
    ASSUME ~Overlap
    PROVE  Spec => []AwaitingIsPending
<1>1. Init => OwnInv /\ TimeInv /\ ToldInv
  BY OwnInit, TimeInit, ToldInit
<1>2. Inv /\ OwnInv /\ TimeInv /\ ToldInv /\ [Next]_vars => (OwnInv /\ TimeInv /\ ToldInv)'
  BY OwnNext, TimeNext, ToldNextInv
<1>3. ToldInv => AwaitingIsPending
  <2> SUFFICES ASSUME ToldInv, NEW t \in Threads, Settled(t)
               PROVE  Asking(EventsOf(t)) = {memory[t].pending} \ {None}
    BY DEF AwaitingIsPending
  <2>1. thread[t] = "live" /\ Quiet(t) /\ ~Spoiled(t)
    BY DEF Settled, Spoiled
  <2>2. QED
    BY <2>1 DEF ToldInv, Asks, Waiting
<1>4. QED
  BY <1>1, <1>2, <1>3, Invariance, PTL DEF Spec

-----------------------------------------------------------------------------
(* What a turn says, event by event *)

\* What an event of a request of this kind says.
Said(e, kind) ==
    /\ e.type = "human_message" => kind # "resume" /\ e.says = [role |-> "human", turn |-> e.turn]
    /\ e.type = "hitl_decision" => kind = "resume"
    /\ e.type = "tool_result" => e.says \in {[role |-> "tool", turn |-> e.turn], NoMessage}

\* The graph has not loaded the message of the turn yet.
Unloaded(r) == r.kind # "resume" /\ (r.pc = "load" \/ Handing(r, Leading))

\* The events of a turn are numbered in the order in which they are made, each
\* with a number of its own.
SaidTurn(u) ==
    /\ turn[u].pc \in Ends => turn[u].buf = <<>>
    /\ Unloaded(turn[u]) => turn[u].seq = 1
    /\ \A e \in Made(u) : Said(e, turn[u].kind)
    /\ \A d, e \in Made(u) : d.seq < e.seq => d.time <= e.time
    /\ \A d, e \in Made(u) : d.seq = e.seq => d = e

SaidInv == \A u \in Turns : SaidTurn(u)

\* A step of turn u makes no event, or one that says what it should.
SaidStep(u) ==
    /\ turn'[u].kind = turn[u].kind
    /\ turn'[u].pc \in Ends => turn'[u].buf = <<>>
    /\ Unloaded(turn'[u]) => turn'[u].seq = 1
    /\ \/ Made(u)' \subseteq Made(u)
       \/ \E e : /\ e.time = clock /\ e.seq = turn[u].seq /\ Said(e, turn[u].kind)
                 /\ Made(u)' \subseteq Made(u) \cup {e}

\* The events of turn u that stand for messages which the agent has seen, and
\* the number of messages without those whose events the turn has yet to make.
Told == {"human_message", "tool_result", "ai_message"}

Counted(u) ==
    {e \in Made(u) : /\ e.type \in Told /\ ~OfSubagent(e)
                     /\ Unloaded(turn[u]) => e.type # "human_message"}

Answering(r) == r.pc \in {"values", "status"}

Spelt(r, m) == IF Answering(r) THEN Len(m.msgs) - 1 ELSE Len(m.msgs)

\* A step of turn u adds nothing to both, or the same to both, or a message that
\* is not shown.
Tells(u) ==
    LET m == memory[turn[u].thread]
        n == memory'[turn[u].thread]
        spelt == Spelt(turn[u], m)
    IN  /\ \A i \in 1 .. spelt : n.msgs[i] = m.msgs[i]
        /\ \/ Counted(u)' = Counted(u) /\ Spelt(turn'[u], n) = spelt
           \/ /\ Spelt(turn'[u], n) = spelt + 1
              /\ \E e \in Made(u)' : /\ Counted(u)' = Counted(u) \cup {e}
                                     /\ \A d \in Counted(u) : Earlier(d, e)
                                     /\ n.msgs[spelt + 1] = e.says /\ ~Unshown(e.says)
           \/ /\ Counted(u)' = Counted(u) /\ Spelt(turn'[u], n) = spelt + 1
              /\ Unshown(n.msgs[spelt + 1])

\* What a step of turn u does, unless it ends badly or its thread is gone.
Speaks(u) ==
    /\ SaidStep(u)
    /\ thread[turn[u].thread] = "live" /\ turn'[u].pc \notin {"failed", "cut"} => Tells(u)

\* The step makes event e.
Adds(u, e) ==
    /\ e \in Event /\ e.turn = u /\ e.seq = turn[u].seq /\ e.time = clock
    /\ Made(u)' = Made(u) \cup {e}
    /\ turn'[u].buf # <<>> /\ Last(turn'[u].buf) = e
    /\ turn'[u].kind = turn[u].kind /\ turn'[u].seq = turn[u].seq + 1
    /\ turn'[u].pc = IF Streamed(u) \/ e.type = "ai_message"
                     THEN "check" ELSE AfterEvent(turn[u], e.seq, e.type)

\* The step makes an event of this type that says this.
Makes(u, type, says) == \E e : Adds(u, e) /\ e.type = type /\ e.says = says

LEMMA EmitAdds ==
    ASSUME Inv, OwnInv, NEW u \in Turns, NEW r \in Turn, NEW type \in EventTypes,
           NEW says \in Message \cup {NoMessage}, NEW awaiting \in BOOLEAN,
           Emit(u, r, type, says, awaiting), SameTrace(turn[u], r), Active(u), UNCHANGED rows
    PROVE  Makes(u, type, says)
<1> DEFINE e == [thread |-> r.thread, turn |-> u, seq |-> r.seq, type |-> type,
                 time |-> clock, says |-> says, awaiting |-> awaiting]
           next == IF Streamed(u) \/ type = "ai_message" THEN "check" ELSE AfterEvent(r, r.seq, type)
           n == [r EXCEPT !.buf = Append(@, e), !.seq = @ + 1, !.pc = next]
<1>1. turn' = [turn EXCEPT ![u] = n] /\ turn \in [Turns -> Turn] /\ clock \in Nat
  BY DEF Emit, Inv, TypeOK
<1>2. r.thread \in Threads /\ r.buf = turn[u].buf /\ r.seq = turn[u].seq /\ r.kind = turn[u].kind
  BY OwnFacts DEF SameTrace, SameRequest
<1>3. e \in Event
  BY <1>1, <1>2, TurnFields DEF Event
<1>4. e.time = clock /\ e.type = type /\ e.says = says /\ e.turn = u /\ e.seq = r.seq
  OBVIOUS
<1> HIDE DEF e, next
<1>5. n.buf = Append(r.buf, e) /\ n.pc = next /\ n.seq = r.seq + 1 /\ n.kind = r.kind
  BY DEF Turn
<1> HIDE DEF n
<1>6. turn'[u] = n
  BY <1>1
<1>7. n.buf # <<>> /\ Last(n.buf) = e
  BY <1>3, <1>5, TurnFields, LastAppended
<1>8. r.buf \in Seq(Event)
  BY TurnFields
<1>9. Buffered(u)' = Buffered(u) \cup {e}
  <2>1. /\ Len(n.buf) = Len(r.buf) + 1 /\ n.buf[Len(r.buf) + 1] = e
        /\ \A i \in 1 .. Len(r.buf) : n.buf[i] = r.buf[i]
        /\ Len(r.buf) \in Nat
    BY <1>3, <1>5, <1>8
  <2>2. 1 .. Len(n.buf) = (1 .. Len(r.buf)) \cup {Len(r.buf) + 1}
    BY <2>1
  <2>3. Buffered(u)' = {n.buf[i] : i \in 1 .. Len(n.buf)}
    BY <1>6 DEF Buffered
  <2>4. Buffered(u) = {r.buf[i] : i \in 1 .. Len(r.buf)}
    BY <1>2 DEF Buffered
  <2>5. QED
    BY <2>1, <2>2, <2>3, <2>4
<1>10. Made(u)' = Made(u) \cup {e}
  BY <1>9 DEF Made, TurnRows
<1>14. AfterEvent(r, r.seq, type) = AfterEvent(turn[u], e.seq, e.type)
  BY <1>4, SameLeads DEF AfterEvent, SameTrace
<1>11. turn'[u].pc = IF Streamed(u) \/ e.type = "ai_message"
                     THEN "check" ELSE AfterEvent(turn[u], e.seq, e.type)
  BY <1>4, <1>5, <1>6, <1>14 DEF next
<1>12. Adds(u, e)
  BY <1>2, <1>3, <1>4, <1>5, <1>6, <1>7, <1>10, <1>11 DEF Adds
<1>13. QED
  BY <1>4, <1>12 DEF Makes

\* Where a turn is when it has made an event.
LEMMA AddsPlace ==
    ASSUME NEW u \in Turns, NEW e, Adds(u, e)
    PROVE  /\ turn'[u].pc \in {"check", "load", "run", "decide"} /\ ~Answering(turn'[u])
           /\ turn'[u].pc \notin Ends
           /\ Unloaded(turn'[u]) <=> e.type \in Leading /\ turn[u].kind # "resume"
<1> DEFINE next == AfterEvent(turn[u], e.seq, e.type)
<1>1. e.type \in EventTypes /\ e.seq \in Nat /\ turn'[u].kind = turn[u].kind
  BY EventFields DEF Adds
<1>2. /\ next \in {"load", "run", "done", "decide"}
      /\ next = "done" <=> e.type = "ai_message"
      /\ next \in {"load", "decide"} <=> e.type \in Leading
      /\ "ai_message" \notin Leading
  BY <1>1 DEF AfterEvent, EventTypes, Leading, Intermediate
<1>3. turn[u].kind # "resume" => next # "decide"
  <2> DEFINE more == e.seq + 1 < Leads(turn[u])
  <2>1. CASE e.type \in Leading
    <3>1. turn[u].kind # "resume" => ~more
      BY <1>1 DEF Leads
    <3>2. next = IF more THEN "decide" ELSE "load"
      BY <2>1 DEF AfterEvent, Leading, Intermediate
    <3> HIDE DEF more, next
    <3>3. "load" # "decide"
      OBVIOUS
    <3>4. QED
      BY <3>1, <3>2, <3>3, Zenon
  <2>2. QED
    BY <1>2, <2>1
<1> HIDE DEF next
<1>4. turn'[u].pc \in {"check", "load", "run", "decide"}
  BY <1>2 DEF Adds, next
<1>5. Last(turn'[u].buf) = e
  BY DEF Adds
<1>6. /\ "check" \in Storing /\ "load" \notin Storing /\ "run" \notin Storing
      /\ "decide" \notin Storing
  BY DEF Storing, StoreSteps
<1>7. Unloaded(turn'[u]) <=> e.type \in Leading /\ turn[u].kind # "resume"
  <2>1. CASE turn'[u].pc = "check"
    BY <1>1, <1>5, <1>6, <2>1 DEF Unloaded, Handing
  <2>2. CASE turn'[u].pc # "check"
    <3>1. turn'[u].pc = next
      BY <2>2 DEF Adds, next
    <3>2. QED
      BY <1>1, <1>2, <1>3, <1>4, <1>6, <2>2, <3>1 DEF Unloaded, Handing
  <2>3. QED
    BY <2>1, <2>2
<1>8. QED
  BY <1>4, <1>7 DEF Answering, Ends

LEMMA AddsSaid ==
    ASSUME Inv, NEW u \in Turns, NEW e, Adds(u, e), Said(e, turn[u].kind),
           e.type \in Leading /\ turn[u].kind # "resume" => turn[u].seq = 0
    PROVE  SaidStep(u)
<1>1. turn[u].seq \in Nat
  BY InvTurn, TurnFields
<1>2. QED
  BY <1>1, AddsPlace DEF SaidStep, Adds

\* The event that a turn makes comes after all others of the turn.
LEMMA AddsLast ==
    ASSUME Inv, TimeInv, NEW u \in Turns, NEW e, Adds(u, e), NEW d \in Made(u)
    PROVE  Earlier(d, e)
<1>1. d.time \in Nat /\ d.time <= clock /\ d.seq < turn[u].seq
  BY MadeFacts DEF TimeInv, TurnTime, EventOK
<1>2. clock \in Nat
  BY DEF Inv, TypeOK
<1>3. QED
  BY <1>1, <1>2 DEF Adds, Earlier

\* A step that makes no event and adds no message.
LEMMA SameSpeaks ==
    ASSUME SaidInv, NEW u \in Turns, Made(u)' \subseteq Made(u),
           turn'[u].kind = turn[u].kind, turn'[u].pc \in Ends => turn'[u].buf = <<>>,
           Unloaded(turn'[u]) => Unloaded(turn[u]) /\ turn'[u].seq = turn[u].seq,
           thread[turn[u].thread] = "live" /\ turn'[u].pc \notin {"failed", "cut"} =>
             /\ Counted(u)' = Counted(u) /\ UNCHANGED memory
             /\ Answering(turn'[u]) <=> Answering(turn[u])
    PROVE  Speaks(u)
<1>1. SaidStep(u)
  BY DEF SaidStep, SaidInv, SaidTurn
<1>2. ASSUME thread[turn[u].thread] = "live", turn'[u].pc \notin {"failed", "cut"}
      PROVE  Tells(u)
  BY <1>2 DEF Tells, Spelt
<1>3. QED
  BY <1>1, <1>2 DEF Speaks

\* A step that makes an event which stands for no message of the agent.
LEMMA AddsUncounted ==
    ASSUME Inv, NEW u \in Turns, NEW e, Adds(u, e), Said(e, turn[u].kind),
           e.type \notin Told \/ OfSubagent(e),
           e.type \in Leading => turn[u].kind = "resume",
           ~Unloaded(turn[u]), ~Answering(turn[u]), UNCHANGED memory
    PROVE  Speaks(u)
<1>1. SaidStep(u)
  BY AddsSaid
<1>2. ~Unloaded(turn'[u]) /\ ~Answering(turn'[u])
  BY AddsPlace
<1>3. Counted(u)' = Counted(u)
  BY <1>2 DEF Counted, Adds, OfSubagent
<1>4. Tells(u)
  BY <1>2, <1>3 DEF Tells, Spelt
<1>5. QED
  BY <1>1, <1>4 DEF Speaks

LEMMA EndSpeaks ==
    ASSUME Inv, OwnInv, SaidInv, NEW u \in Turns, NEW how \in {"failed", "cut"},
           Active(u), End(u, how), rows' \subseteq rows \cup In(turn[u].buf)
    PROVE  Speaks(u)
<1>1. turn' = [turn EXCEPT ![u] = Ended(turn[u], how)] /\ turn \in [Turns -> Turn]
  BY DEF End, Ended, Inv, TypeOK
<1>2. /\ Ended(turn[u], how).buf = <<>> /\ Ended(turn[u], how).pc = how
      /\ Ended(turn[u], how).kind = turn[u].kind
  BY <1>1 DEF Ended, Turn
<1>3. turn'[u].buf = <<>> /\ turn'[u].pc = how /\ turn'[u].kind = turn[u].kind
  BY <1>1, <1>2
<1>4. Made(u)' \subseteq Made(u)
  BY <1>3 DEF Made, TurnRows, Buffered, In
<1>5. ~Unloaded(turn'[u])
  BY <1>3 DEF Unloaded, Handing, Storing, StoreSteps
<1>6. QED
  BY <1>3, <1>4, <1>5, SameSpeaks

LEMMA GotoSpeaks ==
    ASSUME Inv, SaidInv, NEW u \in Turns, NEW step \in Steps, Goto(u, step),
           \/ /\ turn[u].pc \in {"route", "get", "runner", "prepare"}
              /\ step \in {"get", "runner", "prepare", "decide"}
           \/ turn[u].pc \in Storing /\ step \in Storing,
           UNCHANGED memory, rows \subseteq rows', rows' \subseteq rows \cup In(turn[u].buf)
    PROVE  Speaks(u)
<1> DEFINE n == [turn[u] EXCEPT !.pc = step]
<1>1. turn' = [turn EXCEPT ![u] = n] /\ turn \in [Turns -> Turn]
  BY DEF Goto, Inv, TypeOK
<1>2. n.pc = step /\ n.buf = turn[u].buf /\ n.kind = turn[u].kind /\ n.seq = turn[u].seq
  BY <1>1 DEF Turn
<1> HIDE DEF n
<1>3. turn'[u] = n
  BY <1>1
<1>4. Made(u)' = Made(u)
  <2>1. Buffered(u)' = Buffered(u) /\ Buffered(u) = In(turn[u].buf)
    BY <1>2, <1>3 DEF Buffered, In
  <2>2. \A e \in In(turn[u].buf) : e.turn = u
    BY <2>1, BufferedOwn
  <2>3. QED
    BY <2>1, <2>2 DEF Made, TurnRows
<1>5. Unloaded(n) <=> Unloaded(turn[u])
  BY <1>2 DEF Unloaded, Handing, Storing, StoreSteps
<1>6. ~Answering(n) /\ ~Answering(turn[u])
  BY <1>2 DEF Answering, Storing, StoreSteps
<1>7. n.pc \notin Ends
  BY <1>2 DEF Ends, Steps, StoreSteps, RunSteps
<1>8. Counted(u)' = Counted(u)
  BY <1>3, <1>4, <1>5 DEF Counted, OfSubagent
<1>9. QED
  BY <1>2, <1>3, <1>4, <1>5, <1>6, <1>7, <1>8, SameSpeaks

\* A turn that has not made an event.
LEMMA EarlyMade ==
    ASSUME Inv, NEW u \in Turns, turn[u].seq = 0
    PROVE  Made(u) = {}
<1>1. ASSUME NEW e \in Made(u)
      PROVE  FALSE
  BY MadeFacts DEF EventOK, Event
<1>2. QED
  BY <1>1

LEMMA PreparationSpeaks ==
    ASSUME Inv, OwnInv, SaidInv, NEW u \in Turns,
           GetThread(u) \/ GetRunner(u) \/ RunnerMissing(u) \/ PrepareResume(u)
    PROVE  Speaks(u)
<1>1. /\ turn[u].pc \in {"route", "get", "runner", "prepare"}
      /\ UNCHANGED <<thread, rows, memory, clock>>
  BY DEF GetThread, GetRunner, RunnerMissing, PrepareResume
<1>2. Active(u) /\ turn[u].seq = 0 /\ ~Answering(turn[u])
  <2>1. turn[u].pc \in Steps \cap Early
    BY <1>1 DEF Steps, Early
  <2>2. QED
    BY <1>1, <2>1, InvTurn DEF Active, TurnOK, StepOK, Answering
<1>3. turn[u] \in Turn /\ SameTrace(turn[u], turn[u]) /\ FALSE \in BOOLEAN
  BY <1>2, OwnFacts DEF SameTrace, SameRequest
<1>4. rows \subseteq rows' /\ rows' \subseteq rows \cup In(turn[u].buf) /\ memory' = memory
  BY <1>1
<1>5. {"get", "runner", "prepare", "decide"} \subseteq Steps
  BY DEF Steps
<1>6. Made(u) = {}
  BY <1>2, EarlyMade
<1>7. "human_message" \in EventTypes /\ "human_message" \in Leading
  BY DEF EventTypes, Leading
<1>8. CASE GetThread(u) \/ RunnerMissing(u) \/ PrepareResume(u)
           \/ (GetRunner(u) /\ turn[u].kind = "resume")
  <2>1. CASE End(u, "failed")
    BY <1>2, <1>4, <2>1, EndSpeaks
  <2>2. CASE \E step \in {"get", "runner", "prepare", "decide"} :
               Goto(u, step) /\ turn[u].pc \in {"route", "get", "runner", "prepare"}
    BY <1>4, <1>5, <2>2, GotoSpeaks
  <2>3. QED
    BY <1>8, <2>1, <2>2 DEF GetThread, GetRunner, RunnerMissing, PrepareResume
<1>9. CASE GetRunner(u) /\ turn[u].kind # "resume"
  <2> DEFINE says == [role |-> "human", turn |-> u]
  <2>1. Emit(u, turn[u], "human_message", says, FALSE)
    BY <1>9 DEF GetRunner
  <2>2. says \in Message \cup {NoMessage} /\ UNCHANGED rows
    BY <1>1 DEF Message
  <2> HIDE DEF says
  <2>3. Makes(u, "human_message", says)
    BY <1>2, <1>3, <1>7, <2>1, <2>2, EmitAdds
  <2>4. PICK e : Adds(u, e) /\ e.type = "human_message" /\ e.says = says
    BY <2>3 DEF Makes
  <2>5. Said(e, turn[u].kind)
    BY <1>9, <2>4 DEF Said, Adds, says
  <2>6. SaidStep(u)
    BY <1>2, <2>4, <2>5, AddsSaid
  <2>7. Counted(u) = {} /\ Made(u)' = {e}
    BY <1>6, <2>4 DEF Counted, Adds
  <2>8. ~Answering(turn'[u]) /\ Unloaded(turn'[u])
    BY <1>7, <1>9, <2>4, AddsPlace
  <2>9. Counted(u)' = {}
    BY <2>4, <2>7, <2>8 DEF Counted
  <2>10. Tells(u)
    BY <1>1, <1>2, <2>7, <2>8, <2>9 DEF Tells, Spelt
  <2>11. QED
    BY <2>6, <2>10 DEF Speaks
<1>10. QED
  BY <1>8, <1>9

LEMMA DecideSpeaks ==
    ASSUME Inv, OwnInv, SaidInv, NEW u \in Turns, Decide(u)
    PROVE  Speaks(u)
<1> DEFINE says == [role |-> "call", turn |-> turn[u].target]
<1>1. /\ turn[u].pc = "decide" /\ UNCHANGED <<thread, rows, memory, clock>>
      /\ Emit(u, turn[u], "hitl_decision", says, FALSE)
  BY DEF Decide
<1>2. Active(u) /\ turn[u] \in Turn /\ SameTrace(turn[u], turn[u]) /\ FALSE \in BOOLEAN
  BY <1>1, OwnFacts DEF Active, Steps, SameTrace, SameRequest
<1>3. turn[u].kind = "resume" /\ turn[u].target \in Turns
  BY <1>1, InvTurn DEF TurnOK, StepOK
<1>4. says \in Message \cup {NoMessage} /\ "hitl_decision" \in EventTypes
  BY <1>3 DEF Message, EventTypes, Leading
<1> HIDE DEF says
<1>5. Makes(u, "hitl_decision", says)
  BY <1>1, <1>2, <1>4, EmitAdds
<1>6. PICK e : Adds(u, e) /\ e.type = "hitl_decision"
  BY <1>5 DEF Makes
<1>7. Said(e, turn[u].kind) /\ e.type \notin Told
  BY <1>3, <1>6 DEF Said, Told
<1>8. ~Unloaded(turn[u]) /\ ~Answering(turn[u])
  BY <1>1, <1>3 DEF Unloaded, Answering
<1>9. QED
  BY <1>1, <1>3, <1>6, <1>7, <1>8, AddsUncounted

\* A turn at work on a live thread that has made an event still has one.
LEMMA SomeMade ==
    ASSUME Inv, NEW u \in Turns, Active(u), turn[u].seq = 1, thread[turn[u].thread] = "live"
    PROVE  Made(u) # {}
<1> DEFINE r == turn[u]
<1>1. r \in Turn /\ r.pc \in Steps /\ Bound(u) = TRUE /\ Len(r.buf) \in Nat
  BY InvTurn, TurnFields DEF Active, Bound, Live, Steps, StoreSteps, RunSteps
<1>2. BufferOK(r, u) /\ RowsOK(r, u, TurnRows(u), TRUE)
  BY <1>1, InvTurn DEF TurnOK
<1>3. CASE Len(r.buf) = 0
  <2>1. 0 \in 0 .. Handed(r) - 1
    BY <1>3 DEF Handed
  <2>2. HasRow(TurnRows(u), 0)
    BY <1>1, <1>2, <2>1 DEF RowsOK
  <2>3. QED
    BY <2>2 DEF HasRow, Made
<1>4. CASE Len(r.buf) # 0
  <2>1. 1 \in 1 .. Len(r.buf)
    BY <1>1, <1>4
  <2>2. QED
    BY <2>1 DEF Made, Buffered
<1>5. QED
  BY <1>3, <1>4

\* A turn keeps its events when it keeps its buffer and the rows.
LEMMA SameMade ==
    ASSUME NEW u \in Turns, turn'[u].buf = turn[u].buf, UNCHANGED rows
    PROVE  Made(u)' = Made(u)
BY DEF Made, TurnRows, Buffered

LEMMA LoadSpeaks ==
    ASSUME Inv, OwnInv, SaidInv, NEW u \in Turns, LoadCheckpoint(u)
    PROVE  Speaks(u)
<1> DEFINE t == turn[u].thread
           m == memory[t]
           said == [role |-> "human", turn |-> u]
           asked == Append(m.msgs, said)
<1>1. turn[u].pc = "load" /\ UNCHANGED <<thread, rows, clock>>
  BY DEF LoadCheckpoint
<1>2. /\ Active(u) /\ ~Answering(turn[u])
      /\ Unloaded(turn[u]) <=> turn[u].kind # "resume"
  BY <1>1 DEF Active, Steps, RunSteps, Unloaded, Handing, Storing, StoreSteps, Answering
<1>3. /\ turn[u] \in Turn /\ t \in Threads /\ ResumeOK(turn[u], u, m)
      /\ m.msgs \in Seq(Message) /\ m.pending \in Turns \cup {None}
      /\ memory \in [Threads -> Memory] /\ turn \in [Turns -> Turn]
  BY <1>2, OwnFacts DEF Inv, TypeOK
<1>4. SaidTurn(u) /\ (turn[u].kind # "resume" => turn[u].seq = 1)
  BY <1>2 DEF SaidInv, SaidTurn
<1>5. /\ "run" \notin Ends /\ "run" \notin {"failed", "cut"}
      /\ \A r : r.pc = "run" => ~Unloaded(r) /\ ~Answering(r)
  BY DEF Ends, Unloaded, Handing, Storing, StoreSteps, Answering
<1>6. CASE turn[u].kind # "resume"
  <2>1. turn'[u] = [turn[u] EXCEPT !.pc = "run", !.local = asked]
    BY <1>3, <1>6 DEF LoadCheckpoint
  <2>2. memory'[t].msgs = asked
    BY <1>3, <1>6 DEF LoadCheckpoint
  <2>3. /\ turn'[u].pc = "run" /\ turn'[u].buf = turn[u].buf /\ turn'[u].kind = turn[u].kind
        /\ turn'[u].thread = t
    BY <1>3, <2>1 DEF Turn
  <2>4. Made(u)' = Made(u)
    BY <1>1, <2>3, SameMade
  <2>5. SaidStep(u)
    BY <1>5, <2>3, <2>4 DEF SaidStep
  <2>6. ASSUME NEW e \in Made(u)
        PROVE  e.seq = 0 /\ e.type = "human_message" /\ e.says = said
    <3>1. e.seq = 0 /\ e.turn = u /\ e.type \in Leading
      BY <1>4, <1>6, MadeFacts DEF EventOK, Event, Leads
    <3>2. Said(e, turn[u].kind)
      BY <1>4 DEF SaidTurn
    <3>3. QED
      BY <1>6, <3>1, <3>2 DEF Said, Leading
  <2>7. ASSUME thread[t] = "live"
        PROVE  Tells(u)
    <3>1. PICK e \in Made(u) : TRUE
      BY <1>2, <1>4, <1>6, <2>7, SomeMade
    <3>2. Made(u) = {e}
      BY <1>4, <2>6 DEF SaidTurn
    <3>3. Counted(u) = {}
      BY <1>2, <1>6, <2>6 DEF Counted
    <3>4. Counted(u)' = {e}
      BY <1>5, <2>3, <2>4, <2>6, <3>2 DEF Counted, Told, OfSubagent
    <3>5. said \in Message
      BY DEF Message
    <3> HIDE DEF said
    <3>6. /\ Len(asked) = Len(m.msgs) + 1 /\ asked[Len(m.msgs) + 1] = said
          /\ \A i \in 1 .. Len(m.msgs) : asked[i] = m.msgs[i]
      BY <1>3, <3>5
    <3>7. Spelt(turn[u], m) = Len(m.msgs) /\ Spelt(turn'[u], memory'[t]) = Len(m.msgs) + 1
      BY <1>2, <1>5, <2>2, <2>3, <3>6 DEF Spelt
    <3>8. e.says = said /\ e \in Made(u)' /\ ~Unshown(e.says)
      BY <2>4, <2>6 DEF Unshown, said
    <3>9. QED
      BY <2>2, <3>3, <3>4, <3>6, <3>7, <3>8 DEF Tells
  <2>8. QED
    BY <2>5, <2>7 DEF Speaks
<1>7. CASE turn[u].kind = "resume"
  <2>1. m.pending # None
    BY <1>1, <1>3, <1>7, InvTurn, ConversationAssumption DEF ResumeOK, TurnOK, StepOK
  <2>2. turn'[u] = [turn[u] EXCEPT !.pc = "run", !.local = m.msgs, !.applied = m.pending]
    BY <1>3, <1>7, <2>1 DEF LoadCheckpoint
  <2>3. turn'[u].pc = "run" /\ turn'[u].buf = turn[u].buf /\ turn'[u].kind = turn[u].kind
    BY <1>3, <2>2 DEF Turn
  <2>4. Made(u)' = Made(u) /\ UNCHANGED memory
    BY <1>1, <1>7, <2>3, SameMade DEF LoadCheckpoint
  <2>5. ~Unloaded(turn[u]) /\ ~Unloaded(turn'[u])
    BY <1>2, <1>5, <1>7, <2>3
  <2>6. Counted(u)' = Counted(u)
    BY <2>4, <2>5 DEF Counted, OfSubagent
  <2>7. QED
    BY <1>2, <1>5, <2>3, <2>4, <2>5, <2>6, SameSpeaks
<1>8. QED
  BY <1>6, <1>7

LEMMA GraphSpeaks ==
    ASSUME Inv, OwnInv, TimeInv, SaidInv, NEW u \in Turns,
           \/ ContentChunk(u) \/ CallTools(u) \/ ToolResult(u) \/ SubagentResult(u)
           \/ Answer(u) \/ GraphRaises(u) \/ IdleTimeout(u)
    PROVE  Speaks(u)
<1> DEFINE t == turn[u].thread
           m == memory[t]
<1>1. turn[u].pc = "run" /\ UNCHANGED <<thread, rows, clock>>
  BY DEF ContentChunk, CallTools, ToolResult, SubagentResult, Answer, GraphRaises, IdleTimeout,
         MayGoOn
<1>2. Active(u) /\ ~Unloaded(turn[u]) /\ ~Answering(turn[u])
  BY <1>1 DEF Active, Steps, RunSteps, Unloaded, Handing, Storing, StoreSteps, Answering
<1>3. /\ turn[u] \in Turn /\ t \in Threads /\ RunOK(turn[u], u, m)
      /\ m.msgs \in Seq(Message) /\ memory \in [Threads -> Memory] /\ turn \in [Turns -> Turn]
  BY <1>2, OwnFacts DEF Inv, TypeOK
<1>4. turn[u].local = m.msgs
  BY <1>1, <1>3 DEF RunOK, Running
<1>5. /\ {"content", "tool_result"} \subseteq EventTypes
      /\ {"content", "tool_result"} \cap Leading = {}
      /\ FALSE \in BOOLEAN /\ NoMessage \in Message \cup {NoMessage} /\ UNCHANGED rows
  BY <1>1 DEF EventTypes, Leading, Intermediate
<1>6. \A role \in {"step", "tool", "ai", "call"} : [role |-> role, turn |-> u] \in Message
  BY DEF Message
<1>7. Spelt(turn[u], m) = Len(m.msgs)
  BY <1>2 DEF Spelt
<1>8. CASE ContentChunk(u) \/ SubagentResult(u)
  <2>1. PICK type \in {"content", "tool_result"} : Emit(u, turn[u], type, NoMessage, FALSE)
    BY <1>8 DEF ContentChunk, SubagentResult
  <2>2. UNCHANGED memory /\ SameTrace(turn[u], turn[u]) /\ type \in EventTypes
    BY <1>5, <1>8 DEF ContentChunk, SubagentResult, SameTrace, SameRequest
  <2>3. Makes(u, type, NoMessage)
    BY <1>2, <1>3, <1>5, <2>1, <2>2, EmitAdds
  <2>4. PICK e : Adds(u, e) /\ e.type = type /\ e.says = NoMessage
    BY <2>3 DEF Makes
  <2>5. Said(e, turn[u].kind) /\ (e.type \notin Told \/ OfSubagent(e)) /\ e.type \notin Leading
    BY <1>5, <2>4 DEF Said, Told, OfSubagent
  <2>6. QED
    BY <1>2, <2>2, <2>4, <2>5, AddsUncounted
<1>9. CASE ToolResult(u)
  <2> DEFINE said == [role |-> "tool", turn |-> u]
             msgs == Append(turn[u].local, said)
             r == [turn[u] EXCEPT !.local = msgs]
  <2>1. /\ Emit(u, r, "tool_result", said, FALSE)
        /\ memory' = [memory EXCEPT ![t] = [msgs |-> msgs, pending |-> None]]
    BY <1>9 DEF ToolResult
  <2>2. said \in Message /\ said \in Message \cup {NoMessage}
    BY <1>6
  <2> HIDE DEF said
  <2>3. msgs \in Seq(Message)
    BY <1>3, <1>4, <2>2
  <2>4. memory'[t].msgs = msgs
    BY <1>3, <2>1
  <2>5. /\ Len(msgs) = Len(m.msgs) + 1 /\ msgs[Len(m.msgs) + 1] = said
        /\ \A i \in 1 .. Len(m.msgs) : msgs[i] = m.msgs[i]
    BY <1>3, <1>4, <2>2
  <2> HIDE DEF msgs
  <2>6. r \in Turn /\ SameTrace(turn[u], r)
    BY <1>3, <2>3 DEF Turn, SameTrace, SameRequest
  <2> HIDE DEF r
  <2>7. Makes(u, "tool_result", said)
    BY <1>2, <1>5, <2>1, <2>2, <2>6, EmitAdds
  <2>8. PICK e : Adds(u, e) /\ e.type = "tool_result" /\ e.says = said
    BY <2>7 DEF Makes
  <2>9. SaidStep(u)
    <3>1. Said(e, turn[u].kind)
      BY <2>8 DEF Said, Adds, said
    <3>2. e.type \notin Leading
      BY <1>5, <2>8
    <3>3. QED
      BY <2>8, <3>1, <3>2, AddsSaid
  <2>10. ~Unloaded(turn'[u]) /\ ~Answering(turn'[u])
    BY <1>5, <2>8, AddsPlace
  <2>11. Counted(u)' = Counted(u) \cup {e}
    <3>1. e.type \in Told /\ ~OfSubagent(e)
      BY <2>8 DEF Told, OfSubagent, NoMessage, said
    <3>2. QED
      BY <1>2, <2>8, <2>10, <3>1 DEF Counted, Adds, OfSubagent
  <2>12. e \in Made(u)' /\ \A d \in Counted(u) : Earlier(d, e)
    BY <2>8, AddsLast DEF Adds, Counted
  <2>13. Spelt(turn'[u], memory'[t]) = Len(m.msgs) + 1
    BY <2>4, <2>5, <2>10 DEF Spelt
  <2>16. ~Unshown(e.says)
    BY <2>8 DEF Unshown, said
  <2>14. Tells(u)
    BY <1>7, <2>4, <2>5, <2>8, <2>11, <2>12, <2>13, <2>16 DEF Tells
  <2>15. QED
    BY <2>9, <2>14 DEF Speaks
<1>10. CASE Answer(u)
  <2>1. PICK role \in {"ai", "call"} :
          memory' = [memory EXCEPT ![t] =
                       [msgs |-> Append(turn[u].local, [role |-> role, turn |-> u]),
                        pending |-> IF role = "call" THEN u ELSE None]]
    BY <1>10 DEF Answer
  <2> DEFINE said == [role |-> role, turn |-> u]
  <2>2. said \in Message
    BY <1>6
  <2> HIDE DEF said
  <2>3. memory'[t].msgs = Append(m.msgs, said)
    BY <1>3, <1>4, <2>1 DEF said
  <2>4. /\ Len(memory'[t].msgs) = Len(m.msgs) + 1
        /\ \A i \in 1 .. Len(m.msgs) : memory'[t].msgs[i] = m.msgs[i]
        /\ Len(m.msgs) \in Nat
    BY <1>3, <2>2, <2>3
  <2>5. /\ turn'[u].pc = "values" /\ turn'[u].buf = turn[u].buf
        /\ turn'[u].kind = turn[u].kind
    BY <1>3, <1>10 DEF Answer, Goto, Turn
  <2>6. ~Unloaded(turn'[u]) /\ Answering(turn'[u]) /\ turn'[u].pc \notin Ends
    BY <2>5 DEF Unloaded, Handing, Storing, StoreSteps, Answering, Ends
  <2>7. Made(u)' = Made(u)
    BY <1>1, <2>5, SameMade
  <2>8. Counted(u)' = Counted(u)
    BY <1>2, <2>6, <2>7 DEF Counted, OfSubagent
  <2>9. SaidStep(u)
    BY <2>5, <2>6, <2>7 DEF SaidStep
  <2>10. Spelt(turn'[u], memory'[t]) = Len(m.msgs)
    BY <2>4, <2>6 DEF Spelt
  <2>11. Tells(u)
    BY <1>7, <2>4, <2>8, <2>10 DEF Tells
  <2>12. QED
    BY <2>9, <2>11 DEF Speaks
<1>11. CASE GraphRaises(u) \/ IdleTimeout(u)
  <2>1. End(u, "failed") /\ rows' \subseteq rows \cup In(turn[u].buf)
    BY <1>11 DEF GraphRaises, IdleTimeout
  <2>2. QED
    BY <1>2, <2>1, EndSpeaks
<1>12. CASE CallTools(u)
  <2> DEFINE said == [role |-> "step", turn |-> u]
             msgs == Append(turn[u].local, said)
  <2>1. /\ memory' = [memory EXCEPT ![t] = [msgs |-> msgs, pending |-> None]]
        /\ turn' = [turn EXCEPT ![u].local = msgs]
    BY <1>12 DEF CallTools
  <2>2. said \in Message /\ Unshown(said)
    BY <1>6 DEF Unshown
  <2> HIDE DEF said
  <2>3. memory'[t].msgs = msgs
    BY <1>3, <2>1
  <2>4. /\ Len(msgs) = Len(m.msgs) + 1 /\ msgs[Len(m.msgs) + 1] = said
        /\ \A i \in 1 .. Len(m.msgs) : msgs[i] = m.msgs[i]
    BY <1>3, <1>4, <2>2
  <2> HIDE DEF msgs
  <2>5. turn'[u].pc = "run" /\ turn'[u].buf = turn[u].buf /\ turn'[u].kind = turn[u].kind
    BY <1>1, <1>3, <2>1 DEF Turn
  <2>6. ~Unloaded(turn'[u]) /\ ~Answering(turn'[u]) /\ turn'[u].pc \notin Ends
    BY <2>5 DEF Unloaded, Handing, Storing, StoreSteps, Answering, Ends
  <2>7. Made(u)' = Made(u)
    BY <1>1, <2>5, SameMade
  <2>8. Counted(u)' = Counted(u)
    BY <1>2, <2>6, <2>7 DEF Counted, OfSubagent
  <2>9. SaidStep(u)
    BY <2>5, <2>6, <2>7 DEF SaidStep
  <2>10. Spelt(turn'[u], memory'[t]) = Len(m.msgs) + 1
    BY <2>3, <2>4, <2>6 DEF Spelt
  <2>11. Unshown(memory'[t].msgs[Len(m.msgs) + 1])
    BY <2>2, <2>3, <2>4
  <2>12. Tells(u)
    BY <1>7, <2>3, <2>4, <2>8, <2>10, <2>11 DEF Tells
  <2>13. QED
    BY <2>9, <2>12 DEF Speaks
<1>13. QED
  BY <1>8, <1>9, <1>10, <1>11, <1>12

LEMMA ReadSpeaks ==
    ASSUME Inv, OwnInv, TimeInv, SaidInv, NEW u \in Turns, ReadValues(u) \/ ReadStatus(u)
    PROVE  Speaks(u)
<1> DEFINE t == turn[u].thread
           m == memory[t]
<1>1. turn[u].pc \in {"values", "status"} /\ UNCHANGED <<thread, rows, memory, clock>>
  BY DEF ReadValues, ReadStatus
<1>2. Active(u) /\ ~Unloaded(turn[u]) /\ Answering(turn[u])
  BY <1>1 DEF Active, Steps, RunSteps, Unloaded, Handing, Storing, StoreSteps, Answering
<1>3. /\ turn[u] \in Turn /\ t \in Threads /\ RunOK(turn[u], u, m)
      /\ m.msgs \in Seq(Message) /\ turn \in [Turns -> Turn]
  BY <1>2, OwnFacts DEF Inv, TypeOK
<1>4. CASE ReadValues(u)
  <2>1. /\ turn'[u].pc = "status" /\ turn'[u].buf = turn[u].buf
        /\ turn'[u].kind = turn[u].kind
    BY <1>3, <1>4 DEF ReadValues, Turn
  <2>2. ~Unloaded(turn'[u]) /\ Answering(turn'[u]) /\ turn'[u].pc \notin Ends
    BY <2>1 DEF Unloaded, Handing, Storing, StoreSteps, Answering, Ends
  <2>3. Made(u)' = Made(u)
    BY <1>1, <2>1, SameMade
  <2>4. Counted(u)' = Counted(u)
    BY <1>2, <2>2, <2>3 DEF Counted, OfSubagent
  <2>5. QED
    BY <1>1, <1>2, <2>1, <2>2, <2>3, <2>4, SameSpeaks
<1>5. CASE ReadStatus(u)
  <2> DEFINE awaiting == Awaiting(u)
             says == turn[u].answer
  <2>1. Emit(u, turn[u], "ai_message", says, awaiting) /\ turn[u].pc = "status"
    BY <1>5 DEF ReadStatus
  <2>2. awaiting \in BOOLEAN
    BY DEF Awaiting
  <2>3. says = Last(m.msgs) /\ m.msgs # <<>> /\ ~Unshown(says)
    BY <1>3, <2>1 DEF RunOK, Answered, Own, Unshown
  <2>4. says \in Message \cup {NoMessage} /\ "ai_message" \in EventTypes /\ UNCHANGED rows
        /\ SameTrace(turn[u], turn[u]) /\ "ai_message" \notin Leading
    BY <1>1, <1>3, TurnFields DEF EventTypes, SameTrace, SameRequest, Leading
  <2> HIDE DEF awaiting, says
  <2>5. Makes(u, "ai_message", says)
    BY <1>2, <1>3, <2>1, <2>2, <2>4, EmitAdds
  <2>6. PICK e : Adds(u, e) /\ e.type = "ai_message" /\ e.says = says
    BY <2>5 DEF Makes
  <2>7. SaidStep(u)
    <3>1. Said(e, turn[u].kind)
      BY <2>6 DEF Said
    <3>2. QED
      BY <2>4, <2>6, <3>1, AddsSaid
  <2>8. ~Unloaded(turn'[u]) /\ ~Answering(turn'[u])
    BY <2>4, <2>6, AddsPlace
  <2>9. Counted(u)' = Counted(u) \cup {e}
    BY <1>2, <2>6, <2>8 DEF Counted, Told, Adds, OfSubagent
  <2>10. e \in Made(u)' /\ \A d \in Counted(u) : Earlier(d, e)
    BY <2>6, AddsLast DEF Adds, Counted
  <2>11. Len(m.msgs) \in Nat /\ memory'[t] = m /\ m.msgs[Len(m.msgs)] = e.says
    BY <1>1, <1>3, <2>3, <2>6 DEF Last
  <2>12. Spelt(turn[u], m) = Len(m.msgs) - 1 /\ Spelt(turn'[u], memory'[t]) = Len(m.msgs)
    BY <1>2, <2>8, <2>11 DEF Spelt
  <2>13. Tells(u)
    <3>1. Spelt(turn'[u], memory'[t]) = Spelt(turn[u], m) + 1
          /\ memory'[t].msgs[Spelt(turn[u], m) + 1] = e.says
      BY <2>11, <2>12
    <3>2. QED
      BY <2>3, <2>6, <2>9, <2>10, <2>11, <3>1 DEF Tells
  <2>14. QED
    BY <2>7, <2>13 DEF Speaks
<1>6. QED
  BY <1>4, <1>5

LEMMA StoreSpeaks ==
    ASSUME Inv, OwnInv, SaidInv, NEW u \in Turns,
           CheckThread(u) \/ Insert(u) \/ AckLost(u) \/ Deliver(u)
    PROVE  Speaks(u)
<1>1. turn[u].pc \in Storing /\ UNCHANGED <<thread, memory, clock>>
  BY DEF CheckThread, Insert, AckLost, Deliver, Storing, StoreSteps
<1>2. /\ Active(u) /\ {"insert", "deliver"} \subseteq Steps \cap Storing
      /\ ~Answering(turn[u])
  BY <1>1 DEF Active, Steps, Storing, StoreSteps, Answering
<1>3. CASE CheckThread(u) \/ Insert(u) \/ AckLost(u)
  <2>1. rows \subseteq rows' /\ rows' \subseteq rows \cup In(turn[u].buf)
    BY <1>3 DEF CheckThread, Insert, AckLost, Stored, In
  <2>2. CASE End(u, "failed")
    BY <1>2, <2>1, <2>2, EndSpeaks
  <2>3. CASE \E step \in {"insert", "deliver"} : Goto(u, step)
    BY <1>1, <1>2, <2>1, <2>3, GotoSpeaks
  <2>4. QED
    BY <1>3, <2>2, <2>3 DEF CheckThread, Insert, AckLost
<1>4. CASE Deliver(u)
  <2> DEFINE last == Last(turn[u].buf)
  <2>1. turn[u] \in Turn /\ turn \in [Turns -> Turn] /\ turn[u].pc = "deliver"
    BY <1>2, <1>4, OwnFacts DEF Inv, TypeOK, Deliver
  <2>2. turn[u].buf # <<>>
    BY <2>1, InvTurn DEF TurnOK, StepOK, StoreSteps
  <2>3. last \in Event
    BY <2>1, <2>2, TurnFields DEF Last
  <2> DEFINE next == AfterEvent(turn[u], last.seq, last.type)
  <2>4. /\ turn'[u].pc = next /\ turn'[u].buf = <<>>
        /\ turn'[u].kind = turn[u].kind /\ turn'[u].seq = turn[u].seq /\ UNCHANGED rows
    BY <1>4, <2>1 DEF Deliver, Last, Turn
  <2>5. /\ next \in {"load", "run", "done", "decide"}
        /\ turn[u].kind # "resume" => (next = "load" <=> last.type \in Leading)
    <3>1. last.type \in EventTypes /\ last.seq \in Nat
      BY <2>3, EventFields
    <3>2. turn[u].kind # "resume" => ~(last.seq + 1 < Leads(turn[u]))
      BY <3>1 DEF Leads
    <3>3. QED
      BY <3>1, <3>2 DEF AfterEvent, EventTypes, Leading, Intermediate
  <2> HIDE DEF next
  <2>6. ~Answering(turn'[u])
    BY <2>4, <2>5 DEF Answering
  <2>7. Unloaded(turn'[u]) <=> Unloaded(turn[u])
    BY <2>1, <2>4, <2>5 DEF Unloaded, Handing, Storing, StoreSteps
  <2>8. Made(u)' \subseteq Made(u)
    BY <2>4 DEF Made, TurnRows, Buffered
  <2>9. ASSUME thread[turn[u].thread] = "live"
        PROVE  Made(u)' = Made(u)
    <3>1. Bound(u) = TRUE
      BY <2>1, <2>9 DEF Bound, Live
    <3>2. \A i \in 1 .. Len(turn[u].buf) : turn[u].buf[i] \in TurnRows(u)
      BY <2>1, <3>1, InvTurn DEF TurnOK, RowsOK
    <3>3. TurnRows(u)' = TurnRows(u)
      BY <2>4 DEF TurnRows
    <3>4. QED
      BY <2>8, <3>2, <3>3 DEF Made, Buffered
  <2>10. thread[turn[u].thread] = "live" => Counted(u)' = Counted(u)
    BY <2>7, <2>9 DEF Counted, OfSubagent
  <2>11. QED
    BY <1>1, <1>2, <2>4, <2>6, <2>7, <2>8, <2>10, SameSpeaks
<1>5. QED
  BY <1>3, <1>4

LEMMA FailureSpeaks ==
    ASSUME Inv, OwnInv, SaidInv, NEW u \in Turns, CallRaises(u) \/ Disconnect(u)
    PROVE  Speaks(u)
<1>1. Active(u)
  BY DEF CallRaises, Disconnect, Active, Steps, StoreSteps, RunSteps
<1>2. (End(u, "failed") \/ End(u, "cut")) /\ rows' \subseteq rows \cup In(turn[u].buf)
  BY DEF CallRaises, Disconnect
<1>3. QED
  BY <1>1, <1>2, EndSpeaks

LEMMA TurnSpeaks ==
    ASSUME Inv, OwnInv, TimeInv, SaidInv, NEW u \in Turns,
           ServerStep(u) \/ GraphStep(u) \/ Deliver(u) \/ Disconnect(u)
    PROVE  Speaks(u)
BY PreparationSpeaks, DecideSpeaks, LoadSpeaks, GraphSpeaks, ReadSpeaks, StoreSpeaks, FailureSpeaks
   DEF ServerStep, GraphStep

\* SaidTurn for a turn whose events are made, of the same kind.
LEMMA FewerSaid ==
    ASSUME NEW u \in Turns, SaidTurn(u), Made(u)' \subseteq Made(u),
           turn'[u].kind = turn[u].kind, turn'[u].pc \in Ends => turn'[u].buf = <<>>,
           Unloaded(turn'[u]) => Unloaded(turn[u]) /\ turn'[u].seq = turn[u].seq
    PROVE  SaidTurn(u)'
<1> DEFINE made == Made(u)'
           kind == turn'[u].kind
<1>1. \A e \in made : Said(e, kind)
  BY DEF SaidTurn
<1>2. /\ \A d, e \in made : d.seq < e.seq => d.time <= e.time
      /\ \A d, e \in made : d.seq = e.seq => d = e
  BY DEF SaidTurn
<1>3. Unloaded(turn'[u]) => turn'[u].seq = 1
  BY DEF SaidTurn
<1>4. QED
  BY <1>1, <1>2, <1>3 DEF SaidTurn, Said, Unloaded, Handing

LEMMA BecomesSaid ==
    ASSUME Inv, OwnInv, TimeInv, SaidInv, NEW u \in Turns, NEW n, Becomes(u, n), SaidStep(u)
    PROVE  SaidInv'
<1>1. ASSUME NEW v \in Turns \ {u}
      PROVE  SaidTurn(v)'
  <2>1. Made(v)' = Made(v) /\ turn'[v] = turn[v]
    BY BecomesEvents
  <2>2. SaidTurn(v)
    BY DEF SaidInv
  <2>3. QED
    BY <2>1, <2>2, FewerSaid DEF SaidTurn
<1>2. SaidTurn(u)'
  <2>1. CASE Made(u)' \subseteq Made(u)
    <3> DEFINE made == Made(u)'
               kind == turn'[u].kind
    <3>1. \A e \in made : Said(e, kind)
      BY <2>1 DEF SaidInv, SaidTurn, SaidStep
    <3>2. /\ \A d, e \in made : d.seq < e.seq => d.time <= e.time
          /\ \A d, e \in made : d.seq = e.seq => d = e
      BY <2>1 DEF SaidInv, SaidTurn
    <3>3. QED
      BY <3>1, <3>2 DEF SaidTurn, SaidStep, Said, Unloaded, Handing
  <2>2. CASE \E e : /\ e.time = clock /\ e.seq = turn[u].seq /\ Said(e, turn[u].kind)
                    /\ Made(u)' \subseteq Made(u) \cup {e}
    <3>1. PICK e : /\ e.time = clock /\ e.seq = turn[u].seq /\ Said(e, turn[u].kind)
                   /\ Made(u)' \subseteq Made(u) \cup {e}
      BY <2>2
    <3>2. clock \in Nat /\ turn[u].seq \in Nat
      BY InvTurn, TurnFields DEF Inv, TypeOK
    <3>3. \A d \in Made(u) : d.time \in Nat /\ d.seq \in Nat /\ d.time <= e.time /\ d.seq < e.seq
      BY <3>1, MadeFacts DEF TimeInv, TurnTime, EventOK, Event
    <3> DEFINE made == Made(u)'
               kind == turn'[u].kind
    <3>4. \A d \in made : Said(d, kind)
      BY <3>1 DEF SaidInv, SaidTurn, SaidStep
    <3>5. \A d, x \in Made(u) :
             (d.seq < x.seq => d.time <= x.time) /\ (d.seq = x.seq => d = x)
      BY DEF SaidInv, SaidTurn
    <3>6. made \subseteq Made(u) \cup {e}
      BY <3>1
    <3> HIDE DEF made
    <3>7. ASSUME NEW d \in made, NEW x \in made
          PROVE  (d.seq < x.seq => d.time <= x.time) /\ (d.seq = x.seq => d = x)
      BY <3>1, <3>2, <3>3, <3>5, <3>6, <3>7
    <3>8. QED
      BY <3>4, <3>7 DEF SaidTurn, SaidStep, Said, Unloaded, Handing, made
  <2>3. QED
    BY <2>1, <2>2 DEF SaidStep
<1>3. QED
  BY <1>1, <1>2 DEF SaidInv

LEMMA SaidInit == Init => SaidInv
<1> SUFFICES ASSUME Init, NEW u \in Turns PROVE SaidTurn(u)
  BY DEF SaidInv
<1>1. Made(u) = {} /\ turn[u].pc = "new"
  BY DEF Init, New, Made, TurnRows, Buffered
<1>2. QED
  BY <1>1 DEF SaidTurn, Ends, Unloaded, Handing, Storing, StoreSteps

LEMMA SaidNext ==
    ~Overlap /\ Inv /\ OwnInv /\ TimeInv /\ SaidInv /\ [Next]_vars => SaidInv'
<1> SUFFICES ASSUME ~Overlap, Inv, OwnInv, TimeInv, SaidInv, [Next]_vars PROVE SaidInv'
  OBVIOUS
<1>1. ASSUME rows' \subseteq rows, UNCHANGED turn
      PROVE  SaidInv'
  <2>1. ASSUME NEW u \in Turns
        PROVE  SaidTurn(u)'
    <3>1. Made(u)' \subseteq Made(u)
      BY <1>1 DEF Made, TurnRows, Buffered
    <3>2. SaidTurn(u)
      BY DEF SaidInv
    <3>3. QED
      BY <1>1, <3>1, <3>2, FewerSaid DEF SaidTurn
  <2>2. QED
    BY <2>1 DEF SaidInv
<1>2. ASSUME NEW t \in Threads, CreateThread(t) \/ DeleteThread(t)
      PROVE  SaidInv'
  BY <1>1, <1>2 DEF CreateThread, DeleteThread
<1>3. ASSUME NEW u \in Turns, NEW t \in Threads, Start(u, t)
      PROVE  SaidInv'
  <2>1. PICK n : Begins(u, t, n)
    BY <1>3, StartBegins
  <2>2. ASSUME NEW v \in Turns \ {u}
        PROVE  SaidTurn(v)'
    <3>1. Made(v)' = Made(v) /\ turn'[v] = turn[v]
      BY <2>1, BeginsEvents
    <3>2. SaidTurn(v)
      BY DEF SaidInv
    <3>3. QED
      BY <3>1, <3>2, FewerSaid DEF SaidTurn
  <2>3. SaidTurn(u)'
    <3>1. Made(u)' = {} /\ turn'[u].pc \in {"route", "get"}
      <4>1. Made(u)' = {} /\ turn'[u] = n
        BY <2>1, BeginsEvents
      <4>2. n.pc \in {"route", "get"}
        BY <2>1 DEF Begins
      <4>3. QED
        BY <4>1, <4>2
    <3>2. ~Unloaded(turn'[u]) /\ turn'[u].pc \notin Ends
      BY <3>1 DEF Ends, Unloaded, Handing, Storing, StoreSteps
    <3>3. QED
      BY <3>1, <3>2 DEF SaidTurn, Unloaded, Handing
  <2>4. QED
    BY <2>2, <2>3 DEF SaidInv
<1>4. ASSUME NEW u \in Turns, ServerStep(u) \/ GraphStep(u) \/ Deliver(u) \/ Disconnect(u)
      PROVE  SaidInv'
  <2>1. PICK n : Becomes(u, n)
    BY <1>4, TurnBecomes
  <2>2. SaidStep(u)
    BY <1>4, TurnSpeaks DEF Speaks
  <2>3. QED
    BY <2>1, <2>2, BecomesSaid
<1>5. CASE Restart
  <2>1. /\ UNCHANGED rows
        /\ turn' = [u \in Turns |-> IF Active(u) THEN Ended(turn[u], "cut") ELSE turn[u]]
    BY <1>5 DEF Restart, Ended
  <2>2. ASSUME NEW u \in Turns
        PROVE  SaidTurn(u)'
    <3>1. SaidTurn(u) /\ turn[u] \in Turn
      BY InvTurn DEF SaidInv
    <3>2. CASE Active(u)
      <4>1. turn'[u].buf = <<>> /\ turn'[u].pc = "cut" /\ turn'[u].kind = turn[u].kind
        BY <2>1, <3>1, <3>2 DEF Ended, Turn
      <4>2. Made(u)' \subseteq Made(u) /\ ~Unloaded(turn'[u])
        BY <2>1, <4>1 DEF Made, TurnRows, Buffered, Unloaded, Handing, Storing, StoreSteps
      <4>3. QED
        BY <3>1, <4>1, <4>2, FewerSaid
    <3>3. CASE ~Active(u)
      <4>1. turn'[u] = turn[u] /\ Made(u)' = Made(u)
        BY <2>1, <3>3 DEF Made, TurnRows, Buffered
      <4>2. QED
        BY <3>1, <4>1, FewerSaid DEF SaidTurn
    <3>4. QED
      BY <3>2, <3>3
  <2>3. QED
    BY <2>2 DEF SaidInv
<1>6. CASE UNCHANGED vars
  BY <1>1, <1>6 DEF vars
<1>7. QED
  BY <1>2, <1>3, <1>4, <1>5, <1>6 DEF Next

-----------------------------------------------------------------------------
(* The order in which a thread shows its events *)

\* The events of two turns of a thread do not interleave.
ApartInv ==
    \A d, e, x \in rows :
        d.turn = e.turn /\ x.thread = d.thread /\ x.turn # d.turn =>
            ~(d.time <= x.time /\ x.time <= e.time)

LEMMA BecomesApart ==
    ASSUME Inv, OwnInv, TimeInv, ApartInv, NEW u \in Turns, NEW n, Becomes(u, n)
    PROVE  ApartInv'
<1>1. \A d \in Others(u), e \in Made(u) : d.time < e.time
  BY DEF Becomes, TimeInv, TurnTime
<1>2. ASSUME NEW e \in rows'
      PROVE  (e.turn = u /\ e \in Made(u)) \/ (e.turn # u /\ e \in rows)
  <2>1. e \in rows \cup Buffered(u)
    BY DEF Becomes, Buffered, In
  <2>2. \A x \in Buffered(u) : x.turn = u
    BY BufferedOwn
  <2>3. QED
    BY <2>1, <2>2 DEF Made, TurnRows
<1>3. \A e \in Made(u) : e.thread = turn[u].thread /\ e.time \in Nat
  BY MadeFacts
<1>4. \A e \in rows : e.thread = turn[u].thread /\ e.turn # u => e \in Others(u)
  BY DEF Others, EventsOf
<1>5. \A e \in rows : e.time \in Nat
  BY DEF Inv, TypeOK, Event
<1> SUFFICES ASSUME NEW d \in rows', NEW e \in rows', NEW x \in rows',
                    d.turn = e.turn, x.thread = d.thread, x.turn # d.turn
             PROVE  ~(d.time <= x.time /\ x.time <= e.time)
  BY DEF ApartInv
<1>6. CASE d.turn = u
  <2>1. d \in Made(u) /\ x \in rows /\ x.turn # u
    BY <1>2, <1>6
  <2>2. x.time < d.time /\ x.time \in Nat /\ d.time \in Nat
    BY <1>1, <1>3, <1>4, <1>5, <2>1
  <2>3. QED
    BY <2>2
<1>7. CASE d.turn # u /\ x.turn = u
  <2>1. d \in rows /\ e \in rows /\ x \in Made(u)
    BY <1>2, <1>7
  <2>2. e.thread = d.thread
    BY <2>1, RowFacts, MadeFacts
  <2>3. e.time < x.time /\ x.time \in Nat /\ e.time \in Nat
    BY <1>1, <1>3, <1>4, <1>5, <1>7, <2>1, <2>2
  <2>4. QED
    BY <2>3
<1>8. CASE d.turn # u /\ x.turn # u
  BY <1>2, <1>8 DEF ApartInv
<1>9. QED
  BY <1>6, <1>7, <1>8

LEMMA ApartNext ==
    ~Overlap /\ Inv /\ OwnInv /\ TimeInv /\ ApartInv /\ [Next]_vars => ApartInv'
<1> SUFFICES ASSUME ~Overlap, Inv, OwnInv, TimeInv, ApartInv, [Next]_vars PROVE ApartInv'
  OBVIOUS
<1>1. ASSUME rows' \subseteq rows
      PROVE  ApartInv'
  BY <1>1 DEF ApartInv
<1>2. ASSUME NEW t \in Threads, CreateThread(t) \/ DeleteThread(t)
      PROVE  ApartInv'
  BY <1>1, <1>2 DEF CreateThread, DeleteThread
<1>3. ASSUME NEW u \in Turns, NEW t \in Threads, Start(u, t)
      PROVE  ApartInv'
  BY <1>1, <1>3 DEF Start
<1>4. ASSUME NEW u \in Turns, ServerStep(u) \/ GraphStep(u) \/ Deliver(u) \/ Disconnect(u)
      PROVE  ApartInv'
  BY <1>4, TurnBecomes, BecomesApart
<1>5. CASE Restart
  BY <1>1, <1>5 DEF Restart
<1>6. CASE UNCHANGED vars
  BY <1>1, <1>6 DEF vars
<1>7. QED
  BY <1>2, <1>3, <1>4, <1>5, <1>6 DEF Next

\* What is known of two events of a thread.
LEMMA TwoEvents ==
    ASSUME Inv, SaidInv, NEW t \in Threads, NEW d \in EventsOf(t), NEW e \in EventsOf(t)
    PROVE  /\ d \in rows /\ d \in Event /\ d.time \in Nat /\ d.seq \in Nat /\ d.type \in EventTypes
           /\ d.turn = e.turn =>
                /\ d.seq < e.seq => d.time <= e.time
                /\ d.seq = e.seq => d = e
                /\ d.type = "human_message" => d.seq = 0
                /\ d.type = "ai_message" => e.seq <= d.seq
<1>1. d \in rows /\ e \in rows /\ d \in Event /\ e \in Event
  BY DEF EventsOf, Inv, TypeOK
<1>2. d.time \in Nat /\ d.seq \in Nat /\ d.type \in EventTypes /\ e.seq \in Nat
  BY <1>1 DEF Event
<1>3. ASSUME d.turn = e.turn
      PROVE  /\ d.seq < e.seq => d.time <= e.time
             /\ d.seq = e.seq => d = e
             /\ d.type = "human_message" => d.seq = 0
             /\ d.type = "ai_message" => e.seq <= d.seq
  <2>1. d.turn \in Turns /\ d \in Made(d.turn) /\ e \in Made(d.turn)
    BY <1>1, <1>3, RowFacts
  <2>2. EventOK(d, d.turn, turn[d.turn]) /\ EventOK(e, d.turn, turn[d.turn])
    BY <2>1, MadeFacts
  <2>3. turn[d.turn].seq \in Nat
    BY <2>1, InvTurn, TurnFields
  <2>4. d.type = "ai_message" => e.seq <= d.seq
    BY <1>2, <2>2, <2>3 DEF EventOK
  <2>5. (d.seq < e.seq => d.time <= e.time) /\ (d.seq = e.seq => d = e)
    BY <2>1 DEF SaidInv, SaidTurn
  <2>6. d.type = "human_message" => d.seq = 0
    BY <1>2, <2>2 DEF EventOK, Leading, Leads
  <2>7. QED
    BY <2>4, <2>5, <2>6
<1>4. QED
  BY <1>1, <1>2, <1>3

\* A history shows the events of the thread: no turn has a second human message
\* or answer that it would leave out.
LEMMA ShowsIs ==
    ASSUME Inv, SaidInv, NEW t \in Threads, NEW types
    PROVE  Shows(t, types) = {e \in EventsOf(t) : e.type \in types}
<1> DEFINE of(u, y) == {e \in EventsOf(t) : e.turn = u /\ e.type \in y}
           turns == {e.turn : e \in EventsOf(t)}
           others == EventTypes \ {"human_message", "ai_message"}
           shown(u) == of(u, {"human_message"}) \cup of(u, others) \cup of(u, {"ai_message"})
<1>1. ASSUME NEW d \in EventsOf(t), NEW e \in EventsOf(t), d.turn = e.turn, d.type = e.type,
             d.type \in {"human_message", "ai_message"}
      PROVE  ~Earlier(d, e)
  <2>1. CASE d.type = "human_message"
    <3>1. d.seq = 0 /\ e.seq = 0
      BY <1>1, <2>1, TwoEvents
    <3>2. d = e
      BY <1>1, <3>1, TwoEvents
    <3>3. QED
      BY <3>2, TwoEvents DEF Earlier
  <2>2. CASE d.type = "ai_message"
    <3>1. d.seq <= e.seq /\ e.seq <= d.seq /\ d.seq \in Nat /\ e.seq \in Nat
      BY <1>1, <2>2, TwoEvents
    <3>2. d.seq = e.seq
      BY <3>1
    <3>3. d = e
      BY <1>1, <3>2, TwoEvents
    <3>4. QED
      BY <3>3, TwoEvents DEF Earlier
  <2>3. QED
    BY <1>1, <2>1, <2>2
<1>2. \A u : First(of(u, {"human_message"})) = of(u, {"human_message"})
  BY <1>1 DEF First
<1>3. \A u : First(of(u, {"ai_message"})) = of(u, {"ai_message"})
  BY <1>1 DEF First
<1>4. \A u : /\ HistoryTurn(EventsOf(t), u).human = of(u, {"human_message"})
             /\ HistoryTurn(EventsOf(t), u).events = of(u, others)
             /\ HistoryTurn(EventsOf(t), u).ai = of(u, {"ai_message"})
  BY <1>2, <1>3 DEF HistoryTurn
<1>5. ASSUME NEW e
      PROVE  e \in Shows(t, types) <=> e.type \in types /\ \E u \in turns : e \in shown(u)
  <2>1. e \in Shows(t, types) <=>
          /\ e.type \in types
          /\ \E h \in History(t) : e \in h.human \cup h.events \cup h.ai
    BY DEF Shows
  <2>2. (\E h \in History(t) : e \in h.human \cup h.events \cup h.ai) <=>
          \E u \in turns : e \in HistoryTurn(EventsOf(t), u).human
                                 \cup HistoryTurn(EventsOf(t), u).events
                                 \cup HistoryTurn(EventsOf(t), u).ai
    BY DEF History
  <2>3. QED
    BY <1>4, <2>1, <2>2
<1>6. \A e \in EventsOf(t) : e.type \in EventTypes
  BY TwoEvents
<1>7. \A e : (\E u \in turns : e \in shown(u)) <=> e \in EventsOf(t)
  BY <1>6 DEF EventTypes
<1>8. QED
  BY <1>5, <1>7

\* A history shows the events in the order in which they are sorted: neither
\* the grouping by turn nor the places in a turn move an event.
LEMMA OrderIs ==
    ASSUME Inv, SaidInv, ApartInv, NEW t \in Threads,
           NEW d \in EventsOf(t), NEW e \in EventsOf(t)
    PROVE  ShownBefore(t, d, e) <=> Earlier(d, e)
<1>1. \A x \in EventsOf(t) : x \in rows /\ x.thread = t /\ x.time \in Nat /\ x.seq \in Nat
  BY TwoEvents DEF EventsOf
<1>2. CASE d.turn = e.turn
  <2>1. Earlier(d, e) <=> d.seq < e.seq
    <3>1. /\ (d.seq < e.seq => d.time <= e.time) /\ (e.seq < d.seq => e.time <= d.time)
          /\ d.seq = e.seq => d = e
      BY <1>2, TwoEvents
    <3>2. QED
      BY <1>1, <3>1 DEF Earlier
  <2>2. ASSUME NEW x \in EventsOf(t), NEW y \in EventsOf(t), x.turn = y.turn, Slot(x) < Slot(y)
        PROVE  x.seq < y.seq
    <3>1. x # y
      BY <2>2 DEF Slot
    <3>2. x.type = "human_message" \/ y.type = "ai_message"
      BY <2>2 DEF Slot
    <3>3. x.seq <= y.seq
      <4>1. x.type = "human_message" => x.seq = 0
        BY <2>2, TwoEvents
      <4>2. y.type = "ai_message" => x.seq <= y.seq
        BY <2>2, TwoEvents
      <4>3. QED
        BY <1>1, <3>2, <4>1, <4>2
    <3>4. x.seq # y.seq
      BY <2>2, <3>1, TwoEvents
    <3>5. QED
      BY <1>1, <3>3, <3>4
  <2>3. Slot(d) \in 1 .. 3 /\ Slot(e) \in 1 .. 3
    BY DEF Slot
  <2>4. Slot(d) < Slot(e) => d.seq < e.seq
    BY <1>2, <2>2
  <2>5. Slot(e) < Slot(d) => ~(d.seq < e.seq)
    BY <1>1, <1>2, <2>2
  <2>6. QED
    BY <1>2, <2>1, <2>3, <2>4, <2>5 DEF ShownBefore
<1>3. CASE d.turn # e.turn
  <2>1. ASSUME NEW x \in EventsOf(t), NEW y \in EventsOf(t), NEW z \in EventsOf(t),
               x.turn = y.turn, z.turn # x.turn
        PROVE  ~(x.time <= z.time /\ z.time <= y.time)
    BY <1>1, <2>1 DEF ApartInv
  <2>2. ASSUME NEW x \in EventsOf(t), NEW y \in EventsOf(t), x.turn # y.turn
        PROVE  Earlier(x, y) <=> x.time < y.time
    BY <1>1, <2>1, <2>2 DEF Earlier
  <2>3. ASSUME Earlier(d, e)
        PROVE  SeenBefore(EventsOf(t), d.turn, e.turn)
    <3>1. ASSUME NEW y \in EventsOf(t), y.turn = e.turn
          PROVE  Earlier(d, y)
      <4>1. d.time < e.time /\ ~(y.time <= d.time /\ d.time <= e.time)
        BY <1>3, <2>1, <2>2, <2>3, <3>1
      <4>2. d.time < y.time
        BY <1>1, <4>1
      <4>3. QED
        BY <1>3, <2>2, <3>1, <4>2
    <3>2. QED
      BY <3>1 DEF SeenBefore
  <2>4. ASSUME SeenBefore(EventsOf(t), d.turn, e.turn)
        PROVE  Earlier(d, e)
    <3>1. PICK x \in EventsOf(t) :
              x.turn = d.turn /\ \A y \in EventsOf(t) : y.turn = e.turn => Earlier(x, y)
      BY <2>4 DEF SeenBefore
    <3>2. x.time < e.time /\ ~(x.time <= e.time /\ e.time <= d.time)
      BY <1>3, <2>1, <2>2, <3>1
    <3>3. d.time < e.time
      BY <1>1, <3>2
    <3>4. QED
      BY <1>3, <2>2, <3>3
  <2>5. QED
    BY <1>3, <2>3, <2>4 DEF ShownBefore
<1>4. QED
  BY <1>2, <1>3

\* MessagesInHistory: when clients wait for their turn, the messages that GET
\* /threads/{id} returns are those of GET /threads/{id}/history and in its
\* order, whatever became of the turns: the code takes the first of the events
\* of a type and puts the turns in the order of their first events, and loses
\* nothing and moves nothing by it.
THEOREM MessagesInHistory ==
    ASSUME ~Overlap
    PROVE  Spec => []MessagesMatchHistory
<1>1. Init => OwnInv /\ TimeInv /\ SaidInv /\ ApartInv
  <2>1. Init => ApartInv
    BY DEF Init, ApartInv
  <2>2. QED
    BY <2>1, OwnInit, TimeInit, SaidInit
<1>2. Inv /\ OwnInv /\ TimeInv /\ SaidInv /\ ApartInv /\ [Next]_vars =>
        (OwnInv /\ TimeInv /\ SaidInv /\ ApartInv)'
  BY OwnNext, TimeNext, SaidNext, ApartNext
<1>3. Inv /\ SaidInv /\ ApartInv => MessagesMatchHistory
  <2> SUFFICES ASSUME Inv, SaidInv, ApartInv, NEW t \in Threads
               PROVE  /\ Shows(t, {"human_message", "ai_message"}) = ThreadMessages(t)
                      /\ \A d, e \in ThreadMessages(t) : ShownBefore(t, d, e) <=> Earlier(d, e)
    BY DEF MessagesMatchHistory
  <2>1. Shows(t, {"human_message", "ai_message"}) = ThreadMessages(t)
    BY ShowsIs DEF ThreadMessages
  <2>2. \A d, e \in ThreadMessages(t) : ShownBefore(t, d, e) <=> Earlier(d, e)
    BY OrderIs DEF ThreadMessages
  <2>3. QED
    BY <2>1, <2>2
<1>4. QED
  BY <1>1, <1>2, <1>3, Invariance, PTL DEF Spec

-----------------------------------------------------------------------------
(* What the agent remembers, event by event *)

\* The events of thread t that stand for messages which the agent has seen, and
\* the number of messages without those whose events are yet to be made.
Heard(t) == UNION {Counted(u) : u \in {v \in Turns : turn[v].thread = t}}

Listed(t) ==
    IF \E u \in Turns : turn[u].thread = t /\ Answering(turn[u])
    THEN Len(memory[t].msgs) - 1
    ELSE Len(memory[t].msgs)

\* The first n messages that rows show are what the events say, in the order of
\* the events.
Shown(msgs, n) == {i \in 1 .. n : ~Unshown(msgs[i])}

Lined(msgs, n, events) ==
    \E f \in [Shown(msgs, n) -> events] :
        /\ \A e \in events : \E i \in Shown(msgs, n) : f[i] = e
        /\ \A i, j \in Shown(msgs, n) : i < j => Earlier(f[i], f[j])
        /\ \A i \in Shown(msgs, n) : msgs[i] = f[i].says

\* As long as no turn has spoiled the thread, the agent remembers what it heard.
Remembers(t) ==
    thread[t] # "gone" /\ ~Spoiled(t) => Lined(memory[t].msgs, Listed(t), Heard(t))

ListInv == \A t \in Threads : Remembers(t)

LEMMA LinedSame ==
    ASSUME NEW msgs, NEW more, NEW n, NEW events, Lined(msgs, n, events),
           \A i \in 1 .. n : more[i] = msgs[i]
    PROVE  Lined(more, n, events)
<1>1. Shown(more, n) = Shown(msgs, n) /\ \A i \in Shown(msgs, n) : more[i] = msgs[i]
  BY DEF Shown
<1>2. QED
  BY <1>1 DEF Lined

\* A message that is not shown is added to the messages.
LEMMA LinedUnshown ==
    ASSUME NEW msgs, NEW more, NEW n \in Nat, NEW events, Lined(msgs, n, events),
           \A i \in 1 .. n : more[i] = msgs[i], Unshown(more[n + 1])
    PROVE  Lined(more, n + 1, events)
<1>1. \A i : i \in 1 .. n + 1 <=> i \in 1 .. n \/ i = n + 1
  OBVIOUS
<1>2. Shown(more, n + 1) = Shown(more, n)
  BY <1>1 DEF Shown
<1>3. Lined(more, n, events)
  BY LinedSame
<1>4. QED
  BY <1>2, <1>3 DEF Lined

\* A message is added to the messages and an event to the events.
LEMMA LinedMore ==
    ASSUME NEW msgs, NEW more, NEW n \in Nat, NEW events, NEW e, Lined(msgs, n, events),
           \A i \in 1 .. n : more[i] = msgs[i],
           \A d \in events : Earlier(d, e), more[n + 1] = e.says, ~Unshown(e.says)
    PROVE  Lined(more, n + 1, events \cup {e})
<1> DEFINE I == Shown(more, n)
           J == Shown(more, n + 1)
<1>1. PICK f \in [I -> events] :
          /\ \A d \in events : \E i \in I : f[i] = d
          /\ \A i, j \in I : i < j => Earlier(f[i], f[j])
          /\ \A i \in I : more[i] = f[i].says
  <2>1. Lined(more, n, events)
    BY LinedSame
  <2>2. QED
    BY <2>1 DEF Lined
<1> DEFINE g == [i \in J |-> IF i = n + 1 THEN e ELSE f[i]]
<1>2. /\ \A i \in I : i \in J /\ i \in Nat /\ i < n + 1 /\ f[i] \in events
      /\ n + 1 \in J
      /\ \A i \in J : i # n + 1 => i \in I
  <2>1. \A i : i \in 1 .. n + 1 <=> i \in 1 .. n \/ i = n + 1
    OBVIOUS
  <2>2. \A i \in I : i \in 1 .. n
    BY DEF Shown
  <2>3. \A i \in I : i \in Nat /\ i < n + 1
    BY <2>2
  <2>4. \A i \in I : f[i] \in events
    BY <1>1
  <2>5. \A i : i \in J <=> i \in I \/ i = n + 1
    BY <2>1 DEF Shown
  <2>6. QED
    BY <2>3, <2>4, <2>5
<1> HIDE DEF I, J
<1>3. g[n + 1] = e /\ \A i \in I : g[i] = f[i]
  BY <1>2
<1>4. g \in [J -> events \cup {e}]
  BY <1>2
<1> HIDE DEF g
<1>5. \A d \in events \cup {e} : \E i \in J : g[i] = d
  <2>1. ASSUME NEW d \in events
        PROVE  \E i \in J : g[i] = d
    <3>1. PICK i \in I : f[i] = d
      BY <1>1
    <3>2. QED
      BY <1>2, <1>3, <3>1
  <2>2. QED
    BY <1>2, <1>3, <2>1
<1>6. ASSUME NEW i \in J, NEW j \in J, i < j
      PROVE  Earlier(g[i], g[j])
  <2>1. i \in I
    BY <1>2, <1>6
  <2>2. CASE j = n + 1
    BY <1>2, <1>3, <2>1, <2>2
  <2>3. CASE j # n + 1
    BY <1>1, <1>2, <1>3, <1>6, <2>1, <2>3
  <2>4. QED
    BY <2>2, <2>3
<1>7. \A i \in J : more[i] = g[i].says
  BY <1>1, <1>2, <1>3
<1>8. QED
  BY <1>4, <1>5, <1>6, <1>7 DEF Lined, J

\* What Remembers says after a step is said of the values after the step.
LEMMA ListNext ==
    ASSUME NEW t \in Threads,
           thread'[t] # "gone", ~Spoiled(t)' =>
             Lined(memory'[t].msgs, Listed(t)', Heard(t)')
    PROVE  Remembers(t)'
<1>1. Lined(memory[t].msgs, Listed(t), Heard(t))' = Lined(memory'[t].msgs, Listed(t)', Heard(t)')
  BY DEF Lined, Shown, Unshown, Earlier
<1>2. QED
  BY <1>1 DEF Remembers

\* The number of messages, seen from the one turn that may be at work.
LEMMA ListedIs ==
    ASSUME NEW t \in Threads, NEW u \in Turns, turn[u].thread = t,
           \A v \in Turns \ {u} : turn[v].thread = t => ~Answering(turn[v])
    PROVE  Listed(t) = Spelt(turn[u], memory[t])
BY DEF Listed, Spelt

LEMMA ListedNext ==
    ASSUME NEW t \in Threads, NEW u \in Turns, turn'[u].thread = t,
           \A v \in Turns \ {u} : turn'[v].thread = t => ~Answering(turn'[v])
    PROVE  Listed(t)' = Spelt(turn'[u], memory'[t])
BY DEF Listed, Spelt, Answering

\* A step that does not touch what the turns on thread t have said.
LEMMA UntouchedList ==
    ASSUME NEW t \in Threads, Remembers(t), thread'[t] # "gone" => thread[t] # "gone",
           memory'[t] = memory[t], EventsOf(t) \subseteq EventsOf(t)',
           \A u \in Turns :
             /\ turn[u].thread = t /\ turn[u].pc \in Ends => turn'[u] = turn[u]
             /\ turn[u].thread = t \/ turn'[u].thread = t =>
                  \/ turn'[u] = turn[u] /\ Made(u)' = Made(u)
                  \/ Made(u) = {} /\ Made(u)' = {} /\ ~Answering(turn[u]) /\ ~Answering(turn'[u])
    PROVE  Remembers(t)'
<1> SUFFICES ASSUME thread'[t] # "gone" PROVE Remembers(t)'
  BY DEF Remembers
<1> SUFFICES ASSUME ~Spoiled(t)'
             PROVE  Lined(memory'[t].msgs, Listed(t)', Heard(t)')
  BY ListNext
<1>1. \A u \in Turns : Spoke(u, t)' = Spoke(u, t)
  BY DEF Spoke
<1>2. ~Spoiled(t)
  BY <1>1, SpoiledStays
<1>3. ASSUME NEW u \in Turns
      PROVE  /\ turn'[u].thread = t => Counted(u)' = Counted(u)
             /\ turn[u].thread = t => Counted(u)' = Counted(u)
             /\ turn'[u].thread = t /\ turn[u].thread # t => Counted(u) = {} /\ Counted(u)' = {}
             /\ turn[u].thread = t /\ turn'[u].thread # t => Counted(u) = {} /\ Counted(u)' = {}
  BY DEF Counted, Unloaded, Handing, OfSubagent
<1>4. Heard(t)' = Heard(t)
  <2>1. \A e : e \in Heard(t) <=> \E u \in Turns : turn[u].thread = t /\ e \in Counted(u)
    BY DEF Heard
  <2>2. \A e : e \in Heard(t)' <=> \E u \in Turns : turn'[u].thread = t /\ e \in Counted(u)'
    BY DEF Heard
  <2>3. \A e : \A u \in Turns :
          (turn[u].thread = t /\ e \in Counted(u)) <=> (turn'[u].thread = t /\ e \in Counted(u)')
    BY <1>3
  <2>4. QED
    BY <2>1, <2>2, <2>3
<1>5. \A u \in Turns : (turn'[u].thread = t /\ Answering(turn'[u])) <=>
                       (turn[u].thread = t /\ Answering(turn[u]))
  OBVIOUS
<1>6. Listed(t)' = Listed(t)
  BY <1>5 DEF Listed, Answering
<1>7. QED
  BY <1>2, <1>4, <1>6 DEF Remembers

\* A turn that is not at work has no events but those stored.
LEMMA RestMade ==
    ASSUME Inv, SaidInv, NEW u \in Turns, ~Active(u)
    PROVE  Made(u) = TurnRows(u) /\ ~Answering(turn[u])
<1>1. turn[u].pc \in {"new"} \cup Ends /\ ~Answering(turn[u])
  BY InvTurn, TurnFields DEF Active, Answering, Steps, RunSteps, StoreSteps, Ends
<1>2. CASE turn[u].pc = "new"
  <2>1. turn[u].seq = 0
    BY <1>2, InvTurn DEF TurnOK, StepOK, Early
  <2>2. QED
    BY <1>1, <2>1, EarlyMade DEF Made
<1>3. CASE turn[u].pc \in Ends
  <2>1. turn[u].buf = <<>>
    BY <1>3 DEF SaidInv, SaidTurn
  <2>2. QED
    BY <1>1, <2>1 DEF Made, Buffered
<1>4. QED
  BY <1>1, <1>2, <1>3

\* The turns on a thread but the one at work.
LEMMA OtherTurns ==
    ASSUME Inv, OwnInv, SaidInv, NEW u \in Turns, Active(u),
           NEW v \in Turns \ {u}, turn[v].thread = turn[u].thread
    PROVE  ~Active(v) /\ ~Answering(turn[v]) /\ Made(v) \subseteq Others(u)
<1>1. ~Active(v)
  BY DEF OwnInv, Alone
<1>2. Made(v) = TurnRows(v) /\ ~Answering(turn[v])
  BY <1>1, RestMade
<1>3. \A e \in TurnRows(v) : e \in rows /\ e.turn = v /\ e.thread = turn[u].thread
  BY MadeFacts DEF Made, TurnRows
<1>4. QED
  BY <1>1, <1>2, <1>3 DEF Others, EventsOf

\* What a counted event says is said by its turn.
LEMMA CountedSays ==
    ASSUME Inv, OwnInv, SaidInv, NEW u \in Turns, NEW e \in Counted(u)
    PROVE  e.says.turn = u
<1>1. e \in Made(u) /\ e.turn = u /\ e.type \in Told
  BY MadeFacts DEF Counted
<1>4. ~OfSubagent(e)
  BY DEF Counted
<1>2. EventSays(e) /\ Said(e, turn[u].kind)
  BY <1>1 DEF OwnInv, OwnTurn, SaidInv, SaidTurn
<1>3. QED
  BY <1>1, <1>2, <1>4 DEF EventSays, Own, Said, Told, OfSubagent

\* The length of what a thread remembers, in the stages of a turn.
LEMMA SpeltNat ==
    ASSUME Inv, OwnInv, NEW u \in Turns, Active(u), NEW t \in Threads, turn[u].thread = t
    PROVE  /\ Spelt(turn[u], memory[t]) \in Nat
           /\ \A i \in 1 .. Spelt(turn[u], memory[t]) : i \in 1 .. Len(memory[t].msgs)
           /\ ~Spoke(u, t) =>
                ~Answering(turn[u]) /\ Spelt(turn[u], memory[t]) = Len(memory[t].msgs)
<1> DEFINE msgs == memory[t].msgs
<1>1. msgs \in Seq(Message) /\ RunOK(turn[u], u, memory[t])
  BY OwnFacts
<1>2. Len(msgs) \in Nat /\ (msgs # <<>> => Len(msgs) > 0)
  BY <1>1
<1>3. ASSUME Answering(turn[u])
      PROVE  msgs # <<>> /\ Spoke(u, t)
  <2>1. msgs # <<>> /\ Own(Last(msgs), u)
    BY <1>1, <1>3 DEF RunOK, Answered, Answering
  <2>2. Len(msgs) \in 1 .. Len(msgs)
    BY <1>2, <2>1
  <2>3. QED
    BY <2>1, <2>2 DEF Spoke, Own, Last
<1>4. QED
  BY <1>2, <1>3 DEF Spelt

\* A turn that was at work on the thread left nothing: it had heard nothing.
LEMMA NothingList ==
    ASSUME Inv, OwnInv, SaidInv, NEW u \in Turns, NEW t \in Threads,
           turn[u].thread = t, Active(u), ~Spoke(u, t), thread[t] # "gone", ~Spoiled(t),
           Remembers(t), memory'[t] = memory[t],
           turn'[u].thread = t, ~Answering(turn'[u]), Made(u)' = {},
           \A v \in Turns \ {u} : /\ turn'[v].thread = t <=> turn[v].thread = t
                                  /\ turn[v].thread = t => turn'[v] = turn[v] /\ Made(v)' = Made(v)
    PROVE  Lined(memory'[t].msgs, Listed(t)', Heard(t)')
<1> DEFINE msgs == memory[t].msgs
<1>1. \A v \in Turns \ {u} : turn[v].thread = t => ~Answering(turn[v])
  BY OtherTurns
<1>2. Listed(t) = Len(msgs)
  <2>1. Listed(t) = Spelt(turn[u], memory[t])
    BY <1>1, ListedIs
  <2>2. QED
    BY <2>1, SpeltNat
<1>3. Listed(t)' = Len(msgs)
  <2>1. Listed(t)' = Spelt(turn'[u], memory'[t])
    BY <1>1, ListedNext
  <2>2. QED
    BY <2>1 DEF Spelt
<1>4. Lined(msgs, Len(msgs), Heard(t))
  BY <1>2 DEF Remembers
<1>5. Counted(u) = {}
  <2> SUFFICES ASSUME NEW e \in Counted(u) PROVE FALSE
    OBVIOUS
  <2>1. e \in Heard(t)
    BY DEF Heard
  <2>2. PICK i \in 1 .. Len(msgs) : msgs[i] = e.says
    BY <1>4, <2>1 DEF Lined, Shown
  <2>3. QED
    BY <2>2, CountedSays DEF Spoke
<1>6. Counted(u)' = {}
  BY DEF Counted
<1>7. \A v \in Turns \ {u} : turn[v].thread = t => Counted(v)' = Counted(v)
  BY DEF Counted, Unloaded, Handing, OfSubagent
<1>8. Heard(t)' = Heard(t)
  <2>1. \A e : e \in Heard(t) <=> \E v \in Turns : turn[v].thread = t /\ e \in Counted(v)
    BY DEF Heard
  <2>2. \A e : e \in Heard(t)' <=> \E v \in Turns : turn'[v].thread = t /\ e \in Counted(v)'
    BY DEF Heard
  <2>3. \A e : \A v \in Turns :
          (turn[v].thread = t /\ e \in Counted(v)) <=> (turn'[v].thread = t /\ e \in Counted(v)')
    BY <1>5, <1>6, <1>7
  <2>4. QED
    BY <2>1, <2>2, <2>3
<1>9. QED
  BY <1>3, <1>4, <1>8

\* A turn at work goes on, or ends well, and what it says is heard.
LEMMA HeardMore ==
    ASSUME Inv, OwnInv, TimeInv, SaidInv, NEW u \in Turns, NEW n, Becomes(u, n),
           SaidStep(u), Tells(u), NEW t \in Threads, turn[u].thread = t, ~Spoiled(t),
           thread[t] # "gone", Remembers(t)
    PROVE  Lined(memory'[t].msgs, Listed(t)', Heard(t)')
<1> DEFINE old == memory[t].msgs
           new == memory'[t].msgs
           spelt == Spelt(turn[u], memory[t])
<1>1. Active(u) /\ turn'[u] = n /\ n.thread = t
  BY BecomesEvents DEF Becomes
<1>2. \A v \in Turns \ {u} : /\ turn'[v] = turn[v] /\ Made(v)' = Made(v)
                             /\ turn[v].thread = t => ~Answering(turn[v]) /\ Made(v) \subseteq Others(u)
  BY <1>1, BecomesEvents, OtherTurns
<1>3. Listed(t) = spelt /\ Listed(t)' = Spelt(turn'[u], memory'[t]) /\ spelt \in Nat
  BY <1>1, <1>2, ListedIs, ListedNext, SpeltNat
<1>4. Lined(old, spelt, Heard(t))
  BY <1>3 DEF Remembers
<1>5. \A v \in Turns \ {u} : Counted(v)' = Counted(v)
  BY <1>2 DEF Counted, Unloaded, Handing, OfSubagent
<1>6. \A e : e \in Heard(t) <=> \E v \in Turns : turn[v].thread = t /\ e \in Counted(v)
  BY DEF Heard
<1>7. \A e : e \in Heard(t)' <=> \E v \in Turns : turn'[v].thread = t /\ e \in Counted(v)'
  BY DEF Heard
<1>8. /\ \A i \in 1 .. spelt : new[i] = old[i]
      /\ \/ Counted(u)' = Counted(u) /\ Spelt(turn'[u], memory'[t]) = spelt
         \/ /\ Spelt(turn'[u], memory'[t]) = spelt + 1
            /\ \E e \in Made(u)' : /\ Counted(u)' = Counted(u) \cup {e}
                                   /\ \A d \in Counted(u) : Earlier(d, e)
                                   /\ new[spelt + 1] = e.says /\ ~Unshown(e.says)
         \/ /\ Counted(u)' = Counted(u) /\ Spelt(turn'[u], memory'[t]) = spelt + 1
            /\ Unshown(new[spelt + 1])
  BY DEF Tells
<1>12. ASSUME Counted(u)' = Counted(u)
       PROVE  Heard(t)' = Heard(t)
  <2>1. \A e : \A v \in Turns :
          (turn[v].thread = t /\ e \in Counted(v)) <=> (turn'[v].thread = t /\ e \in Counted(v)')
    BY <1>1, <1>2, <1>5, <1>12
  <2>2. QED
    BY <1>6, <1>7, <2>1
<1>9. CASE Counted(u)' = Counted(u) /\ Spelt(turn'[u], memory'[t]) = spelt
  BY <1>3, <1>4, <1>8, <1>9, <1>12, LinedSame
<1>13. CASE /\ Counted(u)' = Counted(u) /\ Spelt(turn'[u], memory'[t]) = spelt + 1
            /\ Unshown(new[spelt + 1])
  <2>1. Lined(new, spelt + 1, Heard(t))
    BY <1>3, <1>4, <1>8, <1>13, LinedUnshown
  <2>2. QED
    BY <1>3, <1>12, <1>13, <2>1
<1>10. CASE /\ Spelt(turn'[u], memory'[t]) = spelt + 1
            /\ \E e \in Made(u)' : /\ Counted(u)' = Counted(u) \cup {e}
                                   /\ \A d \in Counted(u) : Earlier(d, e)
                                   /\ new[spelt + 1] = e.says /\ ~Unshown(e.says)
  <2>1. PICK e \in Made(u)' : /\ Counted(u)' = Counted(u) \cup {e}
                              /\ \A d \in Counted(u) : Earlier(d, e)
                              /\ new[spelt + 1] = e.says /\ ~Unshown(e.says)
    BY <1>10
  <2>2. Heard(t)' = Heard(t) \cup {e}
    BY <1>1, <1>2, <1>5, <1>6, <1>7, <2>1
  <2>3. \A d \in Others(u) : d.time < e.time
    <3>1. e \in Made(u) \/ e.time = clock
      BY DEF SaidStep
    <3>2. QED
      BY <1>1, <3>1 DEF TimeInv, TurnTime
  <2>4. \A d \in Heard(t) : Earlier(d, e)
    <3>1. ASSUME NEW d \in Heard(t)
          PROVE  d \in Counted(u) \/ d \in Others(u)
      BY <1>2, <1>6 DEF Counted
    <3>2. QED
      BY <2>1, <2>3, <3>1 DEF Earlier
  <2>5. Lined(new, spelt + 1, Heard(t) \cup {e})
    BY <1>3, <1>4, <1>8, <2>1, <2>4, LinedMore
  <2>6. QED
    BY <1>3, <1>10, <2>2, <2>5
<1>11. QED
  BY <1>8, <1>9, <1>10, <1>13

LEMMA BecomesList ==
    ASSUME Inv, OwnInv, TimeInv, SaidInv, ListInv, NEW u \in Turns, NEW n, Becomes(u, n),
           Speaks(u)
    PROVE  ListInv'
<1>1. PICK t \in Threads : turn[u].thread = t
  BY OwnFacts DEF Becomes
<1>2. /\ Active(u) /\ turn[u].thread = t /\ turn[u].pc \notin Ends /\ UNCHANGED thread
      /\ turn[u].pc # "new" /\ thread \in [Threads -> {"none", "live", "gone"}]
  BY <1>1 DEF Becomes, Active, Steps, StoreSteps, RunSteps, Ends, Inv, TypeOK
<1>3. /\ turn'[u] = n /\ \A v \in Turns \ {u} : turn'[v] = turn[v] /\ Made(v)' = Made(v)
      /\ \A v \in Turns : turn'[v].thread = turn[v].thread
      /\ TurnRows(u)' \subseteq Made(u)
  BY <1>2, BecomesEvents
<1>4. ASSUME NEW x \in Threads, x # t
      PROVE  Remembers(x)'
  <2>1. memory'[x] = memory[x] /\ EventsOf(x)' = EventsOf(x)
    BY <1>2, <1>4, BecomesEvents, BecomesMemory
  <2>2. \A v \in Turns : turn[v].thread = x \/ turn'[v].thread = x =>
           turn'[v] = turn[v] /\ Made(v)' = Made(v)
    BY <1>2, <1>3, <1>4
  <2>3. Remembers(x) /\ thread'[x] = thread[x]
    BY <1>2 DEF ListInv
  <2>4. QED
    BY <2>1, <2>2, <2>3, UntouchedList
<1>5. Remembers(t)'
  <2> SUFFICES ASSUME thread'[t] # "gone" PROVE Remembers(t)'
    BY DEF Remembers
  <2> SUFFICES ASSUME ~Spoiled(t)' PROVE Lined(memory'[t].msgs, Listed(t)', Heard(t)')
    BY <1>2, ListNext
  <2>1. rows \subseteq rows' /\ \A e \in rows' \ rows : e.turn = u
    <3>1. \A e \in Buffered(u) : e.turn = u
      BY BufferedOwn
    <3>2. QED
      BY <3>1 DEF Becomes, Buffered, In
  <2>2. EventsOf(t) \subseteq EventsOf(t)'
    BY <2>1 DEF EventsOf
  <2>3. \A v \in Turns : turn[v].thread = t /\ turn[v].pc \in Ends =>
           turn'[v] = turn[v] /\ (Spoke(v, t) => Spoke(v, t)')
    BY <1>2, <1>3, BecomesMemory
  <2>4. ~Spoiled(t)
    BY <1>2, <2>2, <2>3, SpoiledStays
  <2>5. thread[t] = "live" /\ thread[t] # "gone"
    BY <1>2 DEF Inv
  <2>6. Remembers(t)
    BY DEF ListInv
  <2>7. CASE turn'[u].pc \notin {"failed", "cut"}
    <3>1. SaidStep(u) /\ Tells(u)
      BY <1>2, <2>5, <2>7 DEF Speaks
    <3>2. QED
      BY <1>2, <2>4, <2>5, <2>6, <3>1, HeardMore
  <2>8. CASE turn'[u].pc \in {"failed", "cut"}
    <3>1. turn'[u].pc \in Ends \ {"done"} /\ ~Answering(turn'[u])
      BY <2>8 DEF Ends, Answering
    <3>2. EventsOf(t)' = Others(u) /\ ~Spoke(u, t)'
      BY <1>2, <1>3, <2>1, <3>1, LeavesNothing
    <3>3. ~Spoke(u, t) /\ memory' = memory
      BY <1>2, <3>2, BecomesMemory
    <3>4. turn'[u].buf = <<>>
      BY <3>1 DEF Speaks, SaidStep
    <3>5. Made(u)' = {}
      <4>1. Buffered(u)' = {}
        BY <3>4 DEF Buffered
      <4>2. \A e \in TurnRows(u)' : e.turn = u /\ e.thread = t /\ e \in rows'
        BY <1>2, <1>3, MadeFacts DEF TurnRows
      <4>3. \A e \in TurnRows(u)' : e \in EventsOf(t)'
        BY <4>2 DEF EventsOf
      <4>4. TurnRows(u)' = {}
        BY <3>2, <4>2, <4>3 DEF Others
      <4>5. QED
        BY <4>1, <4>4 DEF Made
    <3>6. QED
      BY <1>2, <1>3, <2>4, <2>5, <2>6, <3>1, <3>3, <3>5, NothingList
  <2>9. QED
    BY <2>7, <2>8
<1>6. QED
  BY <1>4, <1>5 DEF ListInv

LEMMA BeginsList ==
    ASSUME Inv, ListInv, NEW u \in Turns, NEW t \in Threads, NEW n, Begins(u, t, n)
    PROVE  ListInv'
<1>1. /\ turn'[u] = n /\ n.pc \in {"route", "get"} /\ turn[u].pc = "new"
      /\ \A v \in Turns \ {u} : turn'[v] = turn[v] /\ Made(v)' = Made(v)
      /\ UNCHANGED <<rows, memory, thread>> /\ Made(u)' = {}
  <2>1. n.pc \in {"route", "get"} /\ turn[u].pc = "new"
    BY DEF Begins
  <2>2. QED
    BY <2>1, BeginsEvents
<1>2. ~Answering(turn[u]) /\ ~Answering(turn'[u]) /\ turn[u].pc \notin Ends
  BY <1>1 DEF Answering, Ends
<1>3. Made(u) = {}
  BY <1>1, InvTurn, EarlyMade DEF TurnOK, StepOK, Early
<1>4. ASSUME NEW x \in Threads
      PROVE  Remembers(x)'
  <2>1. Remembers(x) /\ memory'[x] = memory[x] /\ thread'[x] = thread[x]
        /\ EventsOf(x) \subseteq EventsOf(x)'
    BY <1>1 DEF ListInv, EventsOf
  <2>2. \A v \in Turns :
             /\ turn[v].thread = x /\ turn[v].pc \in Ends => turn'[v] = turn[v]
             /\ turn[v].thread = x \/ turn'[v].thread = x =>
                  \/ turn'[v] = turn[v] /\ Made(v)' = Made(v)
                  \/ Made(v) = {} /\ Made(v)' = {} /\ ~Answering(turn[v]) /\ ~Answering(turn'[v])
    BY <1>1, <1>2, <1>3
  <2>3. QED
    BY <2>1, <2>2, UntouchedList
<1>5. QED
  BY <1>4 DEF ListInv

\* The process dies: a turn that was at work spoils its thread, or leaves nothing.
LEMMA RestartList ==
    ASSUME Inv, OwnInv, SaidInv, ListInv, Restart
    PROVE  ListInv'
<1>1. /\ UNCHANGED <<thread, rows, memory>>
      /\ turn' = [u \in Turns |-> IF Active(u) THEN Ended(turn[u], "cut") ELSE turn[u]]
  BY DEF Restart, Ended
<1>2. ASSUME NEW u \in Turns, Active(u)
      PROVE  turn'[u].pc = "cut" /\ turn'[u].buf = <<>> /\ turn'[u].thread = turn[u].thread
  BY <1>1, <1>2, OwnFacts, CutOwn
<1>3. \A u \in Turns : ~Active(u) => turn'[u] = turn[u] /\ Made(u)' = Made(u)
  BY <1>1 DEF Made, TurnRows, Buffered
<1>4. "cut" \in Ends \ {"done"} /\ Ends \cap Steps = {}
  BY DEF Ends, Steps, StoreSteps, RunSteps
<1>5. \A x \in Threads, u \in Turns : EventsOf(x)' = EventsOf(x) /\ Spoke(u, x)' = Spoke(u, x)
  BY <1>1 DEF EventsOf, Spoke
<1>6. \A u \in Turns : turn'[u].thread = turn[u].thread
  BY <1>2, <1>3
<1>7. ASSUME NEW t \in Threads
      PROVE  Remembers(t)'
  <2>1. Remembers(t) /\ memory'[t] = memory[t] /\ thread'[t] = thread[t]
        /\ EventsOf(t) \subseteq EventsOf(t)'
    BY <1>1 DEF ListInv, EventsOf
  <2>2. \A u \in Turns : turn[u].thread = t /\ turn[u].pc \in Ends => turn'[u] = turn[u]
    BY <1>3, <1>4 DEF Active
  <2>3. CASE Quiet(t)
    <3>1. \A u \in Turns : turn[u].thread = t \/ turn'[u].thread = t =>
             turn'[u] = turn[u] /\ Made(u)' = Made(u)
      BY <1>3, <1>6, <2>3 DEF Quiet
    <3>2. QED
      BY <2>1, <2>2, <3>1, UntouchedList
  <2>4. CASE ~Quiet(t)
    <3>1. PICK u \in Turns : turn[u].thread = t /\ Active(u)
      BY <2>4 DEF Quiet
    <3> SUFFICES ASSUME thread'[t] # "gone" PROVE Remembers(t)'
      BY DEF Remembers
    <3> SUFFICES ASSUME ~Spoiled(t)' PROVE Lined(memory'[t].msgs, Listed(t)', Heard(t)')
      BY ListNext
    <3>2. ~Spoiled(t)
      BY <1>5, <2>1, <2>2, SpoiledStays
    <3>3. turn'[u].thread = t /\ turn'[u].pc \in Ends \ {"done"} /\ ~Answering(turn'[u])
      BY <1>2, <1>4, <3>1 DEF Answering
    <3>4. EventsOf(t)' = Others(u) /\ ~Spoke(u, t)'
      BY <1>1, <3>1, <3>3, LeavesNothing
    <3>5. Made(u)' = {}
      <4>1. Buffered(u)' = {} /\ TurnRows(u)' = TurnRows(u)
        BY <1>1, <1>2, <3>1 DEF Buffered, TurnRows
      <4>2. \A e \in TurnRows(u) : e \in EventsOf(t)' /\ e.turn = u
        BY <1>5, <3>1, MadeFacts DEF Made, TurnRows, EventsOf
      <4>3. TurnRows(u) = {}
        BY <3>4, <4>2 DEF Others
      <4>4. QED
        BY <4>1, <4>3 DEF Made
    <3>6. \A v \in Turns \ {u} : /\ turn'[v].thread = t <=> turn[v].thread = t
                                 /\ turn[v].thread = t => turn'[v] = turn[v] /\ Made(v)' = Made(v)
      BY <1>3, <1>6, <3>1 DEF OwnInv, Alone
    <3>7. QED
      BY <1>5, <2>1, <3>1, <3>2, <3>3, <3>4, <3>5, <3>6, NothingList
  <2>5. QED
    BY <2>3, <2>4
<1>8. QED
  BY <1>7 DEF ListInv

LEMMA ListInit == Init => ListInv
<1> SUFFICES ASSUME Init, NEW t \in Threads PROVE Remembers(t)
  BY DEF ListInv
<1>1. memory[t].msgs = <<>> /\ \A u \in Turns : Made(u) = {} /\ turn[u].pc = "new"
  BY DEF Init, New, Made, TurnRows, Buffered
<1>2. Heard(t) = {} /\ Listed(t) = 0
  BY <1>1 DEF Heard, Counted, Listed, Answering
<1>3. Lined(<<>>, 0, {})
  <2>1. <<>> \in [{} -> {}] /\ Shown(<<>>, 0) = {}
    BY DEF Shown
  <2>2. QED
    BY <2>1 DEF Lined
<1>4. QED
  BY <1>1, <1>2, <1>3 DEF Remembers

LEMMA ListNextInv ==
    ~Overlap /\ Inv /\ OwnInv /\ TimeInv /\ SaidInv /\ ListInv /\ [Next]_vars => ListInv'
<1> SUFFICES ASSUME ~Overlap, Inv, OwnInv, TimeInv, SaidInv, ListInv, [Next]_vars
             PROVE  ListInv'
  OBVIOUS
<1>1. ASSUME UNCHANGED <<memory, turn>>, rows' \subseteq rows,
             \A x \in Threads : thread'[x] # "gone" =>
                thread[x] # "gone" /\ EventsOf(x)' = EventsOf(x)
      PROVE  ListInv'
  <2> SUFFICES ASSUME NEW x \in Threads PROVE Remembers(x)'
    BY DEF ListInv
  <2>1. CASE thread'[x] = "gone"
    BY <2>1 DEF Remembers
  <2>2. CASE thread'[x] # "gone"
    <3>1. Remembers(x) /\ memory'[x] = memory[x] /\ turn' = turn /\ EventsOf(x)' = EventsOf(x)
      BY <1>1, <2>2 DEF ListInv
    <3>2. ASSUME NEW u \in Turns, turn[u].thread = x
          PROVE  Made(u)' = Made(u)
      <4>1. \A e \in TurnRows(u) : e \in EventsOf(x)
        BY <3>2, MadeFacts DEF Made, TurnRows, EventsOf
      <4>2. TurnRows(u) \subseteq TurnRows(u)'
        BY <3>1, <4>1 DEF TurnRows, EventsOf
      <4>3. TurnRows(u)' \subseteq TurnRows(u)
        BY <1>1 DEF TurnRows
      <4>4. QED
        BY <3>1, <4>2, <4>3 DEF Made, Buffered
    <3>3. QED
      BY <1>1, <2>2, <3>1, <3>2, UntouchedList
  <2>3. QED
    BY <2>1, <2>2
<1>2. thread \in [Threads -> {"none", "live", "gone"}]
  BY DEF Inv, TypeOK
<1>3. ASSUME NEW t \in Threads, CreateThread(t)
      PROVE  ListInv'
  BY <1>1, <1>2, <1>3 DEF CreateThread, EventsOf
<1>4. ASSUME NEW t \in Threads, DeleteThread(t)
      PROVE  ListInv'
  BY <1>1, <1>2, <1>4 DEF DeleteThread, EventsOf
<1>5. ASSUME NEW u \in Turns, NEW t \in Threads, Start(u, t)
      PROVE  ListInv'
  BY <1>5, StartBegins, BeginsList
<1>6. ASSUME NEW u \in Turns, ServerStep(u) \/ GraphStep(u) \/ Deliver(u) \/ Disconnect(u)
      PROVE  ListInv'
  BY <1>6, TurnBecomes, TurnSpeaks, BecomesList
<1>7. CASE Restart
  BY <1>7, RestartList
<1>8. CASE UNCHANGED vars
  BY <1>1, <1>8 DEF vars, EventsOf
<1>9. QED
  BY <1>3, <1>4, <1>5, <1>6, <1>7, <1>8 DEF Next

\* The messages at I are what the events of S say, and as many of them come
\* before the message of an event as events before the event.
Placed(msgs, I, S) ==
    /\ Cardinality(I) = Cardinality(S)
    /\ \A e \in S : \E i \in I :
          /\ msgs[i] = e.says
          /\ Cardinality({j \in I : j < i}) = Cardinality({d \in S : Earlier(d, e)})

LEMMA LinedPlaces ==
    ASSUME NEW S \in SUBSET Event, NEW msgs, NEW n \in Nat, Lined(msgs, n, S)
    PROVE  Placed(msgs, Shown(msgs, n), S)
<1> DEFINE I == Shown(msgs, n)
<1>1. PICK f \in [I -> S] :
          /\ \A e \in S : \E i \in I : f[i] = e
          /\ \A i, j \in I : i < j => Earlier(f[i], f[j])
          /\ \A i \in I : msgs[i] = f[i].says
  BY DEF Lined
<1>2. I \subseteq 1 .. n /\ I \subseteq Nat /\ IsFiniteSet(I)
  <2>1. I \subseteq 1 .. n
    BY DEF Shown
  <2>2. IsFiniteSet(1 .. n)
    BY FS_Interval
  <2>3. QED
    BY <2>1, <2>2, FS_Subset
<1> HIDE DEF I
<1>3. \A e \in S : e.time \in Nat /\ e.seq \in Nat
  BY DEF Event
<1>4. \A d, e \in S : Earlier(d, e) => d # e /\ ~Earlier(e, d)
  BY <1>3 DEF Earlier
<1>5. \A i, j \in I : f[i] \in S /\ (i < j <=> Earlier(f[i], f[j]))
  <2> SUFFICES ASSUME NEW i \in I, NEW j \in I
               PROVE  f[i] \in S /\ (i < j <=> Earlier(f[i], f[j]))
    OBVIOUS
  <2>1. f[i] \in S /\ f[j] \in S
    BY <1>1
  <2>2. (i < j => Earlier(f[i], f[j])) /\ (j < i => Earlier(f[j], f[i]))
    BY <1>1
  <2>3. i < j \/ j < i \/ i = j
    BY <1>2
  <2>4. QED
    BY <1>4, <2>1, <2>2, <2>3
<1>6. \A i, j \in I : f[i] = f[j] => i = j
  <2> SUFFICES ASSUME NEW i \in I, NEW j \in I, f[i] = f[j]
               PROVE  i = j
    OBVIOUS
  <2>1. ~(i < j) /\ ~(j < i)
    BY <1>4, <1>5
  <2>2. QED
    BY <1>2, <2>1
<1>7. Cardinality(I) = Cardinality(S)
  <2>1. f \in Bijection(I, S)
    BY <1>1, <1>6 DEF Bijection, Injection, IsInjective, Surjection
  <2>2. QED
    BY <1>2, <2>1, FS_Bijection DEF ExistsBijection
<1>8. ASSUME NEW e \in S
      PROVE  \E i \in I : /\ msgs[i] = e.says
                          /\ Cardinality({j \in I : j < i}) = Cardinality({d \in S : Earlier(d, e)})
  <2>1. PICK i \in I : f[i] = e
    BY <1>1
  <2> DEFINE D == {d \in S : Earlier(d, e)}
             B == {j \in I : j < i}
             g == [j \in B |-> f[j]]
  <2>2. B \subseteq I /\ IsFiniteSet(B)
    BY <1>2, FS_Subset
  <2>3. g \in [B -> D]
    BY <1>5, <2>1
  <2>4. \A d \in D : \E j \in B : g[j] = d
    <3> SUFFICES ASSUME NEW d \in D PROVE \E j \in B : g[j] = d
      OBVIOUS
    <3>1. PICK j \in I : f[j] = d
      BY <1>1
    <3>2. j < i
      BY <1>5, <2>1, <3>1
    <3>3. QED
      BY <3>1, <3>2
  <2>5. \A j, k \in B : g[j] = g[k] => j = k
    BY <1>6
  <2>6. g \in Bijection(B, D)
    <3> HIDE DEF g, D, B
    <3>1. DOMAIN g = B
      BY <2>3
    <3>2. QED
      BY <2>3, <2>4, <2>5, <3>1 DEF Bijection, Injection, IsInjective, Surjection
  <2> HIDE DEF g, D, B
  <2>7. Cardinality(B) = Cardinality(D)
    BY <2>2, <2>6, FS_Bijection DEF ExistsBijection
  <2>8. QED
    BY <1>1, <2>1, <2>7 DEF B, D
<1>9. QED
  BY <1>7, <1>8 DEF I, Placed

\* On a thread at rest every event that stands for a message has been heard.
LEMMA HeardAtRest ==
    ASSUME Inv, SaidInv, NEW t \in Threads, Quiet(t)
    PROVE  /\ Heard(t) = {e \in EventsOf(t) : e.type \in Told /\ ~OfSubagent(e)}
           /\ Listed(t) = Len(memory[t].msgs)
<1>1. ASSUME NEW u \in Turns, turn[u].thread = t
      PROVE  Made(u) = TurnRows(u) /\ ~Answering(turn[u]) /\ ~Unloaded(turn[u])
  <2>1. ~Active(u)
    BY <1>1 DEF Quiet
  <2>2. ~Unloaded(turn[u])
    BY <2>1 DEF Active, Unloaded, Handing, Storing, Steps, RunSteps
  <2>3. QED
    BY <2>1, <2>2, RestMade
<1>2. Listed(t) = Len(memory[t].msgs)
  BY <1>1 DEF Listed
<1>3. ASSUME NEW u \in Turns, turn[u].thread = t, NEW e \in Counted(u)
      PROVE  e \in EventsOf(t) /\ e.type \in Told /\ ~OfSubagent(e)
  <2>1. e \in TurnRows(u) /\ e.thread = t
    BY <1>1, <1>3, MadeFacts DEF Counted
  <2>2. QED
    BY <2>1 DEF Counted, EventsOf, TurnRows
<1>4. ASSUME NEW e \in EventsOf(t), e.type \in Told, ~OfSubagent(e)
      PROVE  \E u \in Turns : turn[u].thread = t /\ e \in Counted(u)
  <2>1. e \in rows /\ e.thread = t
    BY DEF EventsOf
  <2>2. e.turn \in Turns /\ e \in Made(e.turn)
    BY <2>1, RowFacts
  <2>3. turn[e.turn].thread = t
    BY <2>1, <2>2, MadeFacts
  <2>4. e \in Counted(e.turn)
    BY <1>1, <1>4, <2>2, <2>3 DEF Counted
  <2>5. QED
    BY <2>2, <2>3, <2>4
<1>5. \A e : e \in Heard(t) <=> \E u \in Turns : turn[u].thread = t /\ e \in Counted(u)
  BY DEF Heard
<1>6. QED
  BY <1>2, <1>3, <1>4, <1>5

\* HistoryTells: when clients wait for their turn, the history of a thread at
\* rest, all of whose turns ended well or left nothing, shows what people said,
\* what tools returned and what the agent answered as the agent remembers it, no
\* more and no less and in its order: though the trace is written event by event,
\* from the stream of the graph, and the checkpoint by the graph itself.  Results
\* of the tools of subagents are left out of the history, and messages that call
\* tools without a decision out of the memory: they have no counterpart.
THEOREM HistoryTells ==
    ASSUME ~Overlap
    PROVE  Spec => []HistoryMatchesMemory
<1>1. Init => OwnInv /\ TimeInv /\ SaidInv /\ ApartInv /\ ListInv
  <2>1. Init => ApartInv
    BY DEF Init, ApartInv
  <2>2. QED
    BY <2>1, OwnInit, TimeInit, SaidInit, ListInit
<1>2. Inv /\ OwnInv /\ TimeInv /\ SaidInv /\ ApartInv /\ ListInv /\ [Next]_vars =>
        (OwnInv /\ TimeInv /\ SaidInv /\ ApartInv /\ ListInv)'
  BY OwnNext, TimeNext, SaidNext, ApartNext, ListNextInv
<1>3. Inv /\ SaidInv /\ ApartInv /\ ListInv => HistoryMatchesMemory
  <2> DEFINE shown(t) ==
               {e \in Shows(t, {"human_message", "tool_result", "ai_message"}) : ~OfSubagent(e)}
  <2> SUFFICES ASSUME Inv, SaidInv, ApartInv, ListInv, NEW t \in Threads, Settled(t)
               PROVE  Lists(memory[t].msgs, t, shown(t))
    BY DEF HistoryMatchesMemory
  <2> DEFINE msgs == memory[t].msgs
  <2>1. thread[t] = "live" /\ Quiet(t) /\ ~Spoiled(t)
    BY DEF Settled, Spoiled
  <2>2. Lined(msgs, Len(msgs), Heard(t))
    BY <2>1, HeardAtRest DEF ListInv, Remembers
  <2>3. shown(t) = {e \in EventsOf(t) : e.type \in Told /\ ~OfSubagent(e)}
    BY ShowsIs DEF Told
  <2>4. Heard(t) = shown(t)
    BY <2>1, <2>3, HeardAtRest
  <2>5. shown(t) \in SUBSET Event /\ shown(t) \subseteq EventsOf(t)
    BY <2>3 DEF EventsOf, Inv, TypeOK
  <2>6. Len(msgs) \in Nat
    BY MemoryFields DEF Inv, TypeOK
  <2> HIDE DEF shown
  <2> DEFINE S == shown(t)
             n == Len(msgs)
             I == {i \in DOMAIN msgs : ~Unshown(msgs[i])}
  <2>10. I = Shown(msgs, n)
    <3>1. msgs \in Seq(Message)
      BY MemoryFields DEF Inv, TypeOK
    <3>2. QED
      BY <3>1 DEF Shown
  <2>11. S \in SUBSET Event /\ n \in Nat /\ Lined(msgs, n, S)
    BY <2>2, <2>4, <2>5, <2>6
  <2> HIDE DEF S, n, I
  <2>12. Placed(msgs, I, S)
    BY <2>10, <2>11, LinedPlaces
  <2>7. /\ Cardinality(I) = Cardinality(S)
        /\ \A e \in S : \E i \in I :
              /\ msgs[i] = e.says
              /\ Cardinality({j \in I : j < i}) = Cardinality({d \in S : Earlier(d, e)})
    BY <2>12 DEF Placed
  <2>8. \A e \in shown(t) :
           {d \in shown(t) : ShownBefore(t, d, e)} = {d \in shown(t) : Earlier(d, e)}
    BY <2>5, OrderIs
  <2>9. QED
    BY <2>7, <2>8 DEF Lists, S, I
<1>4. QED
  BY <1>1, <1>2, <1>3, Invariance, PTL DEF Spec
=============================================================================
