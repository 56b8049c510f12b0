--------------------------- MODULE ThreadHistory ---------------------------
(***************************************************************************)
(* The history that GET /api/v1/threads/{id}/history rebuilds from the     *)
(* trace, and the messages of GET /api/v1/threads/{id}, against what the   *)
(* agent remembers.                                                        *)
(***************************************************************************)
EXTENDS Conversation, FiniteSets

EventsOf(t) == {e \in rows : e.thread = t}

\* Mutant of Earlier: the keys of the sort are swapped.
EarlierBySequence(d, e) == d.seq < e.seq \/ (d.seq = e.seq /\ d.time < e.time)

\* sorted(key = (timestamp, sequence)); equal keys are in any order.  A sorted
\* list is the set of its events, which are in this order.
Earlier(d, e) == d.time < e.time \/ (d.time = e.time /\ d.seq < e.seq)

\* next(...): the first of the events, or none.
First(events) == {e \in events : \A d \in events : ~Earlier(d, e)}

\* turn_order: turn u is seen before turn v, by its first event.
SeenBefore(events, u, v) ==
    \E d \in events : d.turn = u /\ \A e \in events : e.turn = v => Earlier(d, e)

\* One entry of the history: the turn, its human message, its intermediate
\* events and its answer; a missing message is left out.
HistoryTurn(events, u) ==
    LET of(types) == {e \in events : e.turn = u /\ e.type \in types}
    IN  [turn   |-> u,
         human  |-> First(of({"human_message"})),
         events |-> of(EventTypes \ {"human_message", "ai_message"}),
         ai     |-> First(of({"ai_message"}))]

\* The turns of the history, of which SeenBefore is the order.
History(t) ==
    {HistoryTurn(EventsOf(t), u) : u \in {e.turn : e \in EventsOf(t)}}

\* Thread.messages: the messages among the sorted events.
ThreadMessages(t) == {e \in EventsOf(t) : e.type \in {"human_message", "ai_message"}}

-----------------------------------------------------------------------------
(* Properties *)

\* Where an event is shown in its turn.
Slot(e) == CASE e.type = "human_message" -> 1
             [] e.type = "ai_message"    -> 3
             [] OTHER                    -> 2

\* The history of t shows d before e: turn after turn, and in a turn the human
\* message, the events and the answer.
ShownBefore(t, d, e) ==
    IF d.turn = e.turn
    THEN Slot(d) < Slot(e) \/ (Slot(d) = Slot(e) /\ Earlier(d, e))
    ELSE SeenBefore(EventsOf(t), d.turn, e.turn)

\* What the history of t shows of the given types.
Shows(t, types) ==
    {e \in UNION {h.human \cup h.events \cup h.ai : h \in History(t)} : e.type \in types}

\* A message that calls tools which need no decision is in no row.
Unshown(m) == m.role = "step"

\* A row that is no message of the checkpoint of its thread.
OfSubagent(e) == e.type = "tool_result" /\ e.says = NoMessage

\* The messages that rows show are what the events say, in the order in which
\* t shows them: as many messages come before each as events before its event.
Lists(msgs, t, events) ==
    LET shown == {i \in DOMAIN msgs : ~Unshown(msgs[i])}
    IN  /\ Cardinality(shown) = Cardinality(events)
        /\ \A e \in events : \E i \in shown :
              /\ msgs[i] = e.says
              /\ Cardinality({j \in shown : j < i})
                   = Cardinality({d \in events : ShownBefore(t, d, e)})

\* No turn is at work on the thread.
Quiet(t) == \A u \in Turns : turn[u].thread = t => ~Active(u)

\* Turn u ended well, or left no trace and no memory.
Whole(u) ==
    \/ turn[u].pc = "done"
    \/ /\ RowsOf(turn[u].thread, u) = {}
       /\ \A i \in 1 .. Len(memory[turn[u].thread].msgs) :
              memory[turn[u].thread].msgs[i].turn # u

\* A live thread at rest, all of whose turns are whole.
Settled(t) ==
    /\ thread[t] = "live"
    /\ Quiet(t)
    /\ \A u \in Turns : turn[u].thread = t => Whole(u)

\* HistoryMatchesMemory: leaving out the results of tools of subagents, the
\* history shows, turn by turn, what people said, what tools returned and what
\* the agent answered as the agent remembers it, no more and no less and in its
\* order; of the agent's own messages those that call tools without a decision
\* are not shown.  The trace and the checkpoint are written apart, by different
\* code; this holds for clients that wait for their turn, and for turns that
\* end well.
HistoryMatchesMemory ==
    \A t \in Threads : Settled(t) =>
        Lists(memory[t].msgs, t,
              {e \in Shows(t, {"human_message", "tool_result", "ai_message"}) : ~OfSubagent(e)})

\* MessagesMatchHistory: the messages of the thread are those of its history and
\* in its order, turns that failed or were cut off included.
MessagesMatchHistory ==
    \A t \in Threads :
        /\ Shows(t, {"human_message", "ai_message"}) = ThreadMessages(t)
        /\ \A d, e \in ThreadMessages(t) : ShownBefore(t, d, e) <=> Earlier(d, e)

\* The events that no event comes after, and the turns whose answers, among
\* them, ask for decisions.
Newest(events) == {e \in events : \A d \in events : ~Earlier(e, d)}

Asking(events) == {e.says.turn : e \in {x \in Newest(events) : x.awaiting}}

\* AwaitingIsPending: the last event of the thread asks for a decision exactly
\* when the agent waits for one, on that answer: a client that follows the
\* status of the answers never submits decisions in vain and never misses one.
AwaitingIsPending ==
    \A t \in Threads :
        Settled(t) => Asking(EventsOf(t)) = {memory[t].pending} \ {None}

\* AnswerIsOwn: the answer that a turn stores is an answer of the agent, made in
\* that turn, although it is read back from the checkpoint when the run is over.
AnswerIsOwn ==
    \A e \in rows : e.type = "ai_message" =>
        e.says.role \in {"ai", "call"} /\ e.says.turn = e.turn

\* DecisionsApplied: a resume that ends well had its decisions applied to the
\* interrupt that they were made for.
DecisionsApplied ==
    \A u \in Turns : turn[u].kind = "resume" /\ turn[u].pc = "done" =>
        turn[u].applied = turn[u].target

-----------------------------------------------------------------------------
(* Claims of the repository that the code does not keep *)

\* SequenceMonotonicPerThread: README, "sequence: Monotonic sequence number
\* within the thread (ordering)" and "trace_events are sorted by sequence
\* (monotonic per thread)".  A later event has a greater sequence number.
SequenceMonotonicPerThread ==
    \A d, e \in rows : d.thread = e.thread /\ d.time < e.time => d.seq < e.seq

\* TraceTellsAll: README, "trace_events is the only persistence for
\* conversation activity".  What a human said to an agent that remembers it is
\* in the trace when no turn is at work.
TraceTellsAll ==
    \A t \in Threads : thread[t] = "live" /\ Quiet(t) =>
        \A i \in 1 .. Len(memory[t].msgs) :
            memory[t].msgs[i].role = "human" =>
                \E e \in rows : e.thread = t /\ e.says = memory[t].msgs[i]

=============================================================================
