---------------------------- MODULE Conversation ----------------------------
(***************************************************************************)
(* Turns of a conversation: what a message, or a decision on an interrupt, *)
(* does to the trace (rows of trace_events) and to the memory of the agent *)
(* (the LangGraph checkpoint of the thread), which are written apart.      *)
(*                                                                         *)
(* A turn is one request to a chat route.  The requests of one asyncio     *)
(* process interleave at awaits; nothing locks a thread.  turn[u].pc names *)
(* the call that the turn is about to make.                                *)
(*                                                                         *)
(* LangGraph and its PostgreSQL checkpointer are external: a run loads the *)
(* checkpoint when it starts, works on its own copy of the messages and    *)
(* writes that copy back after each step, whatever others wrote meanwhile. *)
(* The text of a message is left out; a message is known by its role and   *)
(* the turn that made it, and an interrupt by the turn that caused it.     *)
(***************************************************************************)
EXTENDS Naturals, Sequences

CONSTANTS
    Threads,    \* thread ids
    Turns,      \* turn ids; each request is one turn
    Kinds,      \* the kinds of requests that clients make
    Calls,      \* Calls[u]: the tool calls that the interrupt of turn u, if it
                \* has one, asks decisions for
    MaxChunks,  \* bound: intermediate events in a turn
    Overlap,    \* whether clients send to a thread that is busy
    Faults,     \* whether a call to PostgreSQL may fail
    Restarts,   \* whether the process may die
    None        \* no turn

\* POST /chat/{id} with a message or with decisions, POST /chat/{id}/stream,
\* and a text frame of the WebSocket.
Routes == {"send", "resume", "sse", "ws"}

ASSUME ConversationAssumption ==
    /\ Kinds \subseteq Routes
    /\ Calls \in [Turns -> Nat \ {0}]
    /\ MaxChunks \in Nat
    /\ Overlap \in BOOLEAN
    /\ Faults \in BOOLEAN
    /\ Restarts \in BOOLEAN
    /\ None \notin Turns
    /\ None \notin Threads

VARIABLES
    thread,  \* thread[t]: the row of threads: "none", "live" or "gone"
    rows,    \* the rows of trace_events
    memory,  \* memory[t]: the checkpoint: its messages and the turn whose
             \* interrupt is pending, or None
    turn,    \* turn[u]: where the request u is and its local variables
    clock    \* ticks when a turn begins; events of a turn may have equal times

vars == <<thread, rows, memory, turn, clock>>

Leading == {"human_message", "hitl_decision"}
Intermediate == {"content", "tool_result"}
EventTypes == Leading \cup Intermediate \cup {"ai_message"}

\* A "step" asks for tools that need no decision; a "call" is an answer that
\* asks for tools and was interrupted.
Message == [role : {"human", "ai", "step", "call", "tool"}, turn : Turns]
NoMessage == [role |-> "none", turn |-> None]

Event ==
    [thread : Threads, turn : Turns, seq : Nat, type : EventTypes, time : Nat,
     says : Message \cup {NoMessage}, awaiting : BOOLEAN]

Memory == [msgs : Seq(Message), pending : Turns \cup {None}]

StoreSteps == {"check", "insert"}
RunSteps == {"load", "run", "values", "status"}
Steps == {"route", "get", "runner", "prepare", "decide", "deliver"} \cup StoreSteps \cup RunSteps
Ends == {"done", "failed", "cut"}

Turn ==
    [ pc      : {"new"} \cup Steps \cup Ends,
      kind    : Routes \cup {"none"},
      thread  : Threads \cup {None},
      seq     : Nat,                      \* the next sequence number
      buf     : Seq(Event),               \* events made and not handed on
      seen    : Nat,                      \* events the client has received
      local   : Seq(Message),             \* the messages of the graph run
      answer  : Message \cup {NoMessage}, \* the last message, as read back
      target  : Turns \cup {None},        \* the interrupt the client decides
      applied : Turns \cup {None} ]       \* the interrupt that the graph took
                                          \* the decisions for

New ==
    [pc |-> "new", kind |-> "none", thread |-> None, seq |-> 0, buf |-> <<>>,
     seen |-> 0, local |-> <<>>, answer |-> NoMessage, target |-> None,
     applied |-> None]

TypeOK ==
    /\ thread \in [Threads -> {"none", "live", "gone"}]
    /\ rows \subseteq Event
    /\ memory \in [Threads -> Memory]
    /\ turn \in [Turns -> Turn]
    /\ clock \in Nat

Init ==
    /\ thread = [t \in Threads |-> "none"]
    /\ rows = {}
    /\ memory = [t \in Threads |-> [msgs |-> <<>>, pending |-> None]]
    /\ turn = [u \in Turns |-> New]
    /\ clock = 0

-----------------------------------------------------------------------------
(* Threads *)

CreateThread(t) ==
    /\ thread[t] = "none"
    /\ thread' = [thread EXCEPT ![t] = "live"]
    /\ UNCHANGED <<rows, memory, turn, clock>>

\* Mutant of DeleteThread: only the row of the thread is deleted.
DeleteThreadOnly(t) ==
    /\ thread[t] = "live"
    /\ thread' = [thread EXCEPT ![t] = "gone"]
    /\ UNCHANGED <<rows, memory, turn, clock>>

\* The row and, by the cascade, the rows of its events, in one transaction.
\* The checkpoint is not deleted.
DeleteThread(t) ==
    /\ thread[t] = "live"
    /\ thread' = [thread EXCEPT ![t] = "gone"]
    /\ rows' = {e \in rows : e.thread # t}
    /\ UNCHANGED <<memory, turn, clock>>

-----------------------------------------------------------------------------
(* Control flow of a turn *)

Active(u) == turn[u].pc \in Steps

Goto(u, step) == turn' = [turn EXCEPT ![u].pc = step]

End(u, how) ==
    turn' = [turn EXCEPT ![u] = [@ EXCEPT !.pc = how, !.buf = <<>>, !.local = <<>>,
                                          !.answer = NoMessage]]

Streamed(u) == turn[u].kind \in {"sse", "ws"}

LastMessage(msgs) == IF msgs = <<>> THEN NoMessage ELSE msgs[Len(msgs)]

\* The leading events of a turn: its message, or one decision for each of the
\* interrupted tool calls.
Leads(r) == IF r.kind = "resume" THEN Calls[r.target] ELSE 1

\* What follows when event number i has been handed to the use case, or to the
\* client.
AfterEvent(r, i, type) ==
    CASE type \in Leading      -> IF i + 1 < Leads(r) THEN "decide" ELSE "load"
      [] type \in Intermediate -> "run"
      [] type = "ai_message"   -> "done"

\* Mutants of Emit: the leading event is not numbered 0; no event is.
EmitFromMinusOne(u, r, type, says, awaiting) ==
    LET e == [thread |-> r.thread, turn |-> u, seq |-> r.seq - 1, type |-> type,
              time |-> clock, says |-> says, awaiting |-> awaiting]
    IN  turn' = [turn EXCEPT ![u] =
                   [r EXCEPT !.buf = Append(@, e), !.seq = @ + 1,
                             !.pc = IF Streamed(u) \/ type = "ai_message"
                                    THEN "check" ELSE AfterEvent(r, r.seq, type)]]

EmitUncounted(u, r, type, says, awaiting) ==
    LET e == [thread |-> r.thread, turn |-> u, seq |-> 0, type |-> type,
              time |-> clock, says |-> says, awaiting |-> awaiting]
    IN  turn' = [turn EXCEPT ![u] =
                   [r EXCEPT !.buf = Append(@, e), !.seq = @ + 1,
                             !.pc = IF Streamed(u) \/ type = "ai_message"
                                    THEN "check" ELSE AfterEvent(r, r.seq, type)]]

\* _make_trace_event and the yield of _collect_trace: invoke and resume_hitl
\* collect the events of the turn, a stream stores each one before it goes on.
Emit(u, r, type, says, awaiting) ==
    LET e == [thread |-> r.thread, turn |-> u, seq |-> r.seq, type |-> type,
              time |-> clock, says |-> says, awaiting |-> awaiting]
    IN  turn' = [turn EXCEPT ![u] =
                   [r EXCEPT !.buf = Append(@, e),
                             !.seq = @ + 1,
                             !.pc = IF Streamed(u) \/ type = "ai_message"
                                    THEN "check" ELSE AfterEvent(r, r.seq, type)]]

-----------------------------------------------------------------------------
(* From the route to the runner *)

\* The interrupts that a client knows of: the answers it was told to decide on.
Decidable(t) ==
    {e.says.turn : e \in {x \in rows : x.thread = t /\ x.awaiting /\ x.says.role = "call"}}

\* turn_id is a fresh uuid4: any turn that has not been used will do.
FreshTurn == CHOOSE u \in Turns : turn[u].pc = "new"

Start(u, t) ==
    /\ turn[u].pc = "new"
    /\ u = FreshTurn
    /\ thread[t] = "live"
    /\ Overlap \/ \A v \in Turns : Active(v) => turn[v].thread # t
    /\ \E k \in Kinds, target \in Decidable(t) \cup {None} :
         /\ (k = "resume") <=> (target # None)
         /\ turn' = [turn EXCEPT ![u] = [New EXCEPT !.kind = k, !.thread = t,
                                                    !.target = target,
                                                    !.pc = IF k = "sse"
                                                           THEN "route" ELSE "get"]]
    /\ clock' = clock + 1
    /\ UNCHANGED <<thread, rows, memory>>

\* The stream route looks for the thread before it answers, and every use case
\* does so first.
GetThread(u) ==
    /\ turn[u].pc \in {"route", "get"}
    /\ IF thread[turn[u].thread] = "live"
       THEN Goto(u, IF turn[u].pc = "route" THEN "get" ELSE "runner")
       ELSE End(u, "failed")
    /\ UNCHANGED <<thread, rows, memory, clock>>

\* get_runner.  A message makes the leading event of its turn at once.
GetRunner(u) ==
    /\ turn[u].pc = "runner"
    /\ IF turn[u].kind = "resume"
       THEN Goto(u, "prepare")
       ELSE Emit(u, turn[u], "human_message", [role |-> "human", turn |-> u], FALSE)
    /\ UNCHANGED <<thread, rows, memory, clock>>

\* The agent of the thread has been deleted or does not build.
RunnerMissing(u) ==
    /\ turn[u].pc = "runner"
    /\ End(u, "failed")
    /\ UNCHANGED <<thread, rows, memory, clock>>

\* Mutant of PrepareResume: the tool_call_ids of the decisions are not checked.
PrepareResumeUnchecked(u) ==
    /\ turn[u].pc = "prepare"
    /\ Goto(u, "decide")
    /\ UNCHANGED <<thread, rows, memory, clock>>

\* _prepare_resume_input: the decisions are for the tool calls of the pending
\* interrupt, one for each, or the turn is refused.
PrepareResume(u) ==
    /\ turn[u].pc = "prepare"
    /\ IF memory[turn[u].thread].pending = turn[u].target
       THEN Goto(u, "decide")
       ELSE End(u, "failed")
    /\ UNCHANGED <<thread, rows, memory, clock>>

\* Each decision is a leading event of its own.
Decide(u) ==
    /\ turn[u].pc = "decide"
    /\ Emit(u, turn[u], "hitl_decision", [role |-> "call", turn |-> turn[u].target], FALSE)
    /\ UNCHANGED <<thread, rows, memory, clock>>

-----------------------------------------------------------------------------
(* The graph run *)

\* A new message is written over whatever was pending.  A resume continues the
\* interrupt that is pending now; when there is none left nothing runs.
LoadCheckpoint(u) ==
    LET t == turn[u].thread
        m == memory[t]
        asked == Append(m.msgs, [role |-> "human", turn |-> u])
    IN  /\ turn[u].pc = "load"
        /\ IF turn[u].kind # "resume"
           THEN /\ memory' = [memory EXCEPT ![t] = [msgs |-> asked, pending |-> None]]
                /\ turn' = [turn EXCEPT ![u].pc = "run", ![u].local = asked]
           ELSE /\ turn' = [turn EXCEPT ![u].pc = IF m.pending = None THEN "values" ELSE "run",
                                        ![u].local = m.msgs,
                                        ![u].applied = m.pending]
                /\ UNCHANGED memory
        /\ UNCHANGED <<thread, rows, clock>>

MayGoOn(u) == turn[u].pc = "run" /\ turn[u].seq < Leads(turn[u]) + MaxChunks

\* The model is at work on a message or on the results of its tools; tools are
\* at work on the calls of a step, or on those that were decided.
Thinking(u) == LastMessage(turn[u].local).role \in {"human", "tool"}

Tooling(u) == LastMessage(turn[u].local).role \in {"step", "call", "tool"}

\* A chunk of text, of thought or of a tool call, of the agent or a subagent.
ContentChunk(u) ==
    /\ MayGoOn(u)
    /\ Emit(u, turn[u], "content", NoMessage, FALSE)
    /\ UNCHANGED <<thread, rows, memory, clock>>

\* The model calls tools that need no decision: its message is in the
\* checkpoint of that step and is the answer of no turn.
CallTools(u) ==
    LET msgs == Append(turn[u].local, [role |-> "step", turn |-> u])
    IN  /\ turn[u].pc = "run" /\ Thinking(u)
        /\ turn' = [turn EXCEPT ![u].local = msgs]
        /\ memory' = [memory EXCEPT ![turn[u].thread] = [msgs |-> msgs, pending |-> None]]
        /\ UNCHANGED <<thread, rows, clock>>

\* Mutant of ToolResult: _classify does not recognise the message of a tool.
ToolResultAsContent(u) ==
    LET msgs == Append(turn[u].local, [role |-> "tool", turn |-> u])
    IN  /\ MayGoOn(u) /\ Tooling(u)
        /\ Emit(u, [turn[u] EXCEPT !.local = msgs], "content", NoMessage, FALSE)
        /\ memory' = [memory EXCEPT ![turn[u].thread] = [msgs |-> msgs, pending |-> None]]
        /\ UNCHANGED <<thread, rows, clock>>

\* The result of a tool, and the checkpoint of that step.
ToolResult(u) ==
    LET said == [role |-> "tool", turn |-> u]
        msgs == Append(turn[u].local, said)
    IN  /\ MayGoOn(u) /\ Tooling(u)
        /\ Emit(u, [turn[u] EXCEPT !.local = msgs], "tool_result", said, FALSE)
        /\ memory' = [memory EXCEPT ![turn[u].thread] = [msgs |-> msgs, pending |-> None]]
        /\ UNCHANGED <<thread, rows, clock>>

\* The result of a tool of a subagent, which runs as a tool: it is streamed
\* with the others and is no message of this checkpoint.
SubagentResult(u) ==
    /\ MayGoOn(u) /\ Tooling(u)
    /\ Emit(u, turn[u], "tool_result", NoMessage, FALSE)
    /\ UNCHANGED <<thread, rows, memory, clock>>

\* The model has answered; the answer may call tools that need a decision.
Answer(u) ==
    /\ turn[u].pc = "run" /\ Thinking(u)
    /\ \E role \in {"ai", "call"} :
         memory' = [memory EXCEPT ![turn[u].thread] =
                      [msgs |-> Append(turn[u].local, [role |-> role, turn |-> u]),
                       pending |-> IF role = "call" THEN u ELSE None]]
    /\ Goto(u, "values")
    /\ UNCHANGED <<thread, rows, clock>>

GraphRaises(u) ==
    /\ turn[u].pc = "run"
    /\ End(u, "failed")
    /\ UNCHANGED <<thread, rows, memory, clock>>

\* Mutants of IdleTimeout: no limit on the wait for the next chunk; the
\* timeout ends the loop over the chunks and nothing else.
NoIdleTimeout(u) ==
    /\ FALSE
    /\ UNCHANGED vars

IdleTimeoutSwallowed(u) ==
    /\ turn[u].pc = "run"
    /\ Goto(u, "values")
    /\ UNCHANGED <<thread, rows, memory, clock>>

\* No chunk within stream_idle_timeout.
IdleTimeout(u) ==
    /\ turn[u].pc = "run"
    /\ End(u, "failed")
    /\ UNCHANGED <<thread, rows, memory, clock>>

\* The first read of the state, for the messages.
ReadValues(u) ==
    /\ turn[u].pc = "values"
    /\ turn' = [turn EXCEPT ![u].pc = "status",
                            ![u].answer = LastMessage(memory[turn[u].thread].msgs)]
    /\ UNCHANGED <<thread, rows, memory, clock>>

\* Mutant of Awaiting: a resume has no status rule of its own.
AwaitingIgnored(u) == turn[u].kind # "resume" /\ memory[turn[u].thread].pending # None

\* _resolve_status: after a resume, only tool calls not just decided count.
Awaiting(u) ==
    /\ memory[turn[u].thread].pending # None
    /\ turn[u].kind = "resume" =>
         turn[u].answer.role = "call" /\ turn[u].answer.turn # turn[u].target

\* The second read of the state, for the interrupts, and the final event.
ReadStatus(u) ==
    /\ turn[u].pc = "status"
    /\ Emit(u, turn[u], "ai_message", turn[u].answer, Awaiting(u))
    /\ UNCHANGED <<thread, rows, memory, clock>>

-----------------------------------------------------------------------------
(* Storing the trace: add for each event of a stream, add_batch for a turn *)

\* _assert_thread_exists
CheckThread(u) ==
    /\ turn[u].pc = "check"
    /\ IF thread[turn[u].thread] = "live" THEN Goto(u, "insert") ELSE End(u, "failed")
    /\ UNCHANGED <<thread, rows, memory, clock>>

\* Mutant of CanInsert: no foreign key.
CanInsertAnyway(u) == TRUE

\* The foreign key of the rows, which the commit checks.
CanInsert(u) == thread[turn[u].thread] = "live"

Stored(u) == rows \cup {turn[u].buf[i] : i \in 1 .. Len(turn[u].buf)}

Insert(u) ==
    /\ turn[u].pc = "insert"
    /\ IF CanInsert(u)
       THEN /\ rows' = Stored(u)
            /\ Goto(u, "deliver")
       ELSE /\ End(u, "failed")
            /\ UNCHANGED rows
    /\ UNCHANGED <<thread, memory, clock>>

\* The client receives the message of a send or a resume, or the next event.
Deliver(u) ==
    LET last == turn[u].buf[Len(turn[u].buf)]
    IN  /\ turn[u].pc = "deliver"
        /\ turn' = [turn EXCEPT ![u] =
                      [turn[u] EXCEPT !.pc = AfterEvent(turn[u], last.seq, last.type),
                                      !.seen = turn[u].seq,
                                      !.buf = <<>>,
                                      !.local = IF last.type = "ai_message" THEN <<>> ELSE @,
                                      !.answer = NoMessage]]
        /\ UNCHANGED <<thread, rows, memory, clock>>

-----------------------------------------------------------------------------
(* Failures *)

\* The client of a stream goes away: its generator is cancelled at an await.
\* A WebSocket is found closed when a frame is sent.
Disconnect(u) ==
    /\ \/ turn[u].kind = "sse" /\ Active(u)
       \/ turn[u].kind = "ws" /\ turn[u].pc = "deliver"
    /\ End(u, "cut")
    /\ UNCHANGED <<thread, rows, memory, clock>>

\* Mutant of CallRaises: a stream logs that an event was not stored and goes on.
CallRaisesLogged(u) ==
    /\ Faults
    /\ turn[u].pc \in StoreSteps
    /\ Goto(u, "deliver")
    /\ UNCHANGED <<thread, rows, memory, clock>>

\* A query, or an access of the checkpointer, raises before it has an effect.
CallRaises(u) ==
    /\ Faults
    /\ turn[u].pc \in {"route", "get", "prepare", "load", "values", "status"} \cup StoreSteps
    /\ End(u, "failed")
    /\ UNCHANGED <<thread, rows, memory, clock>>

\* A commit has its effect and its acknowledgement is lost.
AckLost(u) ==
    /\ Faults
    /\ turn[u].pc = "insert"
    /\ CanInsert(u)
    /\ rows' = Stored(u)
    /\ End(u, "failed")
    /\ UNCHANGED <<thread, memory, clock>>

\* The process dies: PostgreSQL keeps the rows and the checkpoints.
Restart ==
    /\ Restarts
    /\ turn' = [u \in Turns |->
                  IF Active(u)
                  THEN [turn[u] EXCEPT !.pc = "cut", !.buf = <<>>, !.local = <<>>,
                                       !.answer = NoMessage]
                  ELSE turn[u]]
    /\ UNCHANGED <<thread, rows, memory, clock>>

-----------------------------------------------------------------------------

\* A step of the server that does not depend on the client or on the graph.
ServerStep(u) ==
    \/ GetThread(u) \/ GetRunner(u) \/ RunnerMissing(u) \/ PrepareResume(u) \/ Decide(u)
    \/ LoadCheckpoint(u) \/ IdleTimeout(u) \/ ReadValues(u) \/ ReadStatus(u)
    \/ CheckThread(u) \/ Insert(u) \/ CallRaises(u) \/ AckLost(u)

GraphStep(u) ==
    \/ ContentChunk(u) \/ CallTools(u) \/ ToolResult(u) \/ SubagentResult(u)
    \/ Answer(u) \/ GraphRaises(u)

Next ==
    \/ \E t \in Threads : CreateThread(t) \/ DeleteThread(t)
    \/ \E u \in Turns, t \in Threads : Start(u, t)
    \/ \E u \in Turns :
         ServerStep(u) \/ GraphStep(u) \/ Deliver(u) \/ Disconnect(u)
    \/ Restart

Spec == Init /\ [][Next]_vars

\* Every call to PostgreSQL returns or raises and the wait for the graph has
\* a limit; a client reads what it is sent or goes away.
Fairness ==
    \A u \in Turns : WF_vars(ServerStep(u)) /\ WF_vars(Deliver(u))

FairSpec == Spec /\ Fairness

-----------------------------------------------------------------------------
(* Properties *)

\* The rows of turn u in thread t.
RowsOf(t, u) == {e \in rows : e.thread = t /\ e.turn = u}

\* SeenIsStored: whatever a client has received of a turn is in the trace as
\* long as the thread is: an event of a stream once it was sent, the whole turn
\* once the message of a send or a resume was returned.  Failed calls, crashes
\* and clients that go away do not change that.
SeenIsStored ==
    \A u \in Turns : turn[u].pc # "new" /\ thread[turn[u].thread] = "live" =>
        \A i \in 0 .. turn[u].seen - 1 : \E e \in RowsOf(turn[u].thread, u) : e.seq = i

\* NoEventOutlivesThread: the events of a thread are gone with it, and the
\* turns that were under way when it was deleted add no new ones.
NoEventOutlivesThread == \A e \in rows : thread[e.thread] = "live"

\* What a reader of the trace may rely on, stated by ThreadLog: the rows of a
\* turn are numbered without gaps, the message or the decisions first and the
\* answer last, they are in one thread, and rows are only ever added to a turn.
Log == [t \in Threads |-> [u \in Turns |-> {<<e.seq, e.type>> : e \in RowsOf(t, u)}]]

Trace == INSTANCE ThreadLog WITH status <- thread, log <- Log

LogIsKept == Trace!Spec

\* TurnsEnd: every turn ends, though a graph may hang: by its last event, an
\* error or the disconnection of its client.
TurnsEnd == \A u \in Turns : Active(u) ~> turn[u].pc \in Ends

-----------------------------------------------------------------------------
(* What these properties rest on: the record r of turn u, the set s of its    *)
(* rows, and whether its thread is live.                                      *)

TurnRows(u) == {e \in rows : e.turn = u}

\* The number of events of r that have left the buffer.
Handed(r) == r.seq - Len(r.buf)

Early == {"new", "route", "get", "runner", "prepare"}
Late == StoreSteps \cup {"deliver"} \cup Ends

\* What is true of every event of the turn, in the buffer or stored.
EventOK(e, u, r) ==
    /\ e.turn = u
    /\ e.thread = r.thread
    /\ e.seq < r.seq
    /\ e.type \in Leading <=> e.seq < Leads(r)
    /\ e.type \in Leading => e.type = IF r.kind = "resume" THEN "hitl_decision" ELSE "human_message"
    /\ e.type = "ai_message" => e.seq + 1 = r.seq /\ r.pc \in Late

StepOK(r) ==
    /\ r.pc \in Early => r.seq = 0
    /\ r.pc = "decide" => r.seq < Leads(r)
    /\ r.pc \in RunSteps \cup StoreSteps \cup {"deliver"} => Leads(r) <= r.seq
    /\ r.pc \in StoreSteps \cup {"deliver"} => r.buf # <<>>
    /\ r.pc # "new" => r.thread \in Threads
    /\ r.pc \in {"prepare", "decide"} => r.kind = "resume"
    /\ r.kind = "resume" => r.target \in Turns

\* The buffer holds the events that follow those handed on.
BufferOK(r, u) ==
    /\ Len(r.buf) <= r.seq
    /\ \A i \in 1 .. Len(r.buf) :
         EventOK(r.buf[i], u, r) /\ r.buf[i].seq + 1 = Handed(r) + i

HasRow(s, i) == \E e \in s : e.seq = i

\* The rows are numbered without gaps and hold what the client has seen; while
\* the turn goes on they are the events that it has handed on.
RowsOK(r, u, s, live) ==
    /\ \A e \in s :
         /\ EventOK(e, u, r)
         /\ r.pc # "deliver" => e.seq < Handed(r)
         /\ \A d \in s : d.seq = e.seq => d = e
         /\ \A i \in 0 .. e.seq : HasRow(s, i)
    /\ r.pc \in Steps /\ live => \A i \in 0 .. Handed(r) - 1 : HasRow(s, i)
    /\ r.pc = "deliver" /\ live => \A i \in 1 .. Len(r.buf) : r.buf[i] \in s
    /\ r.pc # "new" /\ live => \A i \in 0 .. r.seen - 1 : HasRow(s, i)

TurnOK(r, u, s, live) == StepOK(r) /\ BufferOK(r, u) /\ RowsOK(r, u, s, live)

Live(r) == thread[r.thread] = "live"

\* Inv is inductive: NoEventOutlivesThread with what the trace rests on.
Inv ==
    /\ TypeOK
    /\ NoEventOutlivesThread
    /\ \A u \in Turns :
         /\ turn[u].pc # "new" => thread[turn[u].thread] # "none"
         /\ TurnOK(turn[u], u, TurnRows(u), turn[u].pc # "new" /\ Live(turn[u]))

=============================================================================
