---------------------------- MODULE HitlPairing ----------------------------
(***************************************************************************)
(* The resume of an interrupted turn: the decisions of a client, given by  *)
(* tool call id, become the positional list the HITL middleware of         *)
(* langchain goes through, and the leading events of the trace.            *)
(*                                                                         *)
(* A tool call is an id and a tool name, a message the sequence of its     *)
(* tool calls, a decision a tool call id and an action.                    *)
(***************************************************************************)
EXTENDS Naturals, Sequences, SequencesExt

\* _last_ai_message: the last message with tool calls, or none.
LastCalls(messages) ==
    LET having == {i \in DOMAIN messages : messages[i] # <<>>}
    IN  IF having = {} THEN <<>> ELSE messages[Max(having)]

\* The middleware asks about every call of a tool the configuration names:
\* requested[n] is what it asks about among the first n.
ActionRequests(calls, interruptOn) ==
    LET requested[n \in 0 .. Len(calls)] ==
            IF n = 0 THEN <<>>
            ELSE IF calls[n].name \in interruptOn THEN Append(requested[n - 1], calls[n])
            ELSE requested[n - 1]
    IN  requested[Len(calls)]

FirstOfTheName(calls, requests) ==
    [i \in DOMAIN requests |->
        calls[Min({j \in DOMAIN calls : calls[j].name = requests[i].name})].id]

\* _pair_action_requests goes through the calls once, matching by name:
\* paired[n] is what it has found among the first n.
Pairs(calls, requests) ==
    LET paired[n \in 0 .. Len(calls)] ==
            IF n = 0 THEN <<>>
            ELSE IF /\ Len(paired[n - 1]) < Len(requests)
                    /\ calls[n].name = requests[Len(paired[n - 1]) + 1].name
              THEN Append(paired[n - 1], calls[n].id)
              ELSE paired[n - 1]
    IN  paired[Len(calls)]

\* by_id keeps the last decision about a call.
LastDecision(decisions, id) ==
    decisions[Max({i \in DOMAIN decisions : decisions[i].id = id})].action

Decided(decisions) == {decisions[i].id : i \in DOMAIN decisions}

Refused(why) == [error |-> why, resume |-> <<>>, trace |-> <<>>]

\* _build_resume_decisions and the events the resumed turn begins with.
ResumeDecisions(pairs, decisions) ==
    IF ~(Decided(decisions) \subseteq Range(pairs)) THEN Refused("unknown_tool_call")
    ELSE IF Cardinality(Decided(decisions)) < Len(pairs) THEN Refused("missing_decision")
    ELSE [error  |-> "none",
          resume |-> [i \in DOMAIN pairs |-> LastDecision(decisions, pairs[i])],
          trace  |-> [i \in DOMAIN pairs |-> <<pairs[i], LastDecision(decisions, pairs[i])>>]]

\* _prepare_resume_input, for the interrupt payload langchain makes.
ResumeInput(turn) ==
    LET calls == LastCalls(turn.messages)
        requests == ActionRequests(calls, turn.interruptOn)
        pairs == Pairs(calls, requests)
    IN  IF requests = <<>> THEN Refused("no_pending_interrupt")
        ELSE IF Len(pairs) # Len(requests) THEN Refused("positional_mismatch")
        ELSE ResumeDecisions(pairs, turn.decisions)

\* The middleware replaces the interrupted calls, in order, by the decisions.
Applied(turn, resume) ==
    LET asked == ActionRequests(LastCalls(turn.messages), turn.interruptOn)
    IN  {<<asked[i].id, resume[i]>> : i \in DOMAIN resume}

-----------------------------------------------------------------------------

\* Every call the human was asked about gets the decision the client last gave
\* for its id, and only such calls do, even when one tool is called several
\* times; the trace says the same.  A resume is refused only when a call has
\* no decision or a decision no call (deepagent/adapter.py:584-741).
DecisionsReachCalls(turn, out) ==
    LET calls == LastCalls(turn.messages)
        asked == {calls[i].id : i \in {j \in DOMAIN calls : calls[j].name \in turn.interruptOn}}
        given == turn.decisions
        last == {i \in DOMAIN given : \A j \in DOMAIN given : j > i => given[j].id # given[i].id}
        wanted == {<<given[i].id, given[i].action>> : i \in last}
    IN  IF asked # {} /\ Decided(turn.decisions) = asked
          THEN /\ out.error = "none"
               /\ Applied(turn, out.resume) = wanted
               /\ Range(out.trace) = wanted
          ELSE out.error # "none"

=============================================================================
