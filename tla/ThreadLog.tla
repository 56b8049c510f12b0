------------------------------ MODULE ThreadLog ------------------------------
(***************************************************************************)
(* What the trace of a thread promises to whoever reads it, whichever      *)
(* requests, streams, failures and deletions produced it.                  *)
(*                                                                         *)
(* The log of a turn is a set of numbered entries.  It starts with one     *)
(* message, or with one or more decisions, and has no others later; it has *)
(* no gaps, and nothing follows the answer.                                *)
(***************************************************************************)
EXTENDS Naturals

CONSTANTS Threads, Turns

VARIABLES
    status,  \* status[t]: "none", "live" or "gone"
    log      \* log[t][u]: the <<number, type>> pairs of turn u in thread t

vars == <<status, log>>

Leading == {"human_message", "hitl_decision"}

Numbered(s) == \A x \in s, y \in s : x[1] = y[1] => x = y

NoGaps(s) == \A x \in s : \A i \in 0 .. x[1] : \E y \in s : y[1] = i

\* Only decisions come before or after another leading entry.
Opened(s) ==
    /\ \A x \in s : x[1] = 0 => x[2] \in Leading
    /\ \A x \in s, y \in s :
         x[2] \in Leading /\ y[1] < x[1] => x[2] = "hitl_decision" /\ y[2] = "hitl_decision"

WellFormed(s) ==
    /\ Numbered(s)
    /\ NoGaps(s)
    /\ Opened(s)
    /\ \A x \in s, y \in s : x[2] = "ai_message" => y[1] <= x[1]

Init ==
    /\ status = [t \in Threads |-> "none"]
    /\ log = [t \in Threads |-> [u \in Turns |-> {}]]

Open(t) ==
    /\ status[t] = "none"
    /\ status' = [status EXCEPT ![t] = "live"]
    /\ UNCHANGED log

\* One or several entries are added to one turn of a thread that exists.
Record(t, u) ==
    /\ status[t] = "live"
    /\ \A x \in Threads \ {t} : log[x][u] = {}
    /\ log[t][u] \subseteq log'[t][u]
    /\ WellFormed(log'[t][u])
    /\ log' = [log EXCEPT ![t][u] = log'[t][u]]
    /\ UNCHANGED status

\* The thread and its whole log go together, for good.
Erase(t) ==
    /\ status[t] = "live"
    /\ status' = [status EXCEPT ![t] = "gone"]
    /\ log' = [log EXCEPT ![t] = [u \in Turns |-> {}]]

Next ==
    \E t \in Threads : Open(t) \/ Erase(t) \/ \E u \in Turns : Record(t, u)

Spec == Init /\ [][Next]_vars

=============================================================================
