------------------------- MODULE LlmSettingsProofs -------------------------
(***************************************************************************)
(* Proofs about LlmSettings for any users, requests and restarts.          *)
(***************************************************************************)
EXTENDS LlmSettings, TLAPS

Row == [url : Urls, secret : Secrets, enc : Nat, raced : BOOLEAN]

Requests ==
    [op : {"none", "insert", "update", "delete"}, user : Owners \cup {NoSettings},
     input : Inputs \cup {NoSettings}, read : Row \cup {NoSettings}]

\* URL and key of a row whose last writer found the URL it had read.
Together(row) == ~row.raced => <<row.url, row.secret>> \in Inputs

\* With a configured key every token is made with it.
Readable(row) == configured => row.enc = 0

GoodRow(row) == row \in Row /\ Together(row) /\ Readable(row)

\* A request that writes has its input, and an update the row it read.
RequestOK(w) ==
    /\ put[w].op \in {"insert", "update"} => put[w].input \in Inputs
    /\ put[w].op = "update" => put[w].read \in Row

LlmInv ==
    /\ configured \in BOOLEAN
    /\ boot \in Nat
    /\ settings \in [Owners -> Row \cup {NoSettings}]
    /\ \A u \in Owners : settings[u] # NoSettings => GoodRow(settings[u])
    /\ put \in [Writers -> Requests]
    /\ \A w \in Writers : RequestOK(w)
    /\ configured => resolved # "error"

-----------------------------------------------------------------------------

LEMMA FernetKeyOK ==
    ASSUME LlmInv
    PROVE  FernetKey \in Nat /\ (configured => FernetKey = 0)
BY DEF LlmInv, FernetKey

\* What an insert and an update leave behind.
LEMMA InsertedOK ==
    ASSUME LlmInv, NEW i \in Inputs
    PROVE  GoodRow([url |-> i[1], secret |-> i[2], enc |-> FernetKey, raced |-> FALSE])
<1>1. i = <<i[1], i[2]>> /\ i[1] \in Urls /\ i[2] \in Secrets
  BY LlmAssumption
<1> QED
  BY <1>1, FernetKeyOK DEF GoodRow, Row, Together, Readable

LEMMA UpdatedOK ==
    ASSUME LlmInv, NEW i \in Inputs, NEW row \in Row, NEW read \in Row
    PROVE  GoodRow(Updated(row, read, i))
<1>1. i = <<i[1], i[2]>> /\ i[1] \in Urls /\ i[2] \in Secrets
  BY LlmAssumption
<1> DEFINE url == IF i[1] # read.url THEN i[1] ELSE row.url
           raced == row.url # read.url
<1>2. url \in Urls /\ raced \in BOOLEAN /\ (~raced => url = i[1])
  BY <1>1 DEF Row
<1>3. Updated(row, read, i) = [url |-> url, secret |-> i[2], enc |-> FernetKey, raced |-> raced]
  BY DEF Updated
<1> HIDE DEF url, raced
<1> QED
  BY <1>1, <1>2, <1>3, FernetKeyOK DEF GoodRow, Row, Together, Readable

\* A request that is answered forgets what it read.
LEMMA AnswerOK ==
    ASSUME LlmInv, NEW w \in Writers, Answer(w)
    PROVE  /\ put' \in [Writers -> Requests]
           /\ \A v \in Writers : RequestOK(v)'
<1>1. NoPut \in Requests /\ NoPut.op = "none"
  BY DEF NoPut, Requests
<1> QED
  BY <1>1 DEF Answer, LlmInv, RequestOK, Requests

LEMMA LlmInvInit == LlmInit => LlmInv
<1> SUFFICES ASSUME LlmInit PROVE LlmInv
  OBVIOUS
<1>1. NoPut \in Requests /\ NoPut.op = "none"
  BY DEF NoPut, Requests
<1>2. configured \in BOOLEAN
  BY LlmAssumption DEF LlmInit
<1> QED
  BY <1>1, <1>2 DEF LlmInit, LlmInv, RequestOK

LEMMA LlmInvStep == LlmInv /\ [LlmNext]_llmVars => LlmInv'
<1> SUFFICES ASSUME LlmInv, [LlmNext]_llmVars PROVE LlmInv'
  OBVIOUS
<1>0. NoSettings \notin Row
  BY LlmAssumption DEF Row
<1>1. CASE UNCHANGED llmVars
  BY <1>1 DEF llmVars, LlmInv, GoodRow, Readable, RequestOK
<1>2. CASE Reboot
  <2>1. NoPut \in Requests /\ NoPut.op = "none"
    BY DEF NoPut, Requests
  <2>2. MaxBoots \in Nat
    BY LlmAssumption
  <2> QED
    BY <1>2, <2>1, <2>2 DEF Reboot, LlmInv, GoodRow, Readable, RequestOK
<1>3. ASSUME NEW u \in Owners, Resolve(u) PROVE LlmInv'
  <2>1. configured => resolved' # "error"
    BY <1>3, FernetKeyOK DEF Resolve, LlmInv, GoodRow, Readable
  <2> QED
    BY <1>3, <2>1 DEF Resolve, LlmInv, GoodRow, Readable, RequestOK
<1>4. ASSUME NEW w \in Writers, ReadForUpsert(w) PROVE LlmInv'
  <2>1. PICK u \in Owners, i \in Inputs :
          put' = [put EXCEPT ![w] =
                    [op |-> IF settings[u] = NoSettings THEN "insert" ELSE "update",
                     user |-> u, input |-> i, read |-> settings[u]]]
    BY <1>4 DEF ReadForUpsert
  <2>2. put'[w] \in Requests /\ put'[w].input = i /\ put'[w].read = settings[u]
        /\ (put'[w].op = "update" => settings[u] # NoSettings)
    BY <2>1 DEF LlmInv, Requests
  <2>3. \A v \in Writers : RequestOK(v)'
    BY <2>1, <2>2 DEF RequestOK, LlmInv
  <2>4. put' \in [Writers -> Requests]
    BY <2>1, <2>2 DEF LlmInv
  <2> QED
    BY <1>4, <2>3, <2>4 DEF ReadForUpsert, LlmInv, GoodRow, Readable
<1>5. ASSUME NEW w \in Writers, ReadForDelete(w) PROVE LlmInv'
  <2>1. PICK u \in Owners : put' = [put EXCEPT ![w] = [NoPut EXCEPT !.op = "delete", !.user = u]]
    BY <1>5 DEF ReadForDelete
  <2>2. put'[w] \in Requests /\ put'[w].op = "delete"
    BY <2>1 DEF LlmInv, Requests, NoPut
  <2>3. \A v \in Writers : RequestOK(v)'
    BY <2>1, <2>2 DEF RequestOK, LlmInv
  <2>4. put' \in [Writers -> Requests]
    BY <2>1, <2>2 DEF LlmInv
  <2> QED
    BY <1>5, <2>3, <2>4 DEF ReadForDelete, LlmInv, GoodRow, Readable
<1>6. ASSUME NEW w \in Writers, CommitInsert(w) PROVE LlmInv'
  <2> DEFINE row == [url |-> put[w].input[1], secret |-> put[w].input[2],
                     enc |-> FernetKey, raced |-> FALSE]
  <2>1. put[w].input \in Inputs
    BY <1>6 DEF CommitInsert, LlmInv, RequestOK
  <2>2. GoodRow(row)
    BY <2>1, InsertedOK
  <2>3. settings' = settings \/ settings' = [settings EXCEPT ![put[w].user] = row]
    BY <1>6 DEF CommitInsert
  <2> HIDE DEF row
  <2>4. /\ settings' \in [Owners -> Row \cup {NoSettings}]
        /\ \A u \in Owners : settings'[u] # NoSettings => GoodRow(settings'[u])
    BY <2>2, <2>3 DEF LlmInv, GoodRow
  <2>5. /\ put' \in [Writers -> Requests]
        /\ \A v \in Writers : RequestOK(v)'
    BY <1>6, AnswerOK DEF CommitInsert
  <2> QED
    BY <1>6, <2>4, <2>5 DEF CommitInsert, LlmInv, GoodRow, Readable
<1>7. ASSUME NEW w \in Writers, CommitUpdate(w) PROVE LlmInv'
  <2> DEFINE u == put[w].user
             row == Updated(settings[u], put[w].read, put[w].input)
  <2>1. put[w].input \in Inputs /\ put[w].read \in Row
    BY <1>7 DEF CommitUpdate, LlmInv, RequestOK
  <2>2. settings[u] \in Row => GoodRow(row)
    BY <2>1, UpdatedOK
  <2>3. settings' = settings
        \/ (settings[u] # NoSettings /\ settings' = [settings EXCEPT ![u] = row])
    BY <1>7 DEF CommitUpdate
  <2>4. u \in Owners => settings[u] \in Row \cup {NoSettings}
    BY DEF LlmInv
  <2> HIDE DEF row, u
  <2>5. /\ settings' \in [Owners -> Row \cup {NoSettings}]
        /\ \A v \in Owners : settings'[v] # NoSettings => GoodRow(settings'[v])
    BY <2>2, <2>3, <2>4 DEF LlmInv, GoodRow
  <2>6. /\ put' \in [Writers -> Requests]
        /\ \A v \in Writers : RequestOK(v)'
    BY <1>7, AnswerOK DEF CommitUpdate
  <2> QED
    BY <1>7, <2>5, <2>6 DEF CommitUpdate, LlmInv, GoodRow, Readable
<1>8. ASSUME NEW w \in Writers, CommitDelete(w) PROVE LlmInv'
  <2>1. /\ put' \in [Writers -> Requests]
        /\ \A v \in Writers : RequestOK(v)'
    BY <1>8, AnswerOK DEF CommitDelete
  <2>2. settings' = [settings EXCEPT ![put[w].user] = NoSettings]
    BY <1>8 DEF CommitDelete
  <2> QED
    BY <1>8, <2>1, <2>2 DEF CommitDelete, LlmInv, GoodRow, Readable
<1>9. ASSUME NEW w \in Writers, CommitFails(w) PROVE LlmInv'
  <2>1. /\ put' \in [Writers -> Requests]
        /\ \A v \in Writers : RequestOK(v)'
    BY <1>9, AnswerOK DEF CommitFails
  <2> QED
    BY <1>9, <2>1 DEF CommitFails, LlmInv, GoodRow, Readable
<1> QED
  BY <1>1, <1>2, <1>3, <1>4, <1>5, <1>6, <1>7, <1>8, <1>9 DEF LlmNext

LEMMA LlmAlways == LlmSpec => []LlmInv
<1> QED
  BY LlmInvInit, LlmInvStep, PTL DEF LlmSpec

\* Only overlapping saves part a key from its URL.
THEOREM KeysStayWithUrls == LlmSpec => []KeyGoesWithUrl
<1>1. LlmInv => KeyGoesWithUrl
  BY DEF LlmInv, GoodRow, Together, KeyGoesWithUrl
<1> QED
  BY <1>1, LlmAlways, PTL

\* A configured encryption key outlives the process, and with it the settings.
THEOREM RestartsKeepKeys == LlmSpec => []ConfiguredKeysReadable
<1>1. LlmInv => ConfiguredKeysReadable
  BY DEF LlmInv, ConfiguredKeysReadable
<1> QED
  BY <1>1, LlmAlways, PTL

=============================================================================
