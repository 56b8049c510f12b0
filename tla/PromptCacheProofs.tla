------------------------- MODULE PromptCacheProofs -------------------------
(***************************************************************************)
(* Proofs about PromptCache for any prompts, editors, sizes and clocks.    *)
(***************************************************************************)
EXTENDS PromptCache, SequenceTheorems, TLAPS

Entry == [name : Prompts, version : Nat, expires : Nat]

\* The version v of n is the current one, or its successor is not older than
\* t by more than the TTL.
UpToDate(n, v, t) ==
    /\ v \in 1 .. Len(versions[n])
    /\ v < Len(versions[n]) => t <= versions[n][v + 1] + CacheTTL

\* An entry expires, and an answer was given, in time.
GoodEntries ==
    {e \in Entry : e.expires <= clock + CacheTTL /\ UpToDate(e.name, e.version, e.expires)}

ServedOK ==
    /\ served \in [name : Prompts \cup {NoPrompt}, version : Nat, at : Nat]
    /\ served.name # NoPrompt =>
         served.at <= clock /\ UpToDate(served.name, served.version, served.at)

CacheInv ==
    /\ versions \in [Prompts -> Seq(Nat)]
    /\ clock \in Nat
    /\ cache \in Seq(GoodEntries)
    /\ ServedOK

Edits ==
    [op : {"none", "create", "update"}, name : Prompts \cup {NoPrompt},
     tries : Nat, made : Nat, ended : BOOLEAN]

\* A version is made by the attempt that ends the request.
EditInv ==
    /\ edit \in [Editors -> Edits]
    /\ \A e \in Editors : edit[e].made <= 1 /\ (~edit[e].ended => edit[e].made = 0)

-----------------------------------------------------------------------------
(* One version per request *)

Raised == {"nothing", "timeout", "connect", "404", "409", "5xx"}

\* No exception that leaves a method is one the retry waits for.
LEMMA NeverRetried ==
    ASSUME NEW raised \in Raised
    PROVE  ~Retried(raised)
BY DEF Raised, Retried, Wrapped

LEMMA AttemptOK ==
    ASSUME EditInv, NEW e \in Editors, Trying(e), NEW raised \in Raised,
           NEW added \in {0, 1}, Attempt(e, raised, added)
    PROVE  EditInv'
<1>1. ~Retried(raised)
  BY NeverRetried
<1>2. edit[e] \in Edits /\ edit[e].made = 0
  BY DEF EditInv, Trying, Edits
<1> DEFINE over == ~(Retried(raised) /\ edit[e].tries + 1 < Attempts)
<1> DEFINE after == [op |-> edit[e].op, name |-> edit[e].name,
                     tries |-> edit[e].tries + 1, made |-> edit[e].made + added,
                     ended |-> over]
<1>3. edit' = [edit EXCEPT ![e] = after]
  BY DEF Attempt
<1>4. over = TRUE
  BY <1>1
<1> HIDE DEF over
<1>5. after \in Edits
  BY <1>2, <1>4 DEF Edits
<1>6. after.made <= 1
  BY <1>2 DEF Edits
<1>7. after.ended = TRUE
  BY <1>2, <1>4 DEF Edits
<1> HIDE DEF after
<1> QED
  BY <1>3, <1>5, <1>6, <1>7 DEF EditInv

LEMMA EditInit == PromptInit => EditInv
<1>1. NoEdit \in Edits /\ NoEdit.made = 0
  BY DEF NoEdit, Edits
<1> QED
  BY <1>1 DEF PromptInit, EditInv

LEMMA EditStep == EditInv /\ [PromptNext]_promptVars => EditInv'
<1> SUFFICES ASSUME EditInv, [PromptNext]_promptVars PROVE EditInv'
  OBVIOUS
<1>1. CASE UNCHANGED edit
  BY <1>1 DEF EditInv
<1>2. ASSUME NEW e \in Editors, BeginEdit(e) PROVE EditInv'
  <2>1. PICK op \in {"create", "update"}, n \in Prompts :
          edit' = [edit EXCEPT ![e] = [NoEdit EXCEPT !.op = op, !.name = n]]
    BY <1>2 DEF BeginEdit
  <2> DEFINE begun == [NoEdit EXCEPT !.op = op, !.name = n]
  <2>2. begun \in Edits /\ begun.made = 0
    BY DEF NoEdit, Edits
  <2> HIDE DEF begun
  <2> QED
    BY <2>1, <2>2 DEF EditInv, begun
<1>3. ASSUME NEW e \in Editors, Save(e) PROVE EditInv'
  BY <1>3, AttemptOK DEF Save, Raised
<1>4. ASSUME NEW e \in Editors, PhoenixFails(e) PROVE EditInv'
  BY <1>4, AttemptOK DEF PhoenixFails, Raised
<1>5. ASSUME NEW e \in Editors, AnswerEdit(e) PROVE EditInv'
  <2>1. NoEdit \in Edits /\ NoEdit.made = 0
    BY DEF NoEdit, Edits
  <2> QED
    BY <1>5, <2>1 DEF AnswerEdit, EditInv
<1> QED
  BY <1>1, <1>2, <1>3, <1>4, <1>5 DEF PromptNext, promptVars, PromptTick, Hit, Fetch, FetchRaises

\* Whatever answers are lost, a request leaves one version at most.
THEOREM OneVersionEver == PromptSpec => []OneVersionPerRequest
<1>1. EditInv => OneVersionPerRequest
  BY DEF EditInv, OneVersionPerRequest
<1> QED
  BY <1>1, EditInit, EditStep, PTL DEF PromptSpec

-----------------------------------------------------------------------------
(* The cache *)

LEMMA WithoutOK ==
    ASSUME NEW S, cache \in Seq(S), NEW n
    PROVE  Without(n) \in Seq(S)
<1>1. CASE Entries(n) = {}
  BY <1>1 DEF Without
<1>2. CASE Entries(n) # {}
  <2> DEFINE i == CHOOSE i \in Entries(n) : TRUE
  <2>1. i \in 1 .. Len(cache)
    BY <1>2 DEF Entries
  <2>2. \A j \in 1 .. Len(cache) : cache[j] \in S
    OBVIOUS
  <2>3. Without(n) = SubSeq(cache, 1, i - 1) \o SubSeq(cache, i + 1, Len(cache))
    BY <1>2 DEF Without
  <2> HIDE DEF i
  <2>4. Len(cache) \in Nat
    OBVIOUS
  <2>5. SubSeq(cache, 1, i - 1) \in Seq(S)
    BY <2>1, <2>2, <2>4, SubSeqProperties
  <2>6. SubSeq(cache, i + 1, Len(cache)) \in Seq(S)
    BY <2>1, <2>2, <2>4, SubSeqProperties
  <2> QED
    BY <2>3, <2>5, <2>6, ConcatProperties
<1> QED
  BY <1>1, <1>2

LEMMA TrimOK ==
    ASSUME NEW S, NEW s \in Seq(S)
    PROVE  Trim(s) \in Seq(S)
<1> DEFINE first == IF Len(s) > CacheSize THEN Len(s) - CacheSize + 1 ELSE 1
<1>1. first \in 1 .. Len(s) + 1 /\ Len(s) \in Nat
  BY PromptAssumption
<1>2. Trim(s) = SubSeq(s, first, Len(s))
  BY DEF Trim
<1> HIDE DEF first
<1>3. \A j \in first .. Len(s) : s[j] \in S
  BY <1>1
<1> QED
  BY <1>1, <1>2, <1>3, SubSeqProperties

\* Time that passes keeps entries good.
LEMMA LaterOK ==
    ASSUME CacheInv, clock' \in Nat, clock <= clock', UNCHANGED versions
    PROVE  GoodEntries \subseteq GoodEntries'
BY PromptAssumption DEF CacheInv, GoodEntries, UpToDate, Entry

LEMMA SameOK ==
    ASSUME UNCHANGED <<versions, clock>>
    PROVE  GoodEntries' = GoodEntries
BY DEF GoodEntries, UpToDate

\* So does a version that is saved: at that moment the current one is recent.
LEMMA SavedOK ==
    ASSUME CacheInv, NEW n \in Prompts, NEW v, NEW t \in Nat, NEW m \in Prompts,
           t <= clock + CacheTTL, UpToDate(m, v, t),
           versions' = [versions EXCEPT ![n] = Append(@, clock)]
    PROVE  UpToDate(m, v, t)'
<1>1. CASE m # n
  BY <1>1 DEF UpToDate, CacheInv
<1>2. CASE m = n
  <2>1. versions[n] \in Seq(Nat) /\ clock \in Nat
    BY DEF CacheInv
  <2>2. versions'[n] = Append(versions[n], clock)
    BY DEF CacheInv
  <2>3. /\ Len(versions'[n]) = Len(versions[n]) + 1
        /\ \A i \in 1 .. Len(versions[n]) : versions'[n][i] = versions[n][i]
        /\ versions'[n][Len(versions[n]) + 1] = clock
    BY <2>1, <2>2, AppendProperties
  <2>4. v \in 1 .. Len(versions[n])
    BY <1>2 DEF UpToDate
  <2>5. CASE v < Len(versions[n])
    <3>1. v + 1 \in 1 .. Len(versions[n])
      BY <2>1, <2>4, <2>5
    <3> QED
      BY <1>2, <2>1, <2>3, <2>4, <2>5, <3>1 DEF UpToDate
  <2>6. CASE v = Len(versions[n])
    BY <1>2, <2>1, <2>3, <2>4, <2>6 DEF UpToDate
  <2> QED
    BY <2>1, <2>4, <2>5, <2>6
<1> QED
  BY <1>1, <1>2

LEMMA CacheInit == PromptInit => CacheInv
BY EmptySeq, PromptAssumption DEF PromptInit, CacheInv, ServedOK

LEMMA CacheStep == CacheInv /\ [PromptNext]_promptVars => CacheInv'
<1> SUFFICES ASSUME CacheInv, [PromptNext]_promptVars PROVE CacheInv'
  OBVIOUS
<1>0. CacheTTL \in Nat /\ NoPrompt \notin Prompts /\ clock \in Nat
  BY PromptAssumption DEF CacheInv
<1>1. CASE UNCHANGED <<versions, cache, served, clock>>
  BY <1>1, SameOK DEF CacheInv, ServedOK, UpToDate
<1>2. CASE PromptTick
  <2>1. clock' = clock + 1 /\ UNCHANGED <<versions, cache, served>>
    BY <1>2 DEF PromptTick
  <2>2. cache \in Seq(GoodEntries')
    BY <1>0, <2>1, LaterOK, SeqMonotonic DEF CacheInv
  <2>3. ServedOK'
    BY <1>0, <2>1 DEF CacheInv, ServedOK, UpToDate
  <2> QED
    BY <1>0, <2>1, <2>2, <2>3 DEF CacheInv
<1>3. ASSUME NEW e \in Editors, Save(e) PROVE CacheInv'
  <2> DEFINE n == edit[e].name
  <2>1. versions' = [versions EXCEPT ![n] = Append(@, clock)] /\ UNCHANGED <<cache, served, clock>>
    BY <1>3 DEF Save
  <2>2. CASE n \in Prompts
    <3>1. versions' \in [Prompts -> Seq(Nat)]
      BY <1>0, <2>1, <2>2, AppendProperties DEF CacheInv
    <3>2. GoodEntries \subseteq GoodEntries'
      <4> SUFFICES ASSUME NEW g \in GoodEntries PROVE g \in GoodEntries'
        OBVIOUS
      <4>1. g \in Entry /\ g.expires <= clock + CacheTTL /\ UpToDate(g.name, g.version, g.expires)
        BY DEF GoodEntries
      <4>2. UpToDate(g.name, g.version, g.expires)'
        BY <2>1, <2>2, <4>1, SavedOK DEF Entry
      <4> QED
        BY <2>1, <4>1, <4>2 DEF GoodEntries
    <3>3. ServedOK'
      <4>1. CASE served.name = NoPrompt
        BY <2>1, <4>1 DEF CacheInv, ServedOK
      <4>2. CASE served.name # NoPrompt
        <5>1. /\ served.name \in Prompts /\ served.at \in Nat /\ served.at <= clock + CacheTTL
              /\ UpToDate(served.name, served.version, served.at)
          BY <1>0, <4>2 DEF CacheInv, ServedOK
        <5>2. UpToDate(served.name, served.version, served.at)'
          BY <2>1, <2>2, <5>1, SavedOK
        <5> QED
          BY <2>1, <5>2 DEF CacheInv, ServedOK
      <4> QED
        BY <4>1, <4>2
    <3> QED
      BY <2>1, <3>1, <3>2, <3>3, SeqMonotonic DEF CacheInv
  <2>3. CASE n \notin Prompts
    <3>1. versions' = versions
      BY <2>1, <2>3 DEF CacheInv
    <3> QED
      BY <2>1, <3>1, SameOK DEF CacheInv, ServedOK, UpToDate
  <2> QED
    BY <2>2, <2>3
<1>4. ASSUME NEW n \in Prompts, Hit(n) PROVE CacheInv'
  <2>1. PICK i \in Entries(n) :
          /\ Alive(cache[i])
          /\ cache' = Append(Without(n), Renewed(cache[i]))
          /\ Give(n, cache[i].version)
          /\ UNCHANGED <<versions, edit, clock>>
    BY <1>4 DEF Hit
  <2>2. cache[i] \in GoodEntries /\ cache[i].name = n
    BY <2>1 DEF Entries, CacheInv
  <2>3. cache' \in Seq(GoodEntries)
    BY <2>1, <2>2, WithoutOK, AppendProperties DEF Renewed, CacheInv
  <2>4. clock <= cache[i].expires /\ UpToDate(n, cache[i].version, cache[i].expires)
        /\ cache[i] \in Entry
    BY <2>1, <2>2 DEF Alive, GoodEntries
  <2>5. versions[n] \in Seq(Nat)
    BY DEF CacheInv
  <2>6. UpToDate(n, cache[i].version, clock)
    <3>1. ASSUME cache[i].version < Len(versions[n])
          PROVE  versions[n][cache[i].version + 1] \in Nat
      BY <2>4, <2>5, <3>1 DEF UpToDate, Entry
    <3> QED
      BY <1>0, <2>4, <3>1 DEF UpToDate, Entry
  <2>7. ServedOK'
    BY <1>0, <2>1, <2>4, <2>6 DEF Give, ServedOK, UpToDate, Entry
  <2> QED
    BY <2>1, <2>3, <2>7, SameOK DEF CacheInv
<1>5. ASSUME NEW n \in Prompts, Fetch(n) PROVE CacheInv'
  <2> DEFINE fresh == [name |-> n, version |-> Current(n), expires |-> clock + CacheTTL]
  <2>1. /\ cache' = Trim(Append(Without(n), fresh))
        /\ Give(n, Current(n)) /\ Current(n) > 0
        /\ UNCHANGED <<versions, clock>>
    BY <1>5 DEF Fetch
  <2>2. Current(n) \in Nat /\ Current(n) = Len(versions[n])
    BY DEF Current, CacheInv
  <2>3. UpToDate(n, Current(n), clock + CacheTTL) /\ UpToDate(n, Current(n), clock)
    BY <2>1, <2>2 DEF UpToDate
  <2>4. fresh \in GoodEntries
    BY <1>0, <2>2, <2>3 DEF GoodEntries, Entry
  <2> HIDE DEF fresh
  <2>5. cache' \in Seq(GoodEntries)
    BY <2>1, <2>4, WithoutOK, TrimOK, AppendProperties DEF CacheInv
  <2>6. ServedOK'
    BY <1>0, <2>1, <2>2, <2>3 DEF Give, ServedOK, UpToDate
  <2> QED
    BY <2>1, <2>5, <2>6, SameOK DEF CacheInv
<1>6. ASSUME NEW n \in Prompts, FetchRaises(n) PROVE CacheInv'
  <2>1. cache' = Without(n) /\ UNCHANGED <<versions, served, clock>>
    BY <1>6 DEF FetchRaises
  <2>2. cache' \in Seq(GoodEntries)
    BY <2>1, WithoutOK DEF CacheInv
  <2> QED
    BY <2>1, <2>2, SameOK DEF CacheInv, ServedOK, UpToDate
<1> QED
  BY <1>1, <1>2, <1>3, <1>4, <1>5, <1>6
  DEF PromptNext, promptVars, BeginEdit, PhoenixFails, AnswerEdit

\* Builds are given prompts that were current one TTL ago, or later.
THEOREM ServedInTime == PromptSpec => []ServedPromptIsRecent
<1>1. CacheInv => ServedPromptIsRecent
  BY DEF CacheInv, ServedOK, UpToDate, ServedPromptIsRecent, Current
<1> QED
  BY <1>1, CacheInit, CacheStep, PTL DEF PromptSpec

=============================================================================
