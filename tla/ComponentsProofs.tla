-------------------------- MODULE ComponentsProofs --------------------------
(***************************************************************************)
(* Proofs about the migrations of the database, whatever alembic is sent   *)
(* to, and about the conversions: documents of agents, headers of MCP      *)
(* servers and decisions on interrupted tool calls, of any length.         *)
(***************************************************************************)
EXTENDS Migrations, Conversions, FiniteSetTheorems, WellFoundedInduction, TLAPS

-----------------------------------------------------------------------------
(* Induction and recursion over the natural numbers *)

\* Every non-empty set of natural numbers has a least member.
LEMMA LeastNat ==
    ASSUME NEW T \in SUBSET Nat, T # {}
    PROVE  \E n \in T : \A m \in T : n <= m
<1> DEFINE R == {ss \in Nat \X Nat : ss[1] < ss[2]}
<1>1. IsWellFoundedOn(R, Nat)
  BY NatLessThanWellFounded, SMT DEF OpToRel
<1> HIDE DEF R
<1>2. PICK n \in T : \A m \in T : <<m, n>> \notin R
  BY <1>1, WFMin, Zenon
<1>3. \A m \in T : ~(m < n)
  BY <1>2 DEF R
<1> QED
  BY <1>2, <1>3

LEMMA AllNat ==
    ASSUME NEW S \in SUBSET Nat, 0 \in S, \A n \in S : n + 1 \in S
    PROVE  S = Nat
<1> SUFFICES ASSUME Nat \ S # {} PROVE FALSE
  OBVIOUS
<1>1. PICK n \in Nat \ S : \A m \in Nat \ S : n <= m
  BY LeastNat
<1>2. n # 0 /\ n - 1 \in Nat /\ n - 1 \in S
  BY <1>1
<1> QED
  BY <1>1, <1>2

LEMMA MaxIs ==
    ASSUME NEW N \in Nat, NEW S \in SUBSET (0 .. N), S # {}
    PROVE  Max(S) \in S /\ \A x \in S : x <= Max(S)
<1> DEFINE T == {N - x : x \in S}
<1>1. T \in SUBSET Nat
  OBVIOUS
<1>2. T # {}
  OBVIOUS
<1>3. PICK n \in T : \A m \in T : n <= m
  BY <1>1, <1>2, LeastNat
<1>4. PICK x \in S : n = N - x
  BY <1>3
<1>5. \A y \in S : x >= y
  BY <1>3, <1>4
<1>6. Max(S) \in S /\ \A y \in S : Max(S) >= y
  BY <1>4, <1>5 DEF Max
<1> QED
  BY <1>6

\* A loop of N steps has one result after each of them.
IsLoop(f, N, V, base, step) ==
    /\ f \in [0 .. N -> V] /\ f[0] = base
    /\ \A k \in 1 .. N : f[k] = step[<<k, f[k - 1]>>]

LEMMA LoopExists ==
    ASSUME NEW N \in Nat, NEW V, NEW base \in V, NEW step \in [(1 .. N) \X V -> V]
    PROVE  \E f : IsLoop(f, N, V, base, step)
<1> DEFINE Until(n, f) == f[0] = base /\ \A k \in 1 .. n : f[k] = step[<<k, f[k - 1]>>]
           S == {n \in Nat : n <= N => \E f \in [0 .. n -> V] : Until(n, f)}
<1>1. 0 \in S
  <2>1. [k \in 0 .. 0 |-> base] \in [0 .. 0 -> V] /\ Until(0, [k \in 0 .. 0 |-> base])
    OBVIOUS
  <2> QED
    BY <2>1
<1>2. ASSUME NEW n \in S PROVE n + 1 \in S
  <2> SUFFICES ASSUME n + 1 <= N PROVE \E f \in [0 .. n + 1 -> V] : Until(n + 1, f)
    OBVIOUS
  <2>1. PICK f \in [0 .. n -> V] : Until(n, f)
    OBVIOUS
  <2> DEFINE g == [k \in 0 .. n + 1 |-> IF k = n + 1 THEN step[<<n + 1, f[n]>>] ELSE f[k]]
  <2>2. f[n] \in V /\ <<n + 1, f[n]>> \in (1 .. N) \X V
    OBVIOUS
  <2>3. step[<<n + 1, f[n]>>] \in V
    BY <2>2
  <2>4. g \in [0 .. n + 1 -> V]
    BY <2>3
  <2>5. g[n + 1] = step[<<n + 1, f[n]>>] /\ \A k \in 0 .. n : g[k] = f[k]
    OBVIOUS
  <2> HIDE DEF g
  <2>6. g[0] = base
    BY <2>1, <2>5
  <2>7. ASSUME NEW k \in 1 .. n + 1 PROVE g[k] = step[<<k, g[k - 1]>>]
    <3>1. CASE k = n + 1
      BY <2>5, <3>1
    <3>2. CASE k \in 1 .. n
      BY <2>1, <2>5, <3>2
    <3> QED
      BY <3>1, <3>2
  <2>8. Until(n + 1, g)
    BY <2>6, <2>7
  <2> QED
    BY <2>4, <2>8
<1> HIDE DEF S
<1>3. N \in S
  <2>1. S \in SUBSET Nat
    BY DEF S
  <2> QED
    BY <1>1, <1>2, <2>1, AllNat
<1> QED
  BY <1>3 DEF S, IsLoop

-----------------------------------------------------------------------------
(* The schema at each position *)

\* At 006 the table of messages is there on the way up, and not on the way
\* back from 007.
Fits(n, schema) ==
    /\ "agent_configs" \in schema <=> n >= 1
    /\ "is_builtin" \in schema <=> n = 1 \/ n = 2
    /\ "threads" \in schema <=> n >= 2
    /\ n # 6 => ("messages" \in schema <=> n >= 2 /\ n <= 5)
    /\ n # 6 => ("thinking" \in schema <=> n = 4 \/ n = 5)
    /\ n = 6 => ("thinking" \in schema <=> "messages" \in schema)
    /\ "trace_events" \in schema <=> n >= 5
    /\ "description" \in schema <=> n >= 8
    /\ "api_keys" \in schema <=> n >= 9
    /\ "user_id" \in schema <=> n >= 10
    /\ "policies" \in schema <=> n >= 11
    /\ "user_llm_settings" \in schema <=> n = 12
    /\ "llm_policy" \in schema <=> n = 12
    /\ "column_object" \notin schema

After(schema, step) == (schema \cup step.makes) \ step.drops

Suits(schema, step) == step.needs \subseteq schema /\ step.absent \cap schema = {}

LEMMA ChainIs ==
    /\ Len(Chain) = 12
    /\ Chain[1] = Rev001 /\ Chain[2] = Rev002 /\ Chain[3] = Rev003 /\ Chain[4] = Rev004
    /\ Chain[5] = Rev005 /\ Chain[6] = Rev006 /\ Chain[7] = Rev007 /\ Chain[8] = Rev010
    /\ Chain[9] = Rev011 /\ Chain[10] = Rev012 /\ Chain[11] = Rev013 /\ Chain[12] = Rev014
BY DEF Chain

\* Every revision finds what it needs where the one before it left the schema.
LEMMA UpFits ==
    ASSUME NEW n \in 0 .. 11, NEW schema, Fits(n, schema)
    PROVE  /\ Suits(schema, Chain[n + 1].up)
           /\ Fits(n + 1, After(schema, Chain[n + 1].up))
<1>0. CASE n = 0
  BY <1>0, ChainIs DEF Fits, After, Suits, Rev001, Revision, Step
<1>1. CASE n = 1
  BY <1>1, ChainIs DEF Fits, After, Suits, Rev002, Revision, Step
<1>2. CASE n = 2
  BY <1>2, ChainIs DEF Fits, After, Suits, Rev003, Revision, Step
<1>3. CASE n = 3
  BY <1>3, ChainIs DEF Fits, After, Suits, Rev004, Revision, Step
<1>4. CASE n = 4
  BY <1>4, ChainIs DEF Fits, After, Suits, Rev005, Revision, Step
<1>5. CASE n = 5
  BY <1>5, ChainIs DEF Fits, After, Suits, Rev006, Revision, Step
<1>6. CASE n = 6
  BY <1>6, ChainIs DEF Fits, After, Suits, Rev007, Revision, Step
<1>7. CASE n = 7
  BY <1>7, ChainIs DEF Fits, After, Suits, Rev010, Revision, Step
<1>8. CASE n = 8
  BY <1>8, ChainIs DEF Fits, After, Suits, Rev011, Revision, Step
<1>9. CASE n = 9
  BY <1>9, ChainIs DEF Fits, After, Suits, Rev012, Revision, Step
<1>10. CASE n = 10
  BY <1>10, ChainIs DEF Fits, After, Suits, Rev013, Revision, Step
<1>11. CASE n = 11
  BY <1>11, ChainIs DEF Fits, After, Suits, Rev014, Revision, Step
<1> QED
  BY <1>0, <1>1, <1>2, <1>3, <1>4, <1>5, <1>6, <1>7, <1>8, <1>9, <1>10, <1>11

\* And so does the way down, but for 003.
LEMMA DownFits ==
    ASSUME NEW n \in 1 .. 12, NEW schema, Fits(n, schema)
    PROVE  /\ n # 3 => Suits(schema, Chain[n].down)
           /\ n = 3 => ~Suits(schema, Chain[n].down)
           /\ n # 3 => Fits(n - 1, After(schema, Chain[n].down))
<1>1. CASE n = 1
  BY <1>1, ChainIs DEF Fits, After, Suits, Rev001, Revision, Step
<1>2. CASE n = 2
  BY <1>2, ChainIs DEF Fits, After, Suits, Rev002, Revision, Step
<1>3. CASE n = 3
  BY <1>3, ChainIs DEF Fits, After, Suits, Rev003, Revision, Step
<1>4. CASE n = 4
  BY <1>4, ChainIs DEF Fits, After, Suits, Rev004, Revision, Step
<1>5. CASE n = 5
  BY <1>5, ChainIs DEF Fits, After, Suits, Rev005, Revision, Step
<1>6. CASE n = 6
  BY <1>6, ChainIs DEF Fits, After, Suits, Rev006, Revision, Step
<1>7. CASE n = 7
  BY <1>7, ChainIs DEF Fits, After, Suits, Rev007, Revision, Step
<1>8. CASE n = 8
  BY <1>8, ChainIs DEF Fits, After, Suits, Rev010, Revision, Step
<1>9. CASE n = 9
  BY <1>9, ChainIs DEF Fits, After, Suits, Rev011, Revision, Step
<1>10. CASE n = 10
  BY <1>10, ChainIs DEF Fits, After, Suits, Rev012, Revision, Step
<1>11. CASE n = 11
  BY <1>11, ChainIs DEF Fits, After, Suits, Rev013, Revision, Step
<1>12. CASE n = 12
  BY <1>12, ChainIs DEF Fits, After, Suits, Rev014, Revision, Step
<1> QED
  BY <1>1, <1>2, <1>3, <1>4, <1>5, <1>6, <1>7, <1>8, <1>9, <1>10, <1>11, <1>12

-----------------------------------------------------------------------------
(* The copies of the rows *)

Row == [id : Nat, msg : Legacy \cup Recent]

IsDb(d) ==
    /\ d = [at |-> d.at, schema |-> d.schema, messages |-> d.messages, events |-> d.events,
            next |-> d.next]
    /\ d.at \in 0 .. 12 /\ d.next \in Nat
    /\ d.messages \subseteq Row /\ IsFiniteSet(d.messages)
    /\ d.events \subseteq Row /\ IsFiniteSet(d.events)
    /\ Fits(d.at, d.schema)

\* Every row of the set is in the list, once.
LEMMA ListsAll ==
    ASSUME NEW rows, IsFiniteSet(rows)
    PROVE  /\ SetToSeq(rows) \in [1 .. Cardinality(rows) -> rows]
           /\ \A r \in rows : \E i \in 1 .. Cardinality(rows) : SetToSeq(rows)[i] = r
           /\ Cardinality(rows) \in Nat
<1> DEFINE n == Cardinality(rows)
<1>1. n \in Nat /\ ExistsBijection(1 .. n, rows)
  BY FS_CardinalityType
<1>2. \E f \in [1 .. n -> rows] : IsInjective(f)
  BY <1>1 DEF ExistsBijection, Bijection, Injection
<1>3. SetToSeq(rows) \in [1 .. n -> rows] /\ IsInjective(SetToSeq(rows))
  BY <1>2 DEF SetToSeq
<1>4. SetToSeq(rows) \in Injection(1 .. n, rows)
  BY <1>3 DEF Injection
<1>5. IsFiniteSet(1 .. n) /\ Cardinality(1 .. n) = n
  BY <1>1, FS_Interval
<1>6. SetToSeq(rows) \in Surjection(1 .. n, rows)
  BY <1>4, <1>5, FS_Injection
<1> QED
  BY <1>1, <1>3, <1>6 DEF Surjection

LEMMA FreshRows ==
    ASSUME NEW rows \in SUBSET Row, IsFiniteSet(rows), NEW next \in Nat
    PROVE  /\ WithFreshIds(rows, next) \subseteq Row
           /\ IsFiniteSet(WithFreshIds(rows, next))
           /\ \A r \in rows : \E e \in WithFreshIds(rows, next) : e.msg = r.msg
<1> DEFINE list == SetToSeq(rows)
           n == Cardinality(rows)
           fresh == WithFreshIds(rows, next)
<1>1. /\ list \in [1 .. n -> rows] /\ n \in Nat
      /\ \A r \in rows : \E i \in 1 .. n : list[i] = r
  BY ListsAll
<1>2. fresh = {[id |-> next + i, msg |-> list[i].msg] : i \in 1 .. n}
  BY <1>1 DEF WithFreshIds
<1> HIDE DEF list, n, fresh
<1> DEFINE row == [i \in 1 .. n |-> [id |-> next + i, msg |-> list[i].msg]]
<1>3. \A i \in 1 .. n : row[i] \in Row
  <2> TAKE i \in 1 .. n
  <2>1. list[i] \in Row /\ next + i \in Nat
    BY <1>1
  <2> QED
    BY <2>1 DEF Row
<1>4. row \in Surjection(1 .. n, fresh)
  BY <1>2 DEF Surjection
<1>5. IsFiniteSet(1 .. n)
  BY <1>1, FS_Interval
<1>6. IsFiniteSet(fresh)
  BY <1>4, <1>5, FS_Surjection
<1>7. ASSUME NEW r \in rows PROVE \E e \in fresh : e.msg = r.msg
  <2>1. PICK i \in 1 .. n : list[i] = r
    BY <1>1
  <2>2. [id |-> next + i, msg |-> list[i].msg] \in fresh
    BY <1>2
  <2> QED
    BY <2>1, <2>2
<1> QED
  BY <1>2, <1>3, <1>6, <1>7 DEF fresh

\* A step keeps the rows of the tables it leaves.
LEMMA ReshapedOK ==
    ASSUME NEW d, IsDb(d), NEW step, NEW at \in 0 .. 12, Fits(at, After(d.schema, step))
    PROVE  LET shaped == Reshaped(d, step, at)
           IN  /\ IsDb(shaped)
               /\ shaped.at = at /\ shaped.schema = After(d.schema, step)
               /\ "messages" \in shaped.schema => shaped.messages = d.messages
               /\ "trace_events" \in shaped.schema => shaped.events = d.events
<1> DEFINE schema == After(d.schema, step)
           messages == IF "messages" \in schema THEN d.messages ELSE {}
           events == IF "trace_events" \in schema THEN d.events ELSE {}
           shaped == Reshaped(d, step, at)
<1>1. shaped = [at |-> at, schema |-> schema, messages |-> messages, events |-> events,
                next |-> d.next]
  <2>1. shaped = [d EXCEPT !.at = at, !.schema = schema, !.messages = messages,
                           !.events = events]
    BY DEF Reshaped, After
  <2> HIDE DEF schema, messages, events
  <2> QED
    BY <2>1 DEF IsDb
<1>2. messages \subseteq Row /\ IsFiniteSet(messages)
      /\ events \subseteq Row /\ IsFiniteSet(events)
  BY FS_EmptySet DEF IsDb
<1>3. d.next \in Nat /\ Fits(at, schema)
  BY DEF IsDb
<1>4. /\ "messages" \in schema => messages = d.messages
      /\ "trace_events" \in schema => events = d.events
  OBVIOUS
<1> HIDE DEF schema, messages, events, shaped
<1>5. IsDb(shaped)
  BY <1>1, <1>2, <1>3 DEF IsDb
<1>6. /\ shaped.at = at /\ shaped.schema = schema
      /\ shaped.messages = messages /\ shaped.events = events
  BY <1>1
<1> QED
  BY <1>4, <1>5, <1>6 DEF schema, shaped

LEMMA CopiedOK ==
    ASSUME NEW d, IsDb(d)
    PROVE  /\ IsDb(Copied(d)) /\ Copied(d).at = d.at
           /\ d.events \subseteq Copied(d).events
           /\ \A r \in d.messages : \E e \in Copied(d).events : e.msg = r.msg
<1> DEFINE fresh == WithFreshIds(d.messages, d.next)
           next == d.next + Cardinality(d.messages) + 1
           events == d.events \cup fresh
<1>1. /\ fresh \subseteq Row /\ IsFiniteSet(fresh)
      /\ \A r \in d.messages : \E e \in fresh : e.msg = r.msg
  BY FreshRows DEF IsDb
<1>2. next \in Nat
  BY FS_CardinalityType DEF IsDb
<1>3. Copied(d) = [d EXCEPT !.events = events, !.next = next]
  BY DEF Copied
<1>4. IsFiniteSet(events) /\ events \subseteq Row /\ d.events \subseteq events
      /\ \A r \in d.messages : \E e \in events : e.msg = r.msg
  BY <1>1, FS_Union DEF IsDb
<1> HIDE DEF fresh, next, events
<1>5. Copied(d) = [at |-> d.at, schema |-> d.schema, messages |-> d.messages,
                   events |-> events, next |-> next]
  BY <1>3 DEF IsDb
<1>6. IsDb(Copied(d))
  BY <1>2, <1>4, <1>5 DEF IsDb
<1> QED
  BY <1>4, <1>5, <1>6

Spoken(m) == Role[m] \in {"human", "ai"}

LEMMA RecreatedOK ==
    ASSUME NEW d, IsDb(d)
    PROVE  /\ IsDb(Recreated(d)) /\ Recreated(d).at = d.at
           /\ d.messages \subseteq Recreated(d).messages
           /\ \A e \in d.events : Spoken(e.msg) => e \in Recreated(d).messages
<1> DEFINE turns == {e \in d.events : Role[e.msg] \in {"human", "ai"}}
           messages == d.messages \cup turns
<1>1. turns \subseteq Row /\ IsFiniteSet(turns)
  BY FS_Subset DEF IsDb
<1>2. IsFiniteSet(messages) /\ messages \subseteq Row /\ d.messages \subseteq messages
      /\ \A e \in d.events : Spoken(e.msg) => e \in messages
  BY <1>1, FS_Union DEF IsDb, Spoken
<1>3. Recreated(d) = [d EXCEPT !.messages = messages]
  BY DEF Recreated
<1> HIDE DEF turns, messages
<1>4. Recreated(d) = [at |-> d.at, schema |-> d.schema, messages |-> messages,
                      events |-> d.events, next |-> d.next]
  BY <1>3 DEF IsDb
<1>5. IsDb(Recreated(d))
  BY <1>2, <1>4 DEF IsDb
<1> QED
  BY <1>2, <1>4, <1>5

-----------------------------------------------------------------------------
(* Runs of alembic *)

IsRun(r) ==
    /\ r = [target |-> r.target, before |-> r.before]
    /\ r.target \in Targets /\ IsDb(r.before)

Migrated ==
    /\ IsDb(db)
    /\ run # NoRun => IsRun(run)
    /\ StepsFit

LEMMA AppliesIs == \A step : Applies(step) <=> Suits(db.schema, step)
BY DEF Applies, Suits

LEMMA TargetsOK == \A n \in Targets : n \in 0 .. 12
BY MigrationAssumption

LEMMA UpgradeOK ==
    ASSUME Migrated, Upgrade
    PROVE  \E shaped :
             /\ db.at \in 0 .. 11 /\ IsDb(shaped) /\ shaped.at = db.at + 1
             /\ shaped.schema = After(db.schema, Chain[db.at + 1].up)
             /\ "messages" \in shaped.schema => shaped.messages = db.messages
             /\ "trace_events" \in shaped.schema => shaped.events = db.events
             /\ db' = IF db.at + 1 = Copying THEN Copied(shaped) ELSE shaped
<1> DEFINE step == Chain[db.at + 1].up
           shaped == Reshaped(db, step, db.at + 1)
<1>1. db.at \in 0 .. 11 /\ db.at + 1 \in 0 .. 12
  BY TargetsOK DEF Migrated, IsDb, IsRun, Upgrade
<1>2. Fits(db.at + 1, After(db.schema, step))
  BY <1>1, UpFits DEF Migrated, IsDb
<1>3. /\ IsDb(shaped) /\ shaped.at = db.at + 1
      /\ shaped.schema = After(db.schema, step)
      /\ "messages" \in shaped.schema => shaped.messages = db.messages
      /\ "trace_events" \in shaped.schema => shaped.events = db.events
  BY <1>1, <1>2, ReshapedOK DEF Migrated
<1>4. db' = IF db.at + 1 = Copying THEN Copied(shaped) ELSE shaped
  BY DEF Upgrade
<1> HIDE DEF shaped
<1> QED
  BY <1>1, <1>3, <1>4

\* Nothing is asked to go below 003 from above.
LEMMA DowngradeOK ==
    ASSUME Migrated, Downgrade
    PROVE  \E shaped :
             /\ db.at \in 1 .. 12 /\ db.at # 3 /\ run.target < db.at
             /\ IsDb(shaped) /\ shaped.at = db.at - 1
             /\ "messages" \in shaped.schema => shaped.messages = db.messages
             /\ "trace_events" \in shaped.schema => shaped.events = db.events
             /\ db' = IF db.at = Copying THEN Recreated(shaped) ELSE shaped
<1> DEFINE step == Chain[db.at].down
           shaped == Reshaped(db, step, db.at - 1)
<1>1. db.at \in 1 .. 12 /\ db.at - 1 \in 0 .. 12 /\ run.target < db.at
  BY TargetsOK DEF Migrated, IsDb, IsRun, Downgrade
<1>2. Suits(db.schema, step)
  BY AppliesIs DEF Downgrade
<1>3. db.at # 3 /\ Fits(db.at - 1, After(db.schema, step))
  BY <1>1, <1>2, DownFits DEF Migrated, IsDb
<1>4. /\ IsDb(shaped) /\ shaped.at = db.at - 1
      /\ "messages" \in shaped.schema => shaped.messages = db.messages
      /\ "trace_events" \in shaped.schema => shaped.events = db.events
  BY <1>1, <1>3, ReshapedOK DEF Migrated
<1>5. db' = IF db.at = Copying THEN Recreated(shaped) ELSE shaped
  BY DEF Downgrade
<1> HIDE DEF shaped
<1> QED
  BY <1>1, <1>3, <1>4, <1>5

\* The application stores one more row.
LEMMA StoredOK ==
    ASSUME IsDb(db), NEW m \in Legacy \cup Recent
    PROVE  /\ db' = [db EXCEPT !.messages = @ \cup {[id |-> db.next, msg |-> m]}, !.next = @ + 1]
                => /\ IsDb(db') /\ db'.at = db.at /\ db'.events = db.events
                   /\ db'.messages = db.messages \cup {[id |-> db.next, msg |-> m]}
           /\ db' = [db EXCEPT !.events = @ \cup {[id |-> db.next, msg |-> m]}, !.next = @ + 1]
                => /\ IsDb(db') /\ db'.at = db.at /\ db'.messages = db.messages
                   /\ db'.events = db.events \cup {[id |-> db.next, msg |-> m]}
<1> DEFINE row == [id |-> db.next, msg |-> m]
           messages == db.messages \cup {row}
           events == db.events \cup {row}
           next == db.next + 1
<1>1. row \in Row /\ next \in Nat
  BY DEF IsDb, Row
<1>2. /\ messages \subseteq Row /\ IsFiniteSet(messages)
      /\ events \subseteq Row /\ IsFiniteSet(events)
  BY <1>1, FS_AddElement DEF IsDb
<1> HIDE DEF row
<1>3. ASSUME db' = [db EXCEPT !.messages = db.messages \cup {row}, !.next = db.next + 1]
      PROVE  /\ IsDb(db') /\ db'.at = db.at /\ db'.events = db.events
             /\ db'.messages = db.messages \cup {row}
  <2>1. db' = [at |-> db.at, schema |-> db.schema, messages |-> messages,
               events |-> db.events, next |-> next]
    BY <1>3 DEF IsDb
  <2> HIDE DEF messages, next
  <2>2. IsDb(db') /\ db'.at = db.at /\ db'.events = db.events /\ db'.messages = messages
    BY <1>1, <1>2, <2>1 DEF IsDb
  <2> QED
    BY <2>2 DEF messages
<1>4. ASSUME db' = [db EXCEPT !.events = db.events \cup {row}, !.next = db.next + 1]
      PROVE  /\ IsDb(db') /\ db'.at = db.at /\ db'.messages = db.messages
             /\ db'.events = db.events \cup {row}
  <2>1. db' = [at |-> db.at, schema |-> db.schema, messages |-> db.messages,
               events |-> events, next |-> next]
    BY <1>4 DEF IsDb
  <2> HIDE DEF events, next
  <2>2. IsDb(db') /\ db'.at = db.at /\ db'.messages = db.messages /\ db'.events = events
    BY <1>1, <1>2, <2>1 DEF IsDb
  <2> QED
    BY <2>2 DEF events
<1> QED
  BY <1>3, <1>4 DEF row

LEMMA MigratedInit == MigrationInit => Migrated
<1> SUFFICES ASSUME MigrationInit PROVE Migrated
  OBVIOUS
<1>1. db = [at |-> 0, schema |-> {}, messages |-> {}, events |-> {}, next |-> 1]
      /\ run = NoRun /\ raised = {}
  BY DEF MigrationInit
<1>2. IsDb(db)
  BY <1>1, FS_EmptySet DEF IsDb, Fits
<1> QED
  BY <1>1, <1>2 DEF Migrated, StepsFit

LEMMA MigratedNext == ASSUME Migrated, [MigrationNext]_migrationVars PROVE Migrated'
<1>1. CASE UNCHANGED migrationVars
  BY <1>1 DEF migrationVars, Migrated, IsDb, StepsFit
<1>2. CASE BeginRun
  <2>1. PICK target \in Targets : run' = [target |-> target, before |-> db]
    BY <1>2 DEF BeginRun
  <2>2. IsRun(run')
    BY <2>1 DEF IsRun, Migrated
  <2> QED
    BY <1>2, <2>2 DEF BeginRun, Migrated, StepsFit
<1>3. CASE Upgrade
  <2>1. IsDb(db')
    BY <1>3, UpgradeOK, CopiedOK
  <2> QED
    BY <1>3, <2>1 DEF Upgrade, Migrated, StepsFit
<1>4. CASE Downgrade
  <2>1. IsDb(db')
    BY <1>4, DowngradeOK, RecreatedOK
  <2> QED
    BY <1>4, <2>1 DEF Downgrade, Migrated, StepsFit
<1>5. CASE StepRaises
  <2>1. IsRun(run) /\ db' = run.before /\ run' = NoRun
    BY <1>5 DEF StepRaises, Migrated
  <2>2. raised' \subseteq raised \cup {<<"down", 3>>, <<"primary_key", Copying>>}
    <3>1. CASE db.at < run.target /\ ~Applies(Chain[db.at + 1].up)
      <4>1. db.at \in 0 .. 11
        BY <2>1, <3>1, TargetsOK DEF Migrated, IsDb, IsRun
      <4> QED
        BY <3>1, <4>1, UpFits, AppliesIs DEF Migrated, IsDb
    <3>2. CASE /\ db.at > run.target /\ ~Applies(Chain[db.at].down)
               /\ raised' = raised \cup {<<"down", db.at>>}
      <4>1. db.at \in 1 .. 12
        BY <2>1, <3>2, TargetsOK DEF Migrated, IsDb, IsRun
      <4>2. db.at = 3
        BY <3>2, <4>1, DownFits, AppliesIs DEF Migrated, IsDb
      <4> QED
        BY <3>2, <4>2
    <3>3. CASE db.at = Copying /\ raised' = raised \cup {<<"primary_key", db.at>>}
      BY <3>3
    <3> QED
      BY <1>5, <3>1, <3>2, <3>3 DEF StepRaises
  <2> QED
    BY <2>1, <2>2 DEF IsRun, Migrated, StepsFit
<1>6. CASE CommitRun
  BY <1>6 DEF CommitRun, Migrated, StepsFit
<1>7. CASE StoreLegacy \/ StoreEvent
  <2>1. IsDb(db')
    BY <1>7, StoredOK DEF StoreLegacy, StoreEvent, Migrated
  <2> QED
    BY <1>7, <2>1 DEF StoreLegacy, StoreEvent, Migrated, StepsFit
<1> QED
  BY <1>1, <1>2, <1>3, <1>4, <1>5, <1>6, <1>7 DEF MigrationNext

LEMMA MigratedAlways == MigrationSpec => []Migrated
BY MigratedInit, MigratedNext, PTL DEF MigrationSpec

\* Wherever alembic is sent, in any order of runs.
THEOREM ChainFits == MigrationSpec => []StepsFit
<1>1. Migrated => StepsFit
  BY DEF Migrated
<1> QED
  BY <1>1, MigratedAlways, PTL

-----------------------------------------------------------------------------
(* The messages *)

\* Alembic is never sent below 002, where the tables of messages begin.
KeepsMessages == Targets \cap {0, 1} = {}

\* What users and agents said is among the rows.
AllIn(rows) == \A m \in stored : Spoken(m) => \E r \in rows : r.msg = m

\* It is in the table the application at that position reads, and nothing
\* has been said before there is one.
Kept(d) ==
    /\ d.at < 2 => stored = {}
    /\ d.at >= 2 /\ d.at < Copying => AllIn(d.messages)
    /\ d.at >= Copying => AllIn(d.events)

NothingLost == Kept(db) /\ (run # NoRun => Kept(run.before))

LEMMA FitsRows ==
    ASSUME NEW d, IsDb(d)
    PROVE  /\ d.at \in 2 .. 5 => "messages" \in d.schema
           /\ d.at >= 5 => "trace_events" \in d.schema
BY DEF IsDb, Fits

\* A step of a run that ends where the rows are that the next application reads.
LEMMA KeptStep ==
    ASSUME NothingLost, UNCHANGED <<run, stored>>, db'.at \in 2 .. 12,
           IF db'.at >= 6 THEN AllIn(db'.events) ELSE AllIn(db'.messages)
    PROVE  NothingLost'
<1>1. Kept(db)'
  BY DEF Kept, AllIn, Copying
<1>2. run' # NoRun => Kept(run.before)'
  BY DEF NothingLost, Kept, AllIn
<1> QED
  BY <1>1, <1>2 DEF NothingLost

LEMMA KeptUpgrade == ASSUME Migrated, NothingLost, Upgrade PROVE NothingLost'
<1>1. stored' = stored /\ run' = run
  BY DEF Upgrade
<1>2. PICK shaped :
        /\ db.at \in 0 .. 11 /\ IsDb(shaped) /\ shaped.at = db.at + 1
        /\ shaped.schema = After(db.schema, Chain[db.at + 1].up)
        /\ "messages" \in shaped.schema => shaped.messages = db.messages
        /\ "trace_events" \in shaped.schema => shaped.events = db.events
        /\ db' = IF db.at + 1 = Copying THEN Copied(shaped) ELSE shaped
  BY UpgradeOK
<1>3. CASE db.at < 2
  <2>1. stored = {}
    BY <1>3 DEF NothingLost, Kept
  <2>2. db' = shaped /\ db'.at < Copying
    BY <1>2, <1>3 DEF Copying
  <2> QED
    BY <1>1, <2>1, <2>2 DEF NothingLost, Kept, AllIn
<1>4. CASE db.at \in 2 .. 4
  <2>1. db' = shaped /\ db'.at \in 3 .. 5 /\ AllIn(db.messages)
    BY <1>2, <1>4 DEF Copying, NothingLost, Kept
  <2>2. shaped.messages = db.messages
    BY <1>2, <2>1, FitsRows
  <2> QED
    BY <1>1, <1>2, <2>1, <2>2, KeptStep
<1>5. CASE db.at = 5
  <2>1. db' = Copied(shaped) /\ AllIn(db.messages) /\ shaped.at = 6
    BY <1>2, <1>5 DEF Copying, NothingLost, Kept
  <2>2. "messages" \in shaped.schema
    <3>1. "messages" \in db.schema
      BY <1>5, FitsRows DEF Migrated
    <3>2. Chain[6].up.drops = {}
      BY ChainIs DEF Rev006, Revision, Step
    <3> QED
      BY <1>2, <1>5, <3>1, <3>2 DEF After
  <2>3. AllIn(shaped.messages)
    BY <1>2, <2>1, <2>2
  <2>4. db'.at = 6 /\ \A r \in shaped.messages : \E e \in db'.events : e.msg = r.msg
    BY <1>2, <2>1, CopiedOK
  <2>5. AllIn(db'.events)
    BY <2>3, <2>4 DEF AllIn
  <2> QED
    BY <1>1, <2>4, <2>5, KeptStep
<1>6. CASE db.at >= 6
  <2>1. db' = shaped /\ db'.at >= 7 /\ AllIn(db.events)
    BY <1>2, <1>6 DEF Copying, NothingLost, Kept
  <2>2. shaped.events = db.events
    BY <1>2, <2>1, FitsRows
  <2> QED
    BY <1>1, <1>2, <2>1, <2>2, KeptStep
<1> QED
  BY <1>2, <1>3, <1>4, <1>5, <1>6

LEMMA KeptDowngrade == ASSUME KeepsMessages, Migrated, NothingLost, Downgrade PROVE NothingLost'
<1>1. stored' = stored /\ run' = run /\ run # NoRun
  BY DEF Downgrade
<1>2. PICK shaped :
        /\ db.at \in 1 .. 12 /\ db.at # 3 /\ run.target < db.at
        /\ IsDb(shaped) /\ shaped.at = db.at - 1
        /\ "messages" \in shaped.schema => shaped.messages = db.messages
        /\ "trace_events" \in shaped.schema => shaped.events = db.events
        /\ db' = IF db.at = Copying THEN Recreated(shaped) ELSE shaped
  BY DowngradeOK
<1>3. db.at > 3
  BY <1>1, <1>2, TargetsOK DEF KeepsMessages, Migrated, IsRun
<1>4. CASE db.at \in 4 .. 5
  <2>1. db' = shaped /\ db'.at \in 3 .. 4 /\ AllIn(db.messages)
    BY <1>2, <1>4 DEF Copying, NothingLost, Kept
  <2>2. shaped.messages = db.messages
    BY <1>2, <2>1, FitsRows
  <2> QED
    BY <1>1, <1>2, <2>1, <2>2, KeptStep
<1>5. CASE db.at = 6
  <2>1. db' = Recreated(shaped) /\ AllIn(db.events) /\ shaped.at = 5
    BY <1>2, <1>5 DEF Copying, NothingLost, Kept
  <2>2. shaped.events = db.events
    BY <1>2, <2>1, FitsRows
  <2>3. db'.at = 5 /\ \A e \in shaped.events : Spoken(e.msg) => e \in db'.messages
    BY <1>2, <2>1, RecreatedOK
  <2>4. AllIn(db'.messages)
    BY <2>1, <2>2, <2>3 DEF AllIn
  <2> QED
    BY <1>1, <2>3, <2>4, KeptStep
<1>6. CASE db.at >= 7
  <2>1. db' = shaped /\ db'.at >= 6 /\ AllIn(db.events)
    BY <1>2, <1>6 DEF Copying, NothingLost, Kept
  <2>2. shaped.events = db.events
    BY <1>2, <2>1, FitsRows
  <2> QED
    BY <1>1, <1>2, <2>1, <2>2, KeptStep
<1> QED
  BY <1>2, <1>3, <1>4, <1>5, <1>6

LEMMA KeptStored == ASSUME Migrated, NothingLost, StoreLegacy \/ StoreEvent PROVE NothingLost'
<1>1. run' = run /\ run = NoRun
  BY DEF StoreLegacy, StoreEvent
<1>2. CASE StoreLegacy
  <2>1. PICK m \in Legacy :
          /\ stored' = stored \cup {m}
          /\ db' = [db EXCEPT !.messages = @ \cup {[id |-> db.next, msg |-> m]}, !.next = @ + 1]
    BY <1>2 DEF StoreLegacy
  <2>2. db'.at = db.at /\ db'.messages = db.messages \cup {[id |-> db.next, msg |-> m]}
    BY <2>1, StoredOK DEF Migrated
  <2>3. db.at \in 2 .. 5
    BY <1>2 DEF StoreLegacy
  <2>4. AllIn(db.messages)
    BY <2>3 DEF NothingLost, Kept, Copying
  <2> DEFINE row == [id |-> db.next, msg |-> m]
  <2>5. row.msg = m /\ db'.messages = db.messages \cup {row} /\ stored' = stored \cup {m}
    BY <2>1, <2>2
  <2> HIDE DEF row
  <2>6. \A x \in stored' : Spoken(x) => \E r \in db'.messages : r.msg = x
    BY <2>4, <2>5 DEF AllIn
  <2>7. AllIn(db.messages)'
    BY <2>6 DEF AllIn, Spoken
  <2> QED
    BY <1>1, <2>2, <2>3, <2>7 DEF NothingLost, Kept, Copying
<1>3. CASE StoreEvent
  <2>1. PICK m \in Recent :
          /\ stored' = stored \cup {m}
          /\ db' = [db EXCEPT !.events = @ \cup {[id |-> db.next, msg |-> m]}, !.next = @ + 1]
    BY <1>3 DEF StoreEvent
  <2>2. db'.at = db.at /\ db'.events = db.events \cup {[id |-> db.next, msg |-> m]}
    BY <2>1, StoredOK DEF Migrated
  <2>3. db.at = 12
    BY <1>3, ChainIs DEF StoreEvent, Newest
  <2>4. AllIn(db.events)
    BY <2>3 DEF NothingLost, Kept, Copying
  <2> DEFINE row == [id |-> db.next, msg |-> m]
  <2>5. row.msg = m /\ db'.events = db.events \cup {row} /\ stored' = stored \cup {m}
    BY <2>1, <2>2
  <2> HIDE DEF row
  <2>6. \A x \in stored' : Spoken(x) => \E r \in db'.events : r.msg = x
    BY <2>4, <2>5 DEF AllIn
  <2>7. AllIn(db.events)'
    BY <2>6 DEF AllIn, Spoken
  <2> QED
    BY <1>1, <2>2, <2>3, <2>7 DEF NothingLost, Kept, Copying
<1> QED
  BY <1>2, <1>3

\* Through the copy of 006, its way back, and runs that raise half way; a
\* downgrade below 002 is meant to drop the table.
THEOREM TurnsSurvive == ASSUME KeepsMessages PROVE MigrationSpec => []NoTurnLost
<1>1. MigrationInit => NothingLost
  BY DEF MigrationInit, NothingLost, Kept, Copying
<1>2. ASSUME Migrated, NothingLost, [MigrationNext]_migrationVars PROVE NothingLost'
  <2>1. CASE UNCHANGED migrationVars
    BY <1>2, <2>1 DEF migrationVars, NothingLost, Kept, AllIn
  <2>2. CASE BeginRun
    <3>1. PICK target : run' = [target |-> target, before |-> db]
      BY <2>2 DEF BeginRun
    <3> QED
      BY <1>2, <2>2, <3>1 DEF BeginRun, NothingLost, Kept, AllIn
  <2>3. CASE StepRaises
    BY <1>2, <2>3 DEF StepRaises, NothingLost, Kept, AllIn
  <2>4. CASE CommitRun
    BY <1>2, <2>4 DEF CommitRun, NothingLost, Kept, AllIn
  <2> QED
    BY <1>2, <2>1, <2>2, <2>3, <2>4, KeptUpgrade, KeptDowngrade, KeptStored DEF MigrationNext
<1>3. NothingLost /\ Migrated => NoTurnLost
  BY DEF NothingLost, Kept, AllIn, Spoken, NoTurnLost, Migrated, IsDb, Copying
<1> QED
  BY <1>1, <1>2, <1>3, MigratedAlways, PTL DEF MigrationSpec

-----------------------------------------------------------------------------
(* The documents of agents *)

Document ==
    [text : {"mapping", "blank", "broken", "list", "scalar", "missing"},
     keys : SUBSET STRING, backendKeys : SUBSET STRING, backend : STRING, nameLength : Nat,
     prompt : STRING, promptFile : STRING,
     servers : SUBSET [transport : {"stdio", "http"}, command : BOOLEAN, url : BOOLEAN]]

\* What the loader makes of a document that names no prompt file, or of one
\* whose prompt file it has read.
LEMMA Stripped ==
    ASSUME NEW doc \in Document
    PROVE  LET plain == Strip(doc)
           IN  /\ plain.keys = doc.keys \ {"middleware"}
               /\ plain.backend = IF doc.backend = "state" THEN "store" ELSE doc.backend
               /\ plain.nameLength = doc.nameLength /\ plain.servers = doc.servers
               /\ plain.prompt = doc.prompt /\ plain.promptFile = doc.promptFile
               /\ plain = [text |-> doc.text, keys |-> plain.keys,
                           backendKeys |-> plain.backendKeys, backend |-> plain.backend,
                           nameLength |-> doc.nameLength, prompt |-> doc.prompt,
                           promptFile |-> doc.promptFile, servers |-> doc.servers]
<1> DEFINE keys == doc.keys \ DeprecatedFields
           backendKeys == doc.backendKeys \ DeprecatedBackendFields
           backend == IF doc.backend \in DeprecatedBackendTypes THEN "store" ELSE doc.backend
<1>1. Strip(doc) = [doc EXCEPT !.keys = keys, !.backendKeys = backendKeys, !.backend = backend]
  BY DEF Strip
<1>2. /\ keys = doc.keys \ {"middleware"}
      /\ backend = IF doc.backend = "state" THEN "store" ELSE doc.backend
  BY DEF DeprecatedFields, DeprecatedBackendTypes
<1> HIDE DEF keys, backendKeys, backend
<1>3. Strip(doc) = [text |-> doc.text, keys |-> keys, backendKeys |-> backendKeys,
                    backend |-> backend, nameLength |-> doc.nameLength, prompt |-> doc.prompt,
                    promptFile |-> doc.promptFile, servers |-> doc.servers]
  BY <1>1 DEF Document
<1> QED
  BY <1>2, <1>3

LEMMA ServersOk ==
    ASSUME NEW doc \in Document
    PROVE  (\A s \in doc.servers : ServerOk(s)) <=>
             /\ \A s \in doc.servers : s.transport = "stdio" => s.command
             /\ \A s \in doc.servers : s.transport = "http" => s.url
<1>1. \A s \in doc.servers : s \in [transport : {"stdio", "http"}, command : BOOLEAN, url : BOOLEAN]
  BY DEF Document
<1>2. ASSUME NEW s \in doc.servers
      PROVE  ServerOk(s) <=> /\ s.transport = "stdio" => s.command
                             /\ s.transport = "http" => s.url
  BY <1>1 DEF ServerOk
<1> QED
  BY <1>2

\* What a document comes to once it is stripped, with the given prompt.
LEMMA ValidateOK ==
    ASSUME NEW doc \in Document, NEW plain, NEW prompt, doc.text = "mapping",
           plain.keys = doc.keys \ {"middleware"},
           plain.backend = (IF doc.backend = "state" THEN "store" ELSE doc.backend),
           plain.nameLength = doc.nameLength, plain.servers = doc.servers,
           plain.prompt = prompt, plain.promptFile = Absent,
           doc.promptFile = Absent => prompt = doc.prompt
    PROVE  OldDocumentsLoad(doc, Validate(plain))
<1> DEFINE loaded == Validate(plain)
           fine == /\ plain.keys = {} /\ doc.nameLength \in 1 .. 100
                   /\ plain.backend \in {"store", Absent}
                   /\ \A s \in doc.servers : ServerOk(s)
<1>1. CASE fine
  <2>1. loaded = [error |-> "none", nameLength |-> doc.nameLength, backend |-> "store",
                  prompt |-> prompt, servers |-> doc.servers]
    BY <1>1 DEF Validate
  <2>2. /\ doc.keys \subseteq DeprecatedFields \cup DeprecatedBackendFields
        /\ doc.backend \in {"store", "state", Absent}
        /\ doc.nameLength > 0 /\ doc.nameLength <= 100
    BY <1>1 DEF DeprecatedFields, Document, Absent
  <2>3. /\ \A s \in doc.servers : s.transport = "stdio" => s.command
        /\ \A s \in doc.servers : s.transport = "http" => s.url
    BY <1>1, ServersOk
  <2>4. loaded.error = "none" /\ loaded.backend = "store" /\ loaded.servers = doc.servers
        /\ loaded.prompt = prompt
    BY <2>1
  <2> QED
    BY <2>2, <2>3, <2>4 DEF OldDocumentsLoad
<1>2. CASE ~fine
  <2>1. loaded.error = "validation"
    BY <1>2 DEF Validate, ConfigError
  <2>2. ASSUME doc.keys \subseteq DeprecatedFields, doc.backend \in {"store", "state", Absent},
               doc.nameLength > 0, doc.nameLength <= 100,
               \A s \in doc.servers : s.transport = "stdio" => s.command,
               \A s \in doc.servers : s.transport = "http" => s.url
        PROVE  FALSE
    <3>1. plain.keys = {} /\ plain.backend \in {"store", Absent}
      BY <2>2 DEF DeprecatedFields
    <3>2. doc.nameLength \in 1 .. 100
      BY <2>2 DEF Document
    <3>3. \A s \in doc.servers : ServerOk(s)
      BY <2>2, ServersOk
    <3> QED
      BY <1>2, <3>1, <3>2, <3>3
  <2> QED
    BY <2>1, <2>2 DEF OldDocumentsLoad
<1> QED
  BY <1>1, <1>2

\* A document that does not load, and need not.
LEMMA NotLoaded ==
    ASSUME NEW doc \in Document, NEW loaded, loaded.error # "none",
           doc.text # "mapping" \/ doc.promptFile # Absent
    PROVE  OldDocumentsLoad(doc, loaded)
BY DEF OldDocumentsLoad

LEMMA LoadsFromString ==
    ASSUME NEW doc \in Document, doc.text # "missing"
    PROVE  OldDocumentsLoad(doc, LoadFromString(doc))
<1>1. CASE doc.text # "mapping"
  <2>1. LoadFromString(doc).error # "none"
    BY <1>1 DEF Document, LoadFromString, Parse, ConfigError
  <2> QED
    BY <1>1, <2>1, NotLoaded
<1>2. CASE doc.text = "mapping" /\ doc.promptFile # Absent
  <2>1. LoadFromString(doc).error # "none"
    BY <1>2 DEF LoadFromString, Parse, ConfigError
  <2> QED
    BY <1>2, <2>1, NotLoaded
<1>3. CASE doc.text = "mapping" /\ doc.promptFile = Absent
  <2>1. LoadFromString(doc) = Validate(Strip(doc))
    BY <1>3 DEF LoadFromString, Parse
  <2> QED
    BY <1>3, <2>1, Stripped, ValidateOK
<1> QED
  BY <1>1, <1>2, <1>3

LEMMA LoadsFromFile ==
    ASSUME NEW doc \in Document
    PROVE  OldDocumentsLoad(doc, Load(doc))
<1>1. CASE doc.text # "mapping" \/ doc.promptFile = "missing_file"
  <2>1. Load(doc).error # "none"
    BY <1>1 DEF Document, Load, Parse, ConfigError
  <2> QED
    BY <1>1, <2>1, NotLoaded DEF Absent
<1>2. CASE doc.text = "mapping" /\ doc.promptFile \notin {"missing_file", Absent}
  <2> DEFINE plain == [Strip(doc) EXCEPT !.prompt = "file_text", !.promptFile = Absent]
  <2>1. Load(doc) = Validate(plain)
    BY <1>2 DEF Load, Parse
  <2>2. /\ plain.keys = doc.keys \ {"middleware"}
        /\ plain.backend = (IF doc.backend = "state" THEN "store" ELSE doc.backend)
        /\ plain.nameLength = doc.nameLength /\ plain.servers = doc.servers
        /\ plain.prompt = "file_text" /\ plain.promptFile = Absent
    BY Stripped
  <2> HIDE DEF plain
  <2> QED
    BY <1>2, <2>1, <2>2, ValidateOK
<1>3. CASE doc.text = "mapping" /\ doc.promptFile = Absent
  <2>1. Load(doc) = Validate(Strip(doc))
    BY <1>3 DEF Load, Parse, Absent
  <2> QED
    BY <1>3, <2>1, Stripped, ValidateOK
<1> QED
  BY <1>1, <1>2, <1>3

YamlInv ==
    /\ part = "yaml" => given \in Document
    /\ StoredDocumentsLoad

\* A document of an earlier version, of any length and with any servers,
\* loads as the one without what was removed since; from the store and from
\* a file (yaml_config/adapter.py:18-94).
THEOREM DocumentsLoad == ConversionsSpec => []StoredDocumentsLoad
<1>1. ConversionsInit => YamlInv
  BY ConversionsAssumption DEF ConversionsInit, YamlInv, StoredDocumentsLoad, Document
<1>2. ASSUME YamlInv, [ConversionsNext]_conversionVars PROVE YamlInv'
  <2>1. CASE UNCHANGED conversionVars
    BY <1>2, <2>1 DEF conversionVars, YamlInv, StoredDocumentsLoad
  <2>2. CASE Resume \/ LoadTools
    BY <2>2 DEF Resume, LoadTools, Evaluate, YamlInv, StoredDocumentsLoad
  <2>3. CASE LoadDocument
    <3>1. part = "yaml" /\ part' = part /\ given' = given /\ given \in Document
      BY <1>2, <2>3 DEF LoadDocument, Evaluate, YamlInv
    <3>2. \/ got' = LoadFromString(given) /\ given.text # "missing"
          \/ got' = Load(given)
      BY <2>3 DEF LoadDocument, Evaluate
    <3>3. OldDocumentsLoad(given, got')
      BY <3>1, <3>2, LoadsFromString, LoadsFromFile
    <3>4. OldDocumentsLoad(given, got)'
      BY <3>1, <3>3
    <3> QED
      BY <3>1, <3>4 DEF YamlInv, StoredDocumentsLoad
  <2> QED
    BY <1>2, <2>1, <2>2, <2>3 DEF ConversionsNext
<1> QED
  BY <1>1, <1>2, PTL DEF ConversionsSpec, YamlInv

-----------------------------------------------------------------------------
(* The headers of MCP servers *)

Caller == [method : {"jwt", "api_key", "none"}, credential : UserCredentials]

Kind(caller) == IF caller.method = "jwt" THEN "USER_JWT" ELSE "USER_API_KEY"

\* A placeholder has a value when the user came with its kind of credential.
LEMMA PlaceholderIs ==
    ASSUME NEW caller \in Caller, NEW p \in UserParts
    PROVE  UserPlaceholder(p, caller) =
             IF p = Kind(caller) /\ caller.method # "none" THEN {caller.credential} ELSE {}
BY DEF UserParts, UserPlaceholder, Kind, Caller

\* What CredentialsAsAsked says of one server.
AsAsked(asked, caller, sent) ==
    /\ \A h \in DOMAIN sent :
         /\ h \in DOMAIN asked /\ sent[h] # {}
         /\ asked[h] \cap UserParts # {} => caller.credential \in sent[h]
         /\ caller.credential \in sent[h] \ asked[h] =>
              Kind(caller) \in asked[h] /\ caller.method # "none"
    /\ \A h \in DOMAIN asked :
         asked[h] \cap UserParts = {Kind(caller)} /\ caller.method # "none" => h \in DOMAIN sent

LEMMA HeadersAsAsked ==
    ASSUME NEW caller \in Caller, NEW asked
    PROVE  AsAsked(asked, caller, Headers(asked, caller))
<1> DEFINE sent == Headers(asked, caller)
<1>1. /\ DOMAIN sent = {h \in DOMAIN asked : ~Dropped(asked[h], caller)}
      /\ \A h \in DOMAIN sent : sent[h] = Resolved(asked[h], caller)
  BY DEF Headers
<1> HIDE DEF sent
<1>2. ASSUME NEW h \in DOMAIN sent
      PROVE  /\ h \in DOMAIN asked /\ sent[h] # {}
             /\ asked[h] \cap UserParts # {} => caller.credential \in sent[h]
             /\ caller.credential \in sent[h] \ asked[h] =>
                  Kind(caller) \in asked[h] /\ caller.method # "none"
  <2>1. /\ h \in DOMAIN asked /\ sent[h] = Resolved(asked[h], caller) /\ sent[h] # {}
        /\ \A p \in asked[h] \cap UserParts : UserPlaceholder(p, caller) # {}
    BY <1>1, <1>2 DEF Dropped
  <2>2. ASSUME NEW p \in asked[h] \cap UserParts PROVE caller.credential \in sent[h]
    <3>1. UserPlaceholder(p, caller) = {caller.credential}
      BY <2>1, PlaceholderIs
    <3> QED
      BY <2>1, <3>1 DEF Resolved, ResolvePart
  <2>3. ASSUME caller.credential \in sent[h] \ asked[h]
        PROVE  Kind(caller) \in asked[h] /\ caller.method # "none"
    <3>1. PICK p \in asked[h] : caller.credential \in ResolvePart(p, caller)
      BY <2>1, <2>3 DEF Resolved
    <3>2. p \in UserParts /\ UserPlaceholder(p, caller) # {}
      BY <2>3, <3>1 DEF ResolvePart
    <3> QED
      BY <3>1, <3>2, PlaceholderIs
  <2> QED
    BY <2>1, <2>2, <2>3
<1>3. ASSUME NEW h \in DOMAIN asked, asked[h] \cap UserParts = {Kind(caller)},
             caller.method # "none"
      PROVE  h \in DOMAIN sent
  <2>1. Kind(caller) \in asked[h] /\ Kind(caller) \in UserParts
    BY <1>3
  <2>2. UserPlaceholder(Kind(caller), caller) = {caller.credential}
    BY <1>3, <2>1, PlaceholderIs
  <2>3. Resolved(asked[h], caller) # {}
    BY <2>1, <2>2 DEF Resolved, ResolvePart
  <2>4. ~Dropped(asked[h], caller)
    BY <1>3, <2>2, <2>3 DEF Dropped
  <2> QED
    BY <1>1, <2>4
<1> QED
  BY <1>2, <1>3 DEF sent, AsAsked

LEMMA ServersAsAsked ==
    ASSUME NEW load \in Loads
    PROVE  CredentialsAsAsked(load.configs, load.caller,
                              ServerConfigs(load.configs, load.caller))
<1> DEFINE configs == load.configs
           servers == ServerConfigs(configs, load.caller)
           named(i) == {j \in DOMAIN configs : configs[j].name = configs[i].name}
<1>1. /\ load.caller \in Caller
      /\ configs \in Seq({configs[i] : i \in DOMAIN configs})
  BY ConversionsAssumption DEF Caller
<1>2. PICK N \in Nat : DOMAIN configs = 1 .. N
  BY <1>1
<1>3. /\ DOMAIN servers = {configs[i].name : i \in DOMAIN configs}
      /\ \A i \in DOMAIN configs :
           servers[configs[i].name] = Headers(configs[Max(named(i))].headers, load.caller)
  BY DEF ServerConfigs
<1> HIDE DEF configs, servers, named
<1>4. ASSUME NEW i \in DOMAIN configs,
             \A j \in DOMAIN configs : j > i => configs[j].name # configs[i].name
      PROVE  AsAsked(configs[i].headers, load.caller, servers[configs[i].name])
  <2>1. i \in named(i) /\ named(i) \in SUBSET (0 .. N)
    BY <1>2, <1>4 DEF named
  <2>2. Max(named(i)) \in named(i) /\ i <= Max(named(i))
    BY <2>1, MaxIs
  <2>3. Max(named(i)) = i
    BY <1>2, <1>4, <2>2 DEF named
  <2>4. servers[configs[i].name] = Headers(configs[Max(named(i))].headers, load.caller)
    BY <1>3, <1>4
  <2>5. servers[configs[i].name] = Headers(configs[i].headers, load.caller)
    BY <2>3, <2>4
  <2> QED
    BY <1>1, <2>5, HeadersAsAsked
<1> QED
  BY <1>3, <1>4 DEF CredentialsAsAsked, AsAsked, Kind, configs, servers

HeadersInv ==
    /\ part = "headers" => given \in Loads
    /\ ServersGetOwnCredential

\* For any servers, headers and users: a header goes out with the credential
\* it asks for or not at all, and no credential goes where it is not asked for
\* (env_utils.py:113-157, mcp/adapter.py:43-59).
THEOREM CredentialsGoWhereAsked == ConversionsSpec => []ServersGetOwnCredential
<1>1. ConversionsInit => HeadersInv
  BY DEF ConversionsInit, HeadersInv, ServersGetOwnCredential
<1>2. ASSUME HeadersInv, [ConversionsNext]_conversionVars PROVE HeadersInv'
  <2>1. CASE UNCHANGED conversionVars
    BY <1>2, <2>1 DEF conversionVars, HeadersInv, ServersGetOwnCredential
  <2>2. CASE Resume \/ LoadDocument
    BY <2>2 DEF Resume, LoadDocument, Evaluate, HeadersInv, ServersGetOwnCredential
  <2>3. CASE LoadTools
    <3>1. part = "headers" /\ part' = part /\ given' = given /\ given \in Loads
      BY <1>2, <2>3 DEF LoadTools, Evaluate, HeadersInv
    <3>2. got' = ServerConfigs(given.configs, given.caller)
      BY <2>3 DEF LoadTools, Evaluate
    <3>3. CredentialsAsAsked(given.configs, given.caller, got')
      BY <3>1, <3>2, ServersAsAsked
    <3>4. CredentialsAsAsked(given.configs, given.caller, got)'
      BY <3>1, <3>3
    <3> QED
      BY <3>1, <3>4 DEF HeadersInv, ServersGetOwnCredential
  <2> QED
    BY <1>2, <2>1, <2>2, <2>3 DEF ConversionsNext
<1> QED
  BY <1>1, <1>2, PTL DEF ConversionsSpec, HeadersInv

-----------------------------------------------------------------------------
(* The decisions on interrupted tool calls *)

Call == [id : CallIds, name : Tools]

Distinct(calls) ==
    \A i, j \in DOMAIN calls : calls[i].id = calls[j].id => i = j

\* A loop that collects in a list, as a function of the steps it has made.
LEMMA Collected ==
    ASSUME NEW N \in Nat, NEW V, NEW step \in [(1 .. N) \X Seq(V) -> Seq(V)],
           NEW g, g[0] = <<>>,
           \A n \in 1 .. N : g[n - 1] \in Seq(V) => g[n] = step[<<n, g[n - 1]>>]
    PROVE  \A n \in 0 .. N : g[n] \in Seq(V)
<1> DEFINE S == {n \in Nat : n <= N => g[n] \in Seq(V)}
<1>1. 0 \in S
  <2>1. <<>> \in Seq(V)
    OBVIOUS
  <2> QED
    BY <2>1
<1>2. ASSUME NEW n \in S PROVE n + 1 \in S
  <2> SUFFICES ASSUME n + 1 <= N PROVE g[n + 1] \in Seq(V)
    OBVIOUS
  <2>1. n + 1 \in 1 .. N /\ g[n] \in Seq(V) /\ (n + 1) - 1 = n
    OBVIOUS
  <2>2. g[n + 1] = step[<<n + 1, g[n]>>]
    BY <2>1
  <2>3. <<n + 1, g[n]>> \in (1 .. N) \X Seq(V)
    BY <2>1
  <2> QED
    BY <2>2, <2>3
<1>3. S = Nat
  <2>1. S \in SUBSET Nat
    OBVIOUS
  <2> HIDE DEF S
  <2> QED
    BY <1>1, <1>2, <2>1, AllNat
<1> QED
  BY <1>3

\* What the middleware asks about, call by call.
Requesting(f, calls, tools) ==
    /\ f[0] = <<>>
    /\ \A n \in 0 .. Len(calls) : f[n] \in Seq(Call)
    /\ \A n \in 1 .. Len(calls) :
         f[n] = IF calls[n].name \in tools THEN Append(f[n - 1], calls[n]) ELSE f[n - 1]

LEMMA RequestsLoop ==
    ASSUME NEW calls \in Seq(Call), NEW tools
    PROVE  \E f : Requesting(f, calls, tools) /\ ActionRequests(calls, tools) = f[Len(calls)]
<1> DEFINE N == Len(calls)
           V == Seq(Call)
           Body(g) == [n \in 0 .. N |->
                          IF n = 0 THEN <<>>
                          ELSE IF calls[n].name \in tools THEN Append(g[n - 1], calls[n])
                          ELSE g[n - 1]]
           F == CHOOSE g : g = Body(g)
           step == [x \in (1 .. N) \X V |->
                       IF calls[x[1]].name \in tools THEN Append(x[2], calls[x[1]]) ELSE x[2]]
<1>1. N \in Nat /\ \A n \in 1 .. N : calls[n] \in Call
  OBVIOUS
<1>2. step \in [(1 .. N) \X V -> V]
  BY <1>1
<1>3. \A n \in 1 .. N : \A x \in V :
        step[<<n, x>>] = IF calls[n].name \in tools THEN Append(x, calls[n]) ELSE x
  OBVIOUS
<1>4. <<>> \in V
  OBVIOUS
<1>5. ActionRequests(calls, tools) = F[N]
  BY DEF ActionRequests
<1> HIDE DEF step, N, V
<1>6. PICK f : IsLoop(f, N, V, <<>>, step)
  BY <1>1, <1>2, <1>4, LoopExists
<1>7. ASSUME NEW n \in 1 .. N
      PROVE  f[n] = IF calls[n].name \in tools THEN Append(f[n - 1], calls[n]) ELSE f[n - 1]
  <2>1. n - 1 \in 0 .. N
    BY <1>1
  <2> QED
    BY <1>3, <1>6, <2>1 DEF IsLoop
<1>8. f = Body(f)
  <2>1. f = [n \in 0 .. N |-> f[n]]
    BY <1>6 DEF IsLoop
  <2>2. ASSUME NEW n \in 0 .. N PROVE f[n] = Body(f)[n]
    <3>1. CASE n = 0
      BY <1>6, <3>1 DEF IsLoop
    <3>2. CASE n \in 1 .. N
      <4>1. Body(f)[n] =
              IF calls[n].name \in tools THEN Append(f[n - 1], calls[n]) ELSE f[n - 1]
        BY <1>1, <3>2
      <4> QED
        BY <1>7, <3>2, <4>1
    <3> QED
      BY <1>1, <3>1, <3>2
  <2>3. Body(f) = [n \in 0 .. N |-> Body(f)[n]]
    OBVIOUS
  <2> QED
    BY <2>1, <2>2, <2>3
<1>9. F = Body(F)
  BY <1>8
<1> HIDE DEF F
<1>10. F[0] = <<>>
  BY <1>1, <1>9
<1>11. ASSUME NEW n \in 1 .. N
       PROVE  F[n] = IF calls[n].name \in tools THEN Append(F[n - 1], calls[n]) ELSE F[n - 1]
  <2>1. n \in 0 .. N /\ n # 0
    BY <1>1
  <2>2. Body(F)[n] = IF calls[n].name \in tools THEN Append(F[n - 1], calls[n]) ELSE F[n - 1]
    BY <2>1
  <2> QED
    BY <1>9, <2>2
<1>12. \A n \in 0 .. N : F[n] \in V
  <2>1. \A n \in 1 .. N : F[n - 1] \in V => F[n] = step[<<n, F[n - 1]>>]
    BY <1>3, <1>11
  <2> QED
    BY <1>1, <1>2, <1>10, <2>1, Collected DEF V
<1> QED
  BY <1>5, <1>10, <1>11, <1>12 DEF N, V, Requesting

\* What _pair_action_requests has paired, call by call.
Matches(pairs, call, requests) ==
    Len(pairs) < Len(requests) /\ call.name = requests[Len(pairs) + 1].name

LEMMA PairsLoop ==
    ASSUME NEW calls \in Seq(Call), NEW requests
    PROVE  \E g : /\ g[0] = <<>>
                  /\ \A n \in 0 .. Len(calls) : g[n] \in Seq(CallIds)
                  /\ \A n \in 1 .. Len(calls) :
                       g[n] = IF Matches(g[n - 1], calls[n], requests)
                                THEN Append(g[n - 1], calls[n].id) ELSE g[n - 1]
                  /\ Pairs(calls, requests) = g[Len(calls)]
<1> DEFINE N == Len(calls)
           V == Seq(CallIds)
           Body(g) == [n \in 0 .. N |->
                          IF n = 0 THEN <<>>
                          ELSE IF Matches(g[n - 1], calls[n], requests)
                            THEN Append(g[n - 1], calls[n].id)
                            ELSE g[n - 1]]
           G == CHOOSE g : g = Body(g)
           step == [x \in (1 .. N) \X V |->
                       IF Matches(x[2], calls[x[1]], requests)
                         THEN Append(x[2], calls[x[1]].id) ELSE x[2]]
<1>1. N \in Nat /\ \A n \in 1 .. N : calls[n].id \in CallIds
  <2>1. N \in Nat /\ \A n \in 1 .. N : calls[n] \in Call
    OBVIOUS
  <2> QED
    BY <2>1 DEF Call
<1>2. step \in [(1 .. N) \X V -> V]
  BY <1>1
<1>3. \A n \in 1 .. N : \A x \in V :
        step[<<n, x>>] = IF Matches(x, calls[n], requests) THEN Append(x, calls[n].id) ELSE x
  OBVIOUS
<1>4. <<>> \in V
  OBVIOUS
<1>5. Pairs(calls, requests) = G[N]
  BY DEF Pairs, Matches
<1> HIDE DEF step, N, V
<1>6. PICK g : IsLoop(g, N, V, <<>>, step)
  BY <1>1, <1>2, <1>4, LoopExists
<1>7. ASSUME NEW n \in 1 .. N
      PROVE  g[n] = IF Matches(g[n - 1], calls[n], requests)
                      THEN Append(g[n - 1], calls[n].id) ELSE g[n - 1]
  <2>1. n - 1 \in 0 .. N
    BY <1>1
  <2> QED
    BY <1>3, <1>6, <2>1 DEF IsLoop
<1>8. g = Body(g)
  <2>1. g = [n \in 0 .. N |-> g[n]]
    BY <1>6 DEF IsLoop
  <2>2. ASSUME NEW n \in 0 .. N PROVE g[n] = Body(g)[n]
    <3>1. CASE n = 0
      BY <1>6, <3>1 DEF IsLoop
    <3>2. CASE n \in 1 .. N
      <4>1. Body(g)[n] = IF Matches(g[n - 1], calls[n], requests)
                           THEN Append(g[n - 1], calls[n].id) ELSE g[n - 1]
        BY <1>1, <3>2
      <4> QED
        BY <1>7, <3>2, <4>1
    <3> QED
      BY <1>1, <3>1, <3>2
  <2>3. Body(g) = [n \in 0 .. N |-> Body(g)[n]]
    OBVIOUS
  <2> QED
    BY <2>1, <2>2, <2>3
<1>9. G = Body(G)
  BY <1>8
<1> HIDE DEF G
<1>10. G[0] = <<>>
  BY <1>1, <1>9
<1>11. ASSUME NEW n \in 1 .. N
       PROVE  G[n] = IF Matches(G[n - 1], calls[n], requests)
                       THEN Append(G[n - 1], calls[n].id) ELSE G[n - 1]
  <2>1. n \in 0 .. N /\ n # 0
    BY <1>1
  <2>2. Body(G)[n] = IF Matches(G[n - 1], calls[n], requests)
                       THEN Append(G[n - 1], calls[n].id) ELSE G[n - 1]
    BY <2>1
  <2> QED
    BY <1>9, <2>2
<1>12. \A n \in 0 .. N : G[n] \in V
  <2>1. \A n \in 1 .. N : G[n - 1] \in V => G[n] = step[<<n, G[n - 1]>>]
    BY <1>3, <1>11
  <2> QED
    BY <1>1, <1>2, <1>10, <2>1, Collected DEF V
<1> QED
  BY <1>5, <1>10, <1>11, <1>12 DEF N, V

\* The list grows at its end.
Growing(f, N) ==
    \A n \in 0 .. N : /\ Len(f[n]) <= Len(f[N])
                      /\ \A k \in 1 .. Len(f[n]) : f[N][k] = f[n][k]

\* The requests are about the calls of the named tools, once each.
AboutCalls(requests, calls, tools) ==
    /\ \A k \in 1 .. Len(requests) :
         \E i \in 1 .. Len(calls) : requests[k] = calls[i] /\ calls[i].name \in tools
    /\ \A i \in 1 .. Len(calls) : calls[i].name \in tools =>
         \E k \in 1 .. Len(requests) : requests[k] = calls[i]
    /\ \A k, l \in 1 .. Len(requests) : requests[k].id = requests[l].id => k = l

LEMMA RequestsAre ==
    ASSUME NEW calls \in Seq(Call), Distinct(calls), NEW tools, NEW f,
           Requesting(f, calls, tools)
    PROVE  Growing(f, Len(calls)) /\ AboutCalls(f[Len(calls)], calls, tools)
<1> DEFINE N == Len(calls)
<1> DEFINE Holds(m) ==
             /\ \A n \in 0 .. m : /\ Len(f[n]) <= Len(f[m])
                                  /\ \A k \in 1 .. Len(f[n]) : f[m][k] = f[n][k]
             /\ \A k \in 1 .. Len(f[m]) :
                  \E i \in 1 .. m : f[m][k] = calls[i] /\ calls[i].name \in tools
             /\ \A i \in 1 .. m : calls[i].name \in tools =>
                  \E k \in 1 .. Len(f[m]) : f[m][k] = calls[i]
             /\ \A k, l \in 1 .. Len(f[m]) : f[m][k].id = f[m][l].id => k = l
           S == {m \in Nat : m <= N => Holds(m)}
<1>0. /\ f[0] = <<>>
      /\ \A n \in 0 .. N : f[n] \in Seq(Call)
      /\ \A n \in 1 .. N :
           f[n] = IF calls[n].name \in tools THEN Append(f[n - 1], calls[n]) ELSE f[n - 1]
  BY DEF Requesting
<1>1. 0 \in S
  <2>1. Len(f[0]) = 0
    BY <1>0
  <2> QED
    BY <2>1
<1>2. ASSUME NEW m \in Nat, m + 1 <= N, Holds(m) PROVE Holds(m + 1)
  <2>1. m \in 0 .. N /\ m + 1 \in 0 .. N /\ m + 1 \in 1 .. N /\ (m + 1) - 1 = m
    BY <1>2
  <2>2. f[m] \in Seq(Call) /\ calls[m + 1] \in Call
    BY <1>0, <2>1
  <2>3. f[m + 1] = IF calls[m + 1].name \in tools THEN Append(f[m], calls[m + 1]) ELSE f[m]
    BY <1>0, <2>1
  <2>4. CASE calls[m + 1].name \notin tools
    <3>1. f[m + 1] = f[m] /\ Len(f[m]) \in Nat
      BY <2>2, <2>3, <2>4
    <3>2. ASSUME NEW n \in 0 .. m + 1
          PROVE  /\ Len(f[n]) <= Len(f[m + 1])
                 /\ \A k \in 1 .. Len(f[n]) : f[m + 1][k] = f[n][k]
      <4>1. CASE n = m + 1
        BY <3>1, <4>1
      <4>2. CASE n \in 0 .. m
        BY <1>2, <3>1, <4>2
      <4> QED
        BY <4>1, <4>2
    <3>3. \A k \in 1 .. Len(f[m + 1]) :
            \E i \in 1 .. m + 1 : f[m + 1][k] = calls[i] /\ calls[i].name \in tools
      <4>1. ASSUME NEW k \in 1 .. Len(f[m])
            PROVE  \E i \in 1 .. m + 1 : f[m][k] = calls[i] /\ calls[i].name \in tools
        <5>1. PICK i \in 1 .. m : f[m][k] = calls[i] /\ calls[i].name \in tools
          BY <1>2
        <5>2. i \in 1 .. m + 1
          OBVIOUS
        <5> QED
          BY <5>1, <5>2
      <4> QED
        BY <3>1, <4>1
    <3>4. \A i \in 1 .. m + 1 : calls[i].name \in tools =>
            \E k \in 1 .. Len(f[m + 1]) : f[m + 1][k] = calls[i]
      <4>1. ASSUME NEW i \in 1 .. m + 1, calls[i].name \in tools PROVE i \in 1 .. m
        BY <2>4, <4>1
      <4> QED
        BY <1>2, <3>1, <4>1
    <3> QED
      BY <1>2, <3>1, <3>2, <3>3, <3>4
  <2>5. CASE calls[m + 1].name \in tools
    <3>1. /\ Len(f[m + 1]) = Len(f[m]) + 1 /\ Len(f[m]) \in Nat
          /\ \A k \in 1 .. Len(f[m]) : f[m + 1][k] = f[m][k]
          /\ f[m + 1][Len(f[m]) + 1] = calls[m + 1]
      BY <2>2, <2>3, <2>5
    <3>2. \A n \in 0 .. m + 1 : /\ Len(f[n]) <= Len(f[m + 1])
                                /\ \A k \in 1 .. Len(f[n]) : f[m + 1][k] = f[n][k]
      <4>1. ASSUME NEW n \in 0 .. m
            PROVE  /\ Len(f[n]) <= Len(f[m + 1])
                   /\ \A k \in 1 .. Len(f[n]) : f[m + 1][k] = f[n][k]
        <5>1. n \in 0 .. N /\ f[n] \in Seq(Call) /\ Len(f[n]) \in Nat
          BY <1>0, <2>1
        <5> QED
          BY <1>2, <3>1, <5>1
      <4> QED
        BY <3>1, <4>1
    <3>3. \A k \in 1 .. Len(f[m + 1]) :
            \E i \in 1 .. m + 1 : f[m + 1][k] = calls[i] /\ calls[i].name \in tools
      <4>1. ASSUME NEW k \in 1 .. Len(f[m])
            PROVE  \E i \in 1 .. m + 1 : f[m + 1][k] = calls[i] /\ calls[i].name \in tools
        <5>1. PICK i \in 1 .. m : f[m][k] = calls[i] /\ calls[i].name \in tools
          BY <1>2
        <5>2. i \in 1 .. m + 1 /\ f[m + 1][k] = f[m][k]
          BY <3>1
        <5> QED
          BY <5>1, <5>2
      <4>2. m + 1 \in 1 .. m + 1
        OBVIOUS
      <4>3. \A k \in 1 .. Len(f[m + 1]) : k \in 1 .. Len(f[m]) \/ f[m + 1][k] = calls[m + 1]
        BY <3>1
      <4> QED
        BY <2>5, <4>1, <4>2, <4>3
    <3>4. \A i \in 1 .. m + 1 : calls[i].name \in tools =>
            \E k \in 1 .. Len(f[m + 1]) : f[m + 1][k] = calls[i]
      <4>1. ASSUME NEW i \in 1 .. m, calls[i].name \in tools
            PROVE  \E k \in 1 .. Len(f[m + 1]) : f[m + 1][k] = calls[i]
        <5>1. PICK k \in 1 .. Len(f[m]) : f[m][k] = calls[i]
          BY <1>2, <4>1
        <5>2. k \in 1 .. Len(f[m + 1]) /\ f[m + 1][k] = f[m][k]
          BY <3>1
        <5> QED
          BY <5>1, <5>2
      <4>2. Len(f[m]) + 1 \in 1 .. Len(f[m + 1])
        BY <3>1
      <4>3. \A i \in 1 .. m + 1 : i \in 1 .. m \/ i = m + 1
        OBVIOUS
      <4> QED
        BY <3>1, <4>1, <4>2, <4>3
    <3>5. \A k \in 1 .. Len(f[m]) : f[m + 1][k].id # calls[m + 1].id
      <4>1. ASSUME NEW k \in 1 .. Len(f[m]), f[m + 1][k].id = calls[m + 1].id PROVE FALSE
        <5>1. PICK i \in 1 .. m : f[m][k] = calls[i]
          BY <1>2
        <5>2. calls[i].id = calls[m + 1].id /\ i \in DOMAIN calls /\ m + 1 \in DOMAIN calls
          BY <2>1, <3>1, <4>1, <5>1
        <5> QED
          BY <5>2 DEF Distinct
      <4> QED
        BY <4>1
    <3>6. \A k, l \in 1 .. Len(f[m + 1]) : f[m + 1][k].id = f[m + 1][l].id => k = l
      <4>1. \A k \in 1 .. Len(f[m + 1]) : k \in 1 .. Len(f[m]) \/ k = Len(f[m]) + 1
        BY <3>1
      <4>2. \A k, l \in 1 .. Len(f[m]) : f[m + 1][k].id = f[m + 1][l].id => k = l
        BY <1>2, <3>1
      <4> QED
        BY <3>1, <3>5, <4>1, <4>2
    <3> QED
      BY <3>2, <3>3, <3>4, <3>6
  <2> QED
    BY <2>4, <2>5
<1>3. S \in SUBSET Nat /\ \A m \in S : m + 1 \in S
  <2>1. \A m \in S : m + 1 <= N => m <= N
    OBVIOUS
  <2> HIDE DEF Holds
  <2> QED
    BY <1>2, <2>1
<1> HIDE DEF Holds
<1>4. N \in Nat /\ N <= N
  OBVIOUS
<1>5. N \in S
  <2> HIDE DEF S
  <2> QED
    BY <1>1, <1>3, <1>4, AllNat
<1>6. Holds(N)
  BY <1>4, <1>5
<1> QED
  BY <1>6 DEF Holds, Growing, AboutCalls

\* Each request is paired with the id of the call it was made for.
LEMMA PairsAre ==
    ASSUME NEW calls \in Seq(Call), Distinct(calls), NEW tools, NEW requests,
           requests = ActionRequests(calls, tools), NEW pairs, pairs = Pairs(calls, requests)
    PROVE  /\ requests \in Seq(Call) /\ pairs \in Seq(CallIds) /\ Len(pairs) = Len(requests)
           /\ \A k \in 1 .. Len(requests) : pairs[k] = requests[k].id
           /\ AboutCalls(requests, calls, tools)
<1> DEFINE N == Len(calls)
<1>0. PICK f : Requesting(f, calls, tools) /\ requests = f[N]
  BY RequestsLoop
<1>1. /\ f[0] = <<>>
      /\ \A n \in 0 .. N : f[n] \in Seq(Call)
      /\ \A n \in 1 .. N :
           f[n] = IF calls[n].name \in tools THEN Append(f[n - 1], calls[n]) ELSE f[n - 1]
      /\ requests = f[N]
  BY <1>0 DEF Requesting
<1>2. PICK g : /\ g[0] = <<>>
               /\ \A n \in 0 .. N : g[n] \in Seq(CallIds)
               /\ \A n \in 1 .. N :
                    g[n] = IF Matches(g[n - 1], calls[n], requests)
                             THEN Append(g[n - 1], calls[n].id) ELSE g[n - 1]
               /\ pairs = g[N]
  BY PairsLoop
<1>3. N \in Nat /\ N \in 0 .. N
  OBVIOUS
<1>11. Growing(f, N) /\ AboutCalls(requests, calls, tools)
  BY <1>0, RequestsAre
<1>4. /\ \A n \in 0 .. N : /\ Len(f[n]) <= Len(requests)
                           /\ \A k \in 1 .. Len(f[n]) : requests[k] = f[n][k]
      /\ \A k \in 1 .. Len(requests) : requests[k].name \in tools
  <2>1. \A n \in 0 .. N : /\ Len(f[n]) <= Len(requests)
                          /\ \A k \in 1 .. Len(f[n]) : requests[k] = f[n][k]
    BY <1>0, <1>11, Zenon DEF Growing
  <2>2. \A k \in 1 .. Len(requests) : requests[k].name \in tools
    BY <1>11 DEF AboutCalls
  <2> QED
    BY <2>1, <2>2
<1> DEFINE Holds(m) == /\ Len(g[m]) = Len(f[m])
                       /\ \A k \in 1 .. Len(f[m]) : g[m][k] = f[m][k].id
           S == {m \in Nat : m <= N => Holds(m)}
<1>5. 0 \in S
  <2>1. Len(f[0]) = 0 /\ Len(g[0]) = 0
    BY <1>1, <1>2
  <2> QED
    BY <2>1
<1>6. ASSUME NEW m \in Nat, m + 1 <= N, Holds(m) PROVE Holds(m + 1)
  <2>1. m \in 0 .. N /\ m + 1 \in 0 .. N /\ m + 1 \in 1 .. N /\ (m + 1) - 1 = m
    BY <1>3, <1>6
  <2>2. /\ f[m] \in Seq(Call) /\ g[m] \in Seq(CallIds)
        /\ calls[m + 1] \in Call /\ calls[m + 1].id \in CallIds
    <3>1. calls[m + 1] \in Call
      BY <2>1
    <3> QED
      BY <1>1, <1>2, <2>1, <3>1 DEF Call
  <2>3. /\ f[m + 1] = IF calls[m + 1].name \in tools THEN Append(f[m], calls[m + 1]) ELSE f[m]
        /\ g[m + 1] = IF Matches(g[m], calls[m + 1], requests)
                        THEN Append(g[m], calls[m + 1].id) ELSE g[m]
    BY <1>1, <1>2, <2>1
  <2>4. Len(f[m]) \in Nat /\ Len(g[m]) = Len(f[m]) /\ Len(requests) \in Nat
    <3>1. requests \in Seq(Call)
      BY <1>1, <1>3
    <3> QED
      BY <1>6, <2>2, <3>1
  <2>5. CASE calls[m + 1].name \in tools
    <3>1. f[m + 1] = Append(f[m], calls[m + 1])
      BY <2>3, <2>5
    <3>2. /\ Len(f[m + 1]) = Len(f[m]) + 1 /\ f[m + 1][Len(f[m]) + 1] = calls[m + 1]
          /\ \A k \in 1 .. Len(f[m]) : f[m + 1][k] = f[m][k]
      BY <2>2, <3>1
    <3>3. Len(f[m]) + 1 <= Len(requests) /\ requests[Len(f[m]) + 1] = calls[m + 1]
      <4>1. Len(f[m + 1]) <= Len(requests)
        BY <1>4, <2>1
      <4>2. \A k \in 1 .. Len(f[m + 1]) : requests[k] = f[m + 1][k]
        BY <1>4, <2>1
      <4>3. Len(f[m]) + 1 \in 1 .. Len(f[m + 1])
        BY <2>4, <3>2
      <4> QED
        BY <3>2, <4>1, <4>2, <4>3
    <3>4. Matches(g[m], calls[m + 1], requests)
      BY <2>4, <3>3 DEF Matches
    <3>5. g[m + 1] = Append(g[m], calls[m + 1].id)
      BY <2>3, <3>4
    <3>6. /\ Len(g[m + 1]) = Len(g[m]) + 1 /\ g[m + 1][Len(g[m]) + 1] = calls[m + 1].id
          /\ \A k \in 1 .. Len(g[m]) : g[m + 1][k] = g[m][k]
      BY <2>2, <3>5
    <3>7. ASSUME NEW k \in 1 .. Len(f[m + 1]) PROVE g[m + 1][k] = f[m + 1][k].id
      <4>1. CASE k = Len(f[m]) + 1
        BY <2>4, <3>2, <3>6, <4>1
      <4>2. CASE k \in 1 .. Len(f[m])
        BY <1>6, <2>4, <3>2, <3>6, <4>2
      <4> QED
        BY <2>4, <3>2, <4>1, <4>2
    <3> QED
      BY <2>4, <3>2, <3>6, <3>7
  <2>6. CASE calls[m + 1].name \notin tools
    <3>1. ~Matches(g[m], calls[m + 1], requests)
      <4> SUFFICES ASSUME Len(f[m]) < Len(requests),
                          calls[m + 1].name = requests[Len(f[m]) + 1].name
                   PROVE  FALSE
        BY <2>4 DEF Matches
      <4>1. Len(f[m]) + 1 \in 1 .. Len(requests)
        BY <2>4
      <4>2. requests[Len(f[m]) + 1].name \in tools
        BY <1>4, <4>1
      <4> QED
        BY <2>6, <4>2
    <3>2. f[m + 1] = f[m] /\ g[m + 1] = g[m]
      BY <2>3, <2>6, <3>1
    <3> QED
      BY <1>6, <3>2
  <2> QED
    BY <2>5, <2>6
<1>7. S \in SUBSET Nat /\ \A m \in S : m + 1 \in S
  <2>1. \A m \in S : m + 1 <= N => m <= N
    BY <1>3
  <2> HIDE DEF Holds
  <2> QED
    BY <1>6, <2>1
<1> HIDE DEF Holds
<1>8. N \in S
  <2> HIDE DEF S
  <2> QED
    BY <1>3, <1>5, <1>7, AllNat
<1>9. Len(pairs) = Len(requests) /\ \A k \in 1 .. Len(requests) : pairs[k] = requests[k].id
  BY <1>1, <1>2, <1>3, <1>8 DEF Holds
<1>10. requests \in Seq(Call) /\ pairs \in Seq(CallIds)
  BY <1>1, <1>2, <1>3
<1> QED
  BY <1>11, <1>9, <1>10

Decision == [id : CallIds, action : Actions]

\* The pairs of the last decisions about the calls.
Wanted(decisions) ==
    LET last == {i \in DOMAIN decisions :
                   \A j \in DOMAIN decisions : j > i => decisions[j].id # decisions[i].id}
    IN  {<<decisions[i].id, decisions[i].action>> : i \in last}

LEMMA LastDecisionIs ==
    ASSUME NEW decisions \in Seq(Decision)
    PROVE  /\ \A id \in Decided(decisions) :
                <<id, LastDecision(decisions, id)>> \in Wanted(decisions)
           /\ \A w \in Wanted(decisions) : \E id \in Decided(decisions) :
                w = <<id, LastDecision(decisions, id)>>
<1> DEFINE about(id) == {i \in DOMAIN decisions : decisions[i].id = id}
<1>1. PICK N \in Nat : DOMAIN decisions = 1 .. N
  OBVIOUS
<1>2. ASSUME NEW id, about(id) # {}
      PROVE  Max(about(id)) \in about(id) /\ \A j \in about(id) : j <= Max(about(id))
  <2>1. about(id) \in SUBSET (0 .. N)
    BY <1>1
  <2> HIDE DEF about
  <2> QED
    BY <1>2, <2>1, MaxIs
<1>3. \A id : LastDecision(decisions, id) = decisions[Max(about(id))].action
  BY DEF LastDecision
<1>4. ASSUME NEW id \in Decided(decisions)
      PROVE  <<id, LastDecision(decisions, id)>> \in Wanted(decisions)
  <2>1. PICK i : i = Max(about(id))
    OBVIOUS
  <2>2. about(id) # {}
    BY DEF Decided
  <2>3. i \in about(id) /\ \A j \in about(id) : j <= i
    BY <1>2, <2>1, <2>2
  <2>4. /\ i \in DOMAIN decisions /\ decisions[i].id = id
        /\ \A j \in DOMAIN decisions : j > i => decisions[j].id # decisions[i].id
    BY <1>1, <2>3
  <2>5. LastDecision(decisions, id) = decisions[i].action
    BY <1>3, <2>1
  <2> QED
    BY <2>4, <2>5 DEF Wanted
<1>5. ASSUME NEW w \in Wanted(decisions)
      PROVE  \E id \in Decided(decisions) : w = <<id, LastDecision(decisions, id)>>
  <2>1. PICK i \in DOMAIN decisions :
          /\ w = <<decisions[i].id, decisions[i].action>>
          /\ \A j \in DOMAIN decisions : j > i => decisions[j].id # decisions[i].id
    BY DEF Wanted
  <2>2. PICK id : id = decisions[i].id
    OBVIOUS
  <2>3. PICK m : m = Max(about(id))
    OBVIOUS
  <2>4. i \in about(id)
    BY <2>2
  <2>5. m \in about(id) /\ i <= m
    BY <1>2, <2>3, <2>4
  <2>6. m = i
    BY <1>1, <2>1, <2>2, <2>5
  <2>7. w = <<id, LastDecision(decisions, id)>>
    BY <1>3, <2>1, <2>2, <2>3, <2>6
  <2> QED
    BY <2>2, <2>7 DEF Decided
<1> QED
  BY <1>4, <1>5

\* As many calls as pairs, because the ids of one message differ.
LEMMA AsManyPairs ==
    ASSUME NEW n \in Nat, NEW pairs \in [1 .. n -> CallIds],
           \A k, l \in 1 .. n : pairs[k] = pairs[l] => k = l
    PROVE  /\ IsFiniteSet(Range(pairs)) /\ Cardinality(Range(pairs)) = n
           /\ \A D \in SUBSET Range(pairs) :
                /\ Cardinality(D) \in Nat /\ Cardinality(D) <= n
                /\ Cardinality(D) = n => D = Range(pairs)
<1>1. Range(pairs) = {pairs[k] : k \in 1 .. n}
  BY DEF Range
<1>2. pairs \in Bijection(1 .. n, Range(pairs))
  BY <1>1 DEF Bijection, Injection, Surjection, IsInjective
<1>3. IsFiniteSet(1 .. n) /\ Cardinality(1 .. n) = n
  BY FS_Interval
<1>4. IsFiniteSet(Range(pairs)) /\ Cardinality(Range(pairs)) = n
  BY <1>2, <1>3, FS_Bijection DEF ExistsBijection
<1>5. ASSUME NEW D \in SUBSET Range(pairs)
      PROVE  /\ Cardinality(D) \in Nat /\ Cardinality(D) <= n
             /\ Cardinality(D) = n => D = Range(pairs)
  BY <1>4, FS_Subset, FS_CardinalityType
<1> QED
  BY <1>4, <1>5

Interrupt ==
    [messages : Seq(Seq(Call)), interruptOn : SUBSET Tools, decisions : Seq(Decision)]

LEMMA LastCallsAre ==
    ASSUME NEW messages \in Seq(Seq(Call)), \A m \in DOMAIN messages : Distinct(messages[m])
    PROVE  LastCalls(messages) \in Seq(Call) /\ Distinct(LastCalls(messages))
<1> DEFINE having == {i \in DOMAIN messages : messages[i] # <<>>}
<1>1. PICK N \in Nat : DOMAIN messages = 1 .. N
  OBVIOUS
<1>2. CASE having = {}
  <2>1. LastCalls(messages) = <<>>
    BY <1>2 DEF LastCalls
  <2> QED
    BY <2>1 DEF Distinct
<1>3. CASE having # {}
  <2>1. LastCalls(messages) = messages[Max(having)]
    BY <1>3 DEF LastCalls
  <2>2. having \in SUBSET (0 .. N)
    BY <1>1
  <2>3. Max(having) \in having
    <3> HIDE DEF having
    <3> QED
      BY <1>3, <2>2, MaxIs
  <2> QED
    BY <2>1, <2>3
<1> QED
  BY <1>2, <1>3

LEMMA DecisionsReach ==
    ASSUME NEW turn \in Interrupt, \A m \in DOMAIN turn.messages : Distinct(turn.messages[m])
    PROVE  DecisionsReachCalls(turn, ResumeInput(turn))
<1>1. PICK calls : calls = LastCalls(turn.messages)
  OBVIOUS
<1>2. PICK tools : tools = turn.interruptOn
  OBVIOUS
<1>3. PICK made : made = turn.decisions
  OBVIOUS
<1>4. calls \in Seq(Call) /\ Distinct(calls) /\ made \in Seq(Decision)
  BY <1>1, <1>3, LastCallsAre DEF Interrupt
<1>5. PICK requests : requests = ActionRequests(calls, tools)
  OBVIOUS
<1>6. PICK pairs : pairs = Pairs(calls, requests)
  OBVIOUS
<1>7. PICK out : out = ResumeInput(turn)
  OBVIOUS
<1>8. /\ requests \in Seq(Call) /\ pairs \in Seq(CallIds) /\ Len(pairs) = Len(requests)
      /\ \A k \in 1 .. Len(requests) : pairs[k] = requests[k].id
      /\ AboutCalls(requests, calls, tools)
  BY <1>4, <1>5, <1>6, PairsAre
<1>9. out = IF requests = <<>> THEN Refused("no_pending_interrupt")
            ELSE ResumeDecisions(pairs, made)
  BY <1>1, <1>2, <1>3, <1>5, <1>6, <1>7, <1>8 DEF ResumeInput
<1> DEFINE n == Len(requests)
           asked == {calls[i].id : i \in {j \in DOMAIN calls : calls[j].name \in tools}}
           resume == [i \in DOMAIN pairs |-> LastDecision(made, pairs[i])]
<1>10. /\ n \in Nat /\ pairs \in [1 .. n -> CallIds] /\ DOMAIN pairs = 1 .. n
       /\ \A k, l \in 1 .. n : pairs[k] = pairs[l] => k = l
  <2>1. n \in Nat /\ DOMAIN pairs = 1 .. n
    BY <1>8
  <2>2. pairs \in [1 .. n -> CallIds]
    BY <1>8
  <2>3. ASSUME NEW k \in 1 .. n, NEW l \in 1 .. n, pairs[k] = pairs[l] PROVE k = l
    <3>1. requests[k].id = requests[l].id
      BY <1>8, <2>3
    <3> QED
      BY <1>8, <3>1 DEF AboutCalls
  <2> QED
    BY <2>1, <2>2, <2>3
<1>11. asked = Range(pairs)
  <2>1. ASSUME NEW k \in 1 .. n PROVE pairs[k] \in asked
    <3>1. PICK i \in 1 .. Len(calls) : requests[k] = calls[i] /\ calls[i].name \in tools
      BY <1>8 DEF AboutCalls
    <3>2. i \in DOMAIN calls /\ pairs[k] = calls[i].id
      BY <1>4, <1>8, <3>1
    <3> QED
      BY <3>1, <3>2
  <2>2. ASSUME NEW i \in DOMAIN calls, calls[i].name \in tools
        PROVE  \E k \in 1 .. n : pairs[k] = calls[i].id
    <3>1. PICK k \in 1 .. n : requests[k] = calls[i]
      BY <1>4, <1>8, <2>2 DEF AboutCalls
    <3> QED
      BY <1>8, <3>1
  <2>3. Range(pairs) = {pairs[k] : k \in 1 .. n}
    BY <1>10 DEF Range
  <2> HIDE DEF n
  <2>4. asked \subseteq Range(pairs)
    BY <2>2, <2>3
  <2> QED
    BY <2>1, <2>3, <2>4
<1>12. /\ IsFiniteSet(asked) /\ Cardinality(asked) = n
       /\ \A D \in SUBSET asked : /\ Cardinality(D) \in Nat /\ Cardinality(D) <= n
                                  /\ Cardinality(D) = n => D = asked
  BY <1>10, <1>11, AsManyPairs
<1> HIDE DEF asked, n
<1>13. asked = {} <=> requests = <<>>
  <2>1. Range(pairs) = {pairs[k] : k \in 1 .. n}
    BY <1>10 DEF Range
  <2>2. requests = <<>> <=> n = 0
    BY <1>8 DEF n
  <2>3. n # 0 => 1 \in 1 .. n
    BY <1>10
  <2> QED
    BY <1>10, <1>11, <2>1, <2>2, <2>3
<1>14. CASE asked # {} /\ Decided(made) = asked
  <2>1. ResumeDecisions(pairs, made) =
          [error |-> "none", resume |-> resume,
           trace |-> [i \in DOMAIN pairs |-> <<pairs[i], LastDecision(made, pairs[i])>>]]
    BY <1>8, <1>10, <1>11, <1>12, <1>14 DEF ResumeDecisions, n
  <2>2. /\ out.error = "none" /\ out.resume = resume
        /\ out.trace = [i \in DOMAIN pairs |-> <<pairs[i], LastDecision(made, pairs[i])>>]
    BY <1>9, <1>13, <1>14, <2>1
  <2>3. {<<pairs[i], LastDecision(made, pairs[i])>> : i \in 1 .. n} = Wanted(made)
    <3>1. \A w \in Wanted(made) : \E i \in 1 .. n : w = <<pairs[i], LastDecision(made, pairs[i])>>
      BY <1>4, <1>10, <1>11, <1>14, LastDecisionIs DEF Range
    <3>2. \A i \in 1 .. n : pairs[i] \in Decided(made)
      BY <1>10, <1>11, <1>14 DEF Range
    <3> QED
      BY <1>4, <3>1, <3>2, LastDecisionIs
  <2>4. Range(out.trace) = Wanted(made)
    BY <1>10, <2>2, <2>3 DEF Range
  <2>5. Applied(turn, out.resume) = {<<requests[i].id, resume[i]>> : i \in DOMAIN resume}
    BY <1>1, <1>2, <1>5, <2>2 DEF Applied
  <2>6. {<<requests[i].id, resume[i]>> : i \in DOMAIN resume} = Wanted(made)
    <3>1. DOMAIN resume = 1 .. n
          /\ \A i \in 1 .. n : <<requests[i].id, resume[i]>> = <<pairs[i], LastDecision(made, pairs[i])>>
      BY <1>8, <1>10 DEF n
    <3> QED
      BY <2>3, <3>1
  <2> QED
    BY <1>1, <1>2, <1>3, <1>7, <1>14, <2>2, <2>4, <2>5, <2>6
    DEF DecisionsReachCalls, Wanted, asked
<1>15. CASE ~(asked # {} /\ Decided(made) = asked)
  <2>1. requests = <<>> \/ ~(Decided(made) \subseteq Range(pairs))
        \/ Cardinality(Decided(made)) < Len(pairs)
    BY <1>8, <1>11, <1>12, <1>13, <1>15 DEF n
  <2>2. out.error # "none"
    BY <1>9, <2>1 DEF Refused, ResumeDecisions
  <2> QED
    BY <1>1, <1>2, <1>3, <1>7, <1>15, <2>2 DEF DecisionsReachCalls, asked
<1> QED
  BY <1>14, <1>15

HitlInv ==
    /\ part = "hitl" => given \in Interrupts
    /\ DecisionsReachTheirCalls

\* For any calls and decisions, repeated tools and repeated decisions
\* included, a resume gives each interrupted call the decision made for it, or
\* is refused because one is missing or about no call
\* (deepagent/adapter.py:584-741).
THEOREM DecisionsArrive == ConversionsSpec => []DecisionsReachTheirCalls
<1>1. ConversionsInit => HitlInv
  BY DEF ConversionsInit, HitlInv, DecisionsReachTheirCalls
<1>2. ASSUME HitlInv, [ConversionsNext]_conversionVars PROVE HitlInv'
  <2>1. CASE UNCHANGED conversionVars
    BY <1>2, <2>1 DEF conversionVars, HitlInv, DecisionsReachTheirCalls
  <2>2. CASE LoadTools \/ LoadDocument
    BY <2>2 DEF LoadTools, LoadDocument, Evaluate, HitlInv, DecisionsReachTheirCalls
  <2>3. CASE Resume
    <3>1. part = "hitl" /\ part' = part /\ given' = given /\ given \in Interrupts
      BY <1>2, <2>3 DEF Resume, Evaluate, HitlInv
    <3>2. got' = ResumeInput(given)
      BY <2>3 DEF Resume, Evaluate
    <3>3. given \in Interrupt /\ \A m \in DOMAIN given.messages : Distinct(given.messages[m])
      BY <3>1, ConversionsAssumption DEF Interrupt, Call, Decision, Distinct
    <3>4. DecisionsReachCalls(given, got')
      BY <3>2, <3>3, DecisionsReach
    <3>5. DecisionsReachCalls(given, got)'
      BY <3>1, <3>4
    <3> QED
      BY <3>1, <3>5 DEF HitlInv, DecisionsReachTheirCalls
  <2> QED
    BY <1>2, <2>1, <2>2, <2>3 DEF ConversionsNext
<1> QED
  BY <1>1, <1>2, PTL DEF ConversionsSpec, HitlInv

=============================================================================
