--------------------------- MODULE PaymentSinkProofs ---------------------------
(***************************************************************************)
(* Theorems about the reference sink, whatever calls its callers make, in  *)
(* whatever order.                                                         *)
(***************************************************************************)
EXTENDS PaymentSink, SequenceTheorems, TLAPS

Calls == Submissions \cup Bypasses

SinkTypes ==
    /\ commits \in Seq({k.commit : k \in Calls})
    /\ \A id \in DOMAIN uses : uses[id] \in Nat

\* Both entries mark the key of what they store.
KeysSeen == \A i \in DOMAIN commits : commits[i].idempotency_key \in seen

SinkInv == SinkTypes /\ KeysSeen /\ GuardedLedger

\* The report on the n-th use of k's authorization at commit c.
UseReport(k, c, n) ==
    ValidateAuthorization(k.authorization, c, At(Epochs, c.committed_at), IssuerSecret,
                          n, k.token)

CoveredRow(c) ==
    \E k \in Submissions :
        /\ k.commit = c
        /\ k.authorization # None
        /\ \E n \in 1..UseCount(k.authorization.authorization_id) :
            IsValid(UseReport(k, c, n))

-----------------------------------------------------------------------------

\* No sequence of calls takes back a use.
LEMMA UsesGrow ==
    ASSUME SinkTypes, NEW id, RecordUse(id)
    PROVE  /\ \A a \in DOMAIN uses' : uses'[a] \in Nat
           /\ \A a : UseCount(a) \in Nat /\ UseCount(a)' \in Nat /\ UseCount(a) <= UseCount(a)'
           /\ UseCount(id)' = UseCount(id) + 1
<1>1. \A a : UseCount(a) \in Nat
  BY DEF SinkTypes, UseCount
<1>2. /\ DOMAIN uses' = DOMAIN uses \cup {id}
      /\ uses'[id] = UseCount(id) + 1
      /\ \A a \in DOMAIN uses \ {id} : uses'[a] = uses[a]
  BY DEF RecordUse
<1>3. \A a \in DOMAIN uses' : uses'[a] \in Nat
  BY <1>1, <1>2 DEF SinkTypes
<1>4. UseCount(id)' = UseCount(id) + 1
  BY <1>2 DEF UseCount
<1>5. \A a : a # id => UseCount(a)' = UseCount(a)
  BY <1>2 DEF UseCount
<1> QED
  BY <1>1, <1>3, <1>4, <1>5

\* A report without an authorization is a mismatch.
LEMMA NothingIsNotValid ==
    ASSUME NEW c, NEW state, NEW n, NEW token
    PROVE  ~ IsValid(ValidateAuthorization(None, c, state, IssuerSecret, n, token))
BY DEF ValidateAuthorization, IsValid, Mismatches

\* A row stays covered when no use is taken back.
LEMMA CoverLasts ==
    ASSUME NEW c, CoveredRow(c),
           \A a : UseCount(a) \in Nat /\ UseCount(a)' \in Nat /\ UseCount(a) <= UseCount(a)'
    PROVE  CoveredRow(c)'
<1>1. PICK k \in Submissions :
        /\ k.commit = c /\ k.authorization # None
        /\ \E n \in 1..UseCount(k.authorization.authorization_id) : IsValid(UseReport(k, c, n))
  BY DEF CoveredRow
<1>2. PICK n \in 1..UseCount(k.authorization.authorization_id) : IsValid(UseReport(k, c, n))
  BY <1>1
<1>3. n \in 1..UseCount(k.authorization.authorization_id)'
  <2> DEFINE u == UseCount(k.authorization.authorization_id)
  <2>1. u \in Nat /\ u' \in Nat /\ u <= u'
    OBVIOUS
  <2> QED
    BY <1>2, <2>1
<1>4. IsValid(UseReport(k, c, n))'
  BY <1>2 DEF UseReport, ValidateAuthorization, IsValid, Mismatches, UndeterminedDimensions
<1> QED
  BY <1>1, <1>3, <1>4 DEF CoveredRow

\* Appending a row of one entry keeps the ledger's invariant, if the row of the
\* guarded entry is covered and its key is new.
LEMMA RowAppended ==
    ASSUME SinkInv, NEW k \in Calls, NEW c, c = k.commit,
           commits' = Append(commits, c),
           seen' = seen \cup {c.idempotency_key},
           \A a \in DOMAIN uses' : uses'[a] \in Nat,
           \A a : UseCount(a) \in Nat /\ UseCount(a)' \in Nat /\ UseCount(a) <= UseCount(a)',
           Guarded(c) => c.idempotency_key \notin seen /\ CoveredRow(c)'
    PROVE  SinkInv'
<1> DEFINE Rows == {l.commit : l \in Calls}
           n == Len(commits)
<1>1. c \in Rows /\ commits \in Seq(Rows)
  BY DEF SinkInv, SinkTypes
<1>2. /\ commits' \in Seq(Rows) /\ DOMAIN commits' = 1..(n + 1) /\ n \in Nat
      /\ DOMAIN commits = 1..n
      /\ commits'[n + 1] = c
      /\ \A i \in 1..n : commits'[i] = commits[i]
  BY <1>1
<1>3. SinkTypes'
  BY <1>2 DEF SinkTypes
<1>4. KeysSeen'
  BY <1>2 DEF SinkInv, KeysSeen
<1>5. \A x : Guarded(x)' <=> Guarded(x)
  BY DEF Guarded
<1>6. GuardedRowsCovered'
  <2> SUFFICES ASSUME NEW i \in DOMAIN commits', NEW row, row = commits'[i], Guarded(row)
               PROVE  CoveredRow(row)'
    BY <1>5 DEF GuardedRowsCovered, CoveredRow, UseReport
  <2>1. CASE i = n + 1
    BY <1>2, <2>1
  <2>2. CASE i \in 1..n
    <3>1. row = commits[i]
      BY <1>2, <2>2
    <3>2. CoveredRow(row)
      BY <1>2, <2>2, <3>1 DEF SinkInv, GuardedLedger, GuardedRowsCovered, CoveredRow, UseReport
    <3> QED
      BY <3>2, CoverLasts
  <2> QED
    BY <1>2, <2>1, <2>2
<1>7. GuardedKeysOnce'
  <2> SUFFICES ASSUME NEW i \in DOMAIN commits', NEW j \in DOMAIN commits',
                      Guarded(commits'[i]), Guarded(commits'[j]),
                      commits'[i].idempotency_key = commits'[j].idempotency_key
               PROVE  i = j
    BY <1>5 DEF GuardedKeysOnce
  <2>1. \A l \in 1..n : commits[l].idempotency_key \in seen
    BY <1>2 DEF SinkInv, KeysSeen
  <2>2. CASE i \in 1..n /\ j \in 1..n
    BY <1>2, <2>2 DEF SinkInv, GuardedLedger, GuardedKeysOnce
  <2>3. CASE i = n + 1 \/ j = n + 1
    BY <1>2, <2>1, <2>3
  <2> QED
    BY <1>2, <2>2, <2>3
<1> QED
  BY <1>3, <1>4, <1>6, <1>7 DEF SinkInv, GuardedLedger

-----------------------------------------------------------------------------
(* One step of the sink                                                    *)

\* A refusal touches neither the ledger, the keys nor the uses.
LEMMA RefusalKeeps ==
    ASSUME SinkInv, UNCHANGED <<commits, seen, uses>>
    PROVE  SinkInv'
BY DEF SinkInv, SinkTypes, KeysSeen, GuardedLedger, GuardedRowsCovered, GuardedKeysOnce,
       Guarded, UseCount

\* What the interlock admits is covered by the use it records.
LEMMA AdmitKeeps ==
    ASSUME SinkInv, NEW k \in Submissions, Admit(k.commit, k.authorization, k.token)
    PROVE  SinkInv'
<1> DEFINE c == k.commit
           id == k.authorization.authorization_id
<1>1. /\ c.idempotency_key \notin seen
      /\ IsValid(InterlockReport(c, k.authorization, k.token))
      /\ RecordUse(id)
      /\ seen' = seen \cup {c.idempotency_key}
      /\ commits' = Append(commits, c)
  BY DEF Admit, SinkCommit
<1>2. /\ \A a \in DOMAIN uses' : uses'[a] \in Nat
      /\ \A a : UseCount(a) \in Nat /\ UseCount(a)' \in Nat /\ UseCount(a) <= UseCount(a)'
      /\ UseCount(id)' = UseCount(id) + 1
  BY <1>1, UsesGrow DEF SinkInv
<1>3. k.authorization # None
  BY <1>1, NothingIsNotValid DEF InterlockReport
<1>4. IsValid(UseReport(k, c, UseCount(id) + 1))
  BY <1>1, <1>3 DEF InterlockReport, UseReport
<1>5. UseCount(id) + 1 \in 1..UseCount(id)'
  BY <1>2
<1>6. CoveredRow(c)'
  BY <1>3, <1>4, <1>5 DEF CoveredRow, UseReport
<1>7. k \in Calls
  BY DEF Calls
<1> HIDE DEF c, id
<1> QED
  BY <1>1, <1>2, <1>6, <1>7, RowAppended DEF c

\* What the unguarded entry stores is no row of submit.
LEMMA BypassKeeps ==
    ASSUME SinkInv, NEW k \in Bypasses, CommitUnguarded(k.commit)
    PROVE  SinkInv'
<1>1. ~ Guarded(k.commit)
  BY EntriesApart DEF SinkAssumption, Guarded
<1>2. \A a : UseCount(a) \in Nat
  BY DEF SinkInv, SinkTypes, UseCount
<1>3. /\ commits' = Append(commits, k.commit)
      /\ seen' = seen \cup {k.commit.idempotency_key}
      /\ uses' = uses
  BY DEF CommitUnguarded, SinkCommit
<1>4. \A a : UseCount(a)' = UseCount(a)
  BY <1>3 DEF UseCount
<1>5. /\ \A a \in DOMAIN uses' : uses'[a] \in Nat
      /\ \A a : UseCount(a) \in Nat /\ UseCount(a)' \in Nat /\ UseCount(a) <= UseCount(a)'
  BY <1>2, <1>3, <1>4 DEF SinkInv, SinkTypes
<1>6. k \in Calls
  BY DEF Calls
<1> QED
  BY <1>1, <1>3, <1>5, <1>6, RowAppended

\* submit keeps the invariant on each of its three paths.
LEMMA SubmitKeeps ==
    ASSUME SinkInv, NEW k \in Submissions, Submit(k.commit, k.authorization, k.token)
    PROVE  SinkInv'
<1>1. CASE RefuseReplay(k.commit)
  BY <1>1, RefusalKeeps DEF RefuseReplay, Refuse
<1>2. CASE RefuseUnbound(k.commit, k.authorization, k.token)
  BY <1>2, RefusalKeeps DEF RefuseUnbound, Refuse
<1>3. CASE Admit(k.commit, k.authorization, k.token)
  BY <1>3, AdmitKeeps
<1> QED
  BY <1>1, <1>2, <1>3 DEF Submit

\* A sink is made, and dropped, empty.
LEMMA EmptySink ==
    /\ NewSink => SinkInv
    /\ DropSink => SinkInv'
<1>1. ASSUME commits = <<>>, uses = [a \in {} |-> 0] PROVE SinkInv
  <2>1. DOMAIN commits = {} /\ DOMAIN uses = {} /\ commits \in Seq({k.commit : k \in Calls})
    BY <1>1
  <2> QED
    BY <2>1 DEF SinkInv, SinkTypes, KeysSeen, GuardedLedger, GuardedRowsCovered, GuardedKeysOnce
<1>2. ASSUME commits' = <<>>, uses' = [a \in {} |-> 0] PROVE SinkInv'
  <2>1. DOMAIN commits' = {} /\ DOMAIN uses' = {} /\ commits' \in Seq({k.commit : k \in Calls})
    BY <1>2
  <2> QED
    BY <2>1 DEF SinkInv, SinkTypes, KeysSeen, GuardedLedger, GuardedRowsCovered, GuardedKeysOnce
<1> QED
  BY <1>1, <1>2 DEF NewSink, DropSink

-----------------------------------------------------------------------------

\* Every call, of either entry, keeps the invariant of the sink.
LEMMA SinkStepKeeps == SinkInv /\ [SinkStep]_sinkVars => SinkInv'
<1> SUFFICES ASSUME SinkInv, [SinkStep]_sinkVars PROVE SinkInv'
  OBVIOUS
<1>1. ASSUME NEW k \in Submissions, Submit(k.commit, k.authorization, k.token)
      PROVE  SinkInv'
  BY <1>1, SubmitKeeps
<1>2. ASSUME NEW k \in Bypasses, CommitUnguarded(k.commit)
      PROVE  SinkInv'
  BY <1>2, BypassKeeps
<1>3. CASE UNCHANGED sinkVars
  BY <1>3, RefusalKeeps DEF sinkVars, ledgerVars
<1> QED
  BY <1>1, <1>2, <1>3 DEF SinkStep

\* For any calls, epochs and authorizations, and however the two entries are
\* mixed: a row that submit stored is covered by an authorization presented with
\* it, on one of its recorded uses, and no key is stored twice by submit.
THEOREM SinkKeepsItsLedger == SinkSpec => []GuardedLedger
<1>1. NewSink => SinkInv
  BY EmptySink
<1>2. SinkInv => GuardedLedger
  BY DEF SinkInv
<1> QED
  BY <1>1, <1>2, SinkStepKeeps, PTL DEF SinkSpec

=============================================================================
