--------------------------- MODULE LeasedPassProofs ---------------------------
(***************************************************************************)
(* Proofs about LeasedPass, for any passes, steps, graph and retry limit.  *)
(*                                                                         *)
(* No safety property of LeasedPass is inductive: that a charge is backed  *)
(* by a start needs every place a step's name travels through on its way   *)
(* to being charged (the row, the heartbeat in flight, the pass that       *)
(* threw) to hold only steps the lease holder started, and that a start is *)
(* backed by an unsettled memo needs the holder's book to be current.      *)
(* IInv conjoins those facts.                                              *)
(*                                                                         *)
(* What a step may never do, and that LeasedPass implements DurableJob,    *)
(* follow at the end.  There the fence does the work, which every write of *)
(* a pass takes the row under.  For the job every step of a worker, of     *)
(* time or of another writer is a step of it or leaves it as it is, which  *)
(* needs the steps begun under a lease to be ready by the memo itself and  *)
(* not only by the book they were started from, because there the job sees *)
(* them settle.                                                            *)
(***************************************************************************)
EXTENDS LeasedPass, TLAPS, SequenceTheorems

(* No step is in the sequence twice.                                       *)
NoDup(seq) ==
    \A i, j \in DOMAIN seq : seq[i] = seq[j] => i = j

(* A memo row is failed exactly once its failures are past the limit.      *)
MemoOK ==
    \A s \in Steps :
        IF memo[s].status = "failed"
          THEN memo[s].failures = STEP_RETRY_LIMIT + 1
          ELSE memo[s].failures <= STEP_RETRY_LIMIT

(* A pass runs a step at most once at a time, none before its body, and    *)
(* Terminal while the answer of its terminal write is on the way.          *)
WellRun(x) ==
    /\ NoDup(x.running)
    /\ x.at \in {"idle", "opening", "loading"} => x.running = <<>>
    /\ x.at = "ending" => Terminal \in Range(x.running)

PassOK == \A p \in Passes : WellRun(pass[p])

(* A step's charges leave room for the try under way, and whatever may     *)
(* charge a step names one the lease holder started.                       *)
LedgerOK ==
    /\ \A s \in Steps :
          memo[s].failures + (IF s \in begun THEN 1 ELSE 0) <= tried[s]
    /\ row.running \in begun \cup {NoStep}
    /\ \A p \in Passes : Holds(p) =>
          /\ Range(pass[p].running) \subseteq begun
          /\ pass[p].threw \in begun \cup {NoStep}
          /\ pass[p].beat \in begun \cup {NoStep, NoBeat}

(* The inductive invariant.                                                *)
IInv == TypeOK /\ MemoOK /\ PassOK /\ LedgerOK /\ OwnerBookCurrent

----------------------------------------------------------------------------
(* PassState.runningSteps: the steps a pass runs, oldest first.            *)

(* A pass that runs nothing runs nothing twice.                            *)
LEMMA EmptyRunning ==
    Range(<<>>) = {} /\ NoDup(<<>>)
BY DEF Range, NoDup

(* The oldest running step, which a heartbeat records, is a running one.   *)
LEMMA HeadInRange ==
    ASSUME NEW S, NEW seq \in Seq(S), seq # <<>>
    PROVE  Head(seq) \in Range(seq)
BY DEF Range

(* stepRan adds the step it starts, and that one alone.                    *)
LEMMA AppendRunning ==
    ASSUME NEW S, NEW seq \in Seq(S), NEW e \in S
    PROVE  /\ Append(seq, e) \in Seq(S)
           /\ Range(Append(seq, e)) = Range(seq) \cup {e}
           /\ NoDup(seq) /\ e \notin Range(seq) => NoDup(Append(seq, e))
<1>1. Append(seq, e) \in Seq(S)
  OBVIOUS
<1>2. /\ DOMAIN Append(seq, e) = 1..(Len(seq) + 1)
      /\ DOMAIN seq = 1..Len(seq)
      /\ Len(seq) \in Nat
      /\ \A i \in 1..Len(seq) : Append(seq, e)[i] = seq[i]
      /\ Append(seq, e)[Len(seq) + 1] = e
  OBVIOUS
<1>3. Range(Append(seq, e)) = Range(seq) \cup {e}
  BY <1>2 DEF Range
<1>4. NoDup(seq) /\ e \notin Range(seq) => NoDup(Append(seq, e))
  BY <1>2 DEF NoDup, Range
<1> QED
  BY <1>1, <1>3, <1>4

(* What splicing one element out of a sequence leaves, place by place.     *)
LEMMA RemoveAtFacts ==
    ASSUME NEW S, NEW seq \in Seq(S), NEW n \in Nat, n = Len(seq),
           NEW i \in 1..n
    PROVE  /\ RemoveAt(seq, i) \in Seq(S)
           /\ DOMAIN RemoveAt(seq, i) = 1..(n - 1)
           /\ \A k \in 1..(n - 1) :
                 RemoveAt(seq, i)[k] = IF k < i THEN seq[k] ELSE seq[k + 1]
<1> DEFINE front == SubSeq(seq, 1, i - 1)
           back  == SubSeq(seq, i + 1, n)
<1>1. /\ front \in Seq(S)
      /\ Len(front) = i - 1
      /\ \A k \in 1..(i - 1) : front[k] = seq[k]
  <2>1. /\ \A k \in 1..(i - 1) : seq[k] \in S
        /\ i - 1 \in Int
    OBVIOUS
  <2> QED
    BY <2>1, SubSeqProperties
<1>2. /\ back \in Seq(S)
      /\ Len(back) = n - i
      /\ \A k \in 1..(n - i) : back[k] = seq[i + k]
  <2>1. /\ \A k \in (i + 1)..n : seq[k] \in S
        /\ i + 1 \in Int
        /\ n \in Int
    OBVIOUS
  <2>2. /\ back \in Seq(S)
        /\ Len(back) = IF i + 1 <= n THEN n - (i + 1) + 1 ELSE 0
        /\ \A k \in 1..(n - (i + 1) + 1) : back[k] = seq[(i + 1) + k - 1]
    BY <2>1, SubSeqProperties
  <2> HIDE DEF back
  <2>3. Len(back) = n - i
    BY <2>2
  <2>4. ASSUME NEW k \in 1..(n - i) PROVE back[k] = seq[i + k]
    <3>1. k \in 1..(n - (i + 1) + 1) /\ (i + 1) + k - 1 = i + k
      OBVIOUS
    <3> QED
      BY <2>2, <3>1
  <2> QED
    BY <2>2, <2>3, <2>4
<1>3. RemoveAt(seq, i) = front \o back
  BY DEF RemoveAt
<1> HIDE DEF front, back
<1>4. /\ front \o back \in Seq(S)
      /\ Len(front \o back) = n - 1
      /\ \A k \in 1..(n - 1) :
            (front \o back)[k] =
              IF k <= i - 1 THEN front[k] ELSE back[k - (i - 1)]
  <2>1. /\ front \o back \in Seq(S)
        /\ Len(front \o back) = Len(front) + Len(back)
        /\ \A k \in 1..(Len(front) + Len(back)) :
              (front \o back)[k] =
                IF k <= Len(front) THEN front[k] ELSE back[k - Len(front)]
    BY <1>1, <1>2, ConcatProperties
  <2>2. Len(front) + Len(back) = n - 1
    BY <1>1, <1>2
  <2> QED
    BY <1>1, <2>1, <2>2
<1>5. ASSUME NEW k \in 1..(n - 1)
      PROVE  (front \o back)[k] = IF k < i THEN seq[k] ELSE seq[k + 1]
  <2>1. CASE k < i
    BY <1>1, <1>4, <2>1
  <2>2. CASE ~(k < i)
    <3>1. /\ k - (i - 1) \in 1..(n - i)
          /\ i + (k - (i - 1)) = k + 1
          /\ ~(k <= i - 1)
      BY <2>2
    <3> QED
      BY <1>2, <1>4, <2>2, <3>1
  <2> QED
    BY <2>1, <2>2
<1> QED
  BY <1>3, <1>4, <1>5

(* Splicing out the place indexOf finds takes that element and no other.   *)
LEMMA RemoveRunning ==
    ASSUME NEW S, NEW seq \in Seq(S), NEW e \in Range(seq), NoDup(seq)
    PROVE  LET rest == RemoveAt(seq, CHOOSE i \in DOMAIN seq : seq[i] = e)
           IN  /\ rest \in Seq(S)
               /\ Range(rest) = Range(seq) \ {e}
               /\ NoDup(rest)
<1> DEFINE at == CHOOSE i \in DOMAIN seq : seq[i] = e
<1>1. PICK n \in Nat : n = Len(seq) /\ DOMAIN seq = 1..n
  OBVIOUS
<1>2. at \in 1..n /\ seq[at] = e
  <2>1. \E i \in DOMAIN seq : seq[i] = e
    BY DEF Range
  <2> QED
    BY <1>1, <2>1
<1> HIDE DEF at
<1> DEFINE rest == RemoveAt(seq, at)
           from(k) == IF k < at THEN k ELSE k + 1
<1>3. /\ rest \in Seq(S)
      /\ DOMAIN rest = 1..(n - 1)
      /\ \A k \in 1..(n - 1) : rest[k] = IF k < at THEN seq[k] ELSE seq[k + 1]
  BY <1>1, <1>2, RemoveAtFacts
<1> HIDE DEF rest
<1>4. \A k \in 1..(n - 1) :
         from(k) \in DOMAIN seq /\ from(k) # at /\ rest[k] = seq[from(k)]
  BY <1>1, <1>2, <1>3
<1>5. \A j, k \in 1..(n - 1) : from(j) = from(k) => j = k
  BY <1>2
<1>6. \A m \in DOMAIN seq : m # at => \E k \in 1..(n - 1) : from(k) = m
  <2> SUFFICES ASSUME NEW m \in 1..n, m # at
               PROVE  \E k \in 1..(n - 1) : from(k) = m
    BY <1>1
  <2>1. CASE m < at
    <3>1. m \in 1..(n - 1) /\ from(m) = m
      BY <1>2, <2>1
    <3> QED
      BY <3>1
  <2>2. CASE m > at
    <3>1. m - 1 \in 1..(n - 1) /\ from(m - 1) = m
      BY <1>2, <2>2
    <3> QED
      BY <3>1
  <2> QED
    BY <1>2, <2>1, <2>2
<1> HIDE DEF from
<1>7. NoDup(rest)
  BY <1>3, <1>4, <1>5 DEF NoDup
<1>8. ASSUME NEW x \in Range(rest) PROVE x \in Range(seq) /\ x # e
  <2>1. PICK k \in 1..(n - 1) : x = rest[k]
    BY <1>3 DEF Range
  <2> QED
    BY <1>1, <1>2, <1>4, <2>1 DEF NoDup, Range
<1>9. ASSUME NEW x \in Range(seq), x # e PROVE x \in Range(rest)
  <2>1. PICK m \in DOMAIN seq : x = seq[m]
    BY DEF Range
  <2>2. PICK k \in 1..(n - 1) : from(k) = m
    BY <1>2, <1>6, <1>9, <2>1
  <2> QED
    BY <1>3, <1>4, <2>1, <2>2 DEF Range
<1> QED
  BY <1>3, <1>7, <1>8, <1>9 DEF rest, at

(* stepFinished leaves the other running steps, each once.                 *)
LEMMA FinishedFacts ==
    ASSUME TypeOK, PassOK, NEW p \in Passes, NEW s \in Steps, IsRunning(p, s)
    PROVE  /\ Finished(p, s) \in Seq(Steps)
           /\ Range(Finished(p, s)) = Range(pass[p].running) \ {s}
           /\ NoDup(Finished(p, s))
<1>1. /\ pass[p].running \in Seq(Steps)
      /\ NoDup(pass[p].running)
      /\ s \in Range(pass[p].running)
  BY DEF TypeOK, PassOK, WellRun, IsRunning
<1> QED
  BY <1>1, RemoveRunning DEF Finished

----------------------------------------------------------------------------
(* Typing.                                                                 *)

(* countStepFailure counts at most one failure, fails a step exactly past  *)
(* the limit, and leaves a settled row as it is.                           *)
LEMMA CountStepFailureFacts ==
    ASSUME NEW m \in [status : MemoStatus, failures : 0..(STEP_RETRY_LIMIT + 1)],
           IF m.status = "failed" THEN m.failures = STEP_RETRY_LIMIT + 1
                                  ELSE m.failures <= STEP_RETRY_LIMIT
    PROVE  LET c == CountStepFailure(m)
           IN  /\ c \in [status : MemoStatus,
                          failures : 0..(STEP_RETRY_LIMIT + 1)]
               /\ IF c.status = "failed" THEN c.failures = STEP_RETRY_LIMIT + 1
                                         ELSE c.failures <= STEP_RETRY_LIMIT
               /\ c.failures <= m.failures + 1
               /\ IsFinal(m.status) => c = m
BY RetryLimitAssumption DEF CountStepFailure, IsFinal, MemoStatus

(* A pass is a record of these fields.                                     *)
PassRecord == [at      : Phases,
               attempt : Nat,
               book    : [Steps -> MemoStatus],
               running : Seq(Steps),
               threw   : Steps \cup {NoStep},
               beat    : Steps \cup {NoStep, NoBeat}]

(* A schedule row is a record of these fields, and a memo row of those     *)
(* below.                                                                  *)
RowRecord == [state   : {"queued", "leased", "gone"},
              wake    : {"due", "later"},
              owner   : Passes \cup {NoPass},
              lease   : {"live", "expired"},
              attempt : Nat,
              running : Steps \cup {NoStep}]

MemoRecord == [status : MemoStatus, failures : 0..(STEP_RETRY_LIMIT + 1)]

(* An empty slot is a pass that runs, charges and renews nothing.          *)
LEMMA IdlePassFacts ==
    /\ IdlePass \in PassRecord
    /\ WellRun(IdlePass)
    /\ IdlePass.at = "idle"
    /\ IdlePass.running = <<>>
    /\ IdlePass.threw = NoStep
    /\ IdlePass.beat = NoBeat
BY EmptyRunning DEF IdlePass, PassRecord, Phases, MemoStatus, WellRun

(* A cleared memo, which a new run and an ended one have, counts nothing.  *)
LEMMA NoMemosFacts ==
    /\ NoMemos \in [Steps -> MemoRecord]
    /\ \A s \in Steps : /\ NoMemos[s].failures = 0
                        /\ NoMemos[s].status = "none"
BY RetryLimitAssumption DEF NoMemos, NoMemo, MemoRecord, MemoStatus

----------------------------------------------------------------------------
(* The invariant holds of a run that was just admitted.                    *)
LEMMA InitInv == Init => IInv
<1> SUFFICES ASSUME Init PROVE IInv
  OBVIOUS
<1> USE IdlePassFacts, NoMemosFacts DEF Init
<1>1. TypeOK
  BY FaultsAssumption
  DEF TypeOK, PassRecord, InitRow, MemoRecord, Steps
<1>2. MemoOK
  BY RetryLimitAssumption DEF MemoOK
<1>3. PassOK
  BY DEF PassOK
<1>4. LedgerOK
  BY DEF LedgerOK, Holds, InitRow
<1>5. OwnerBookCurrent
  BY DEF OwnerBookCurrent, Holds, InitRow
<1> QED
  BY <1>1, <1>2, <1>3, <1>4, <1>5 DEF IInv

----------------------------------------------------------------------------
(* A step that changes one pass and nothing it shares with the others: the *)
(* pass runs no new step, and what it may charge is what it ran, or what   *)
(* it could charge before.                                                 *)
LEMMA PassOnlyInv ==
    ASSUME IInv, NEW p \in Passes, NEW new \in PassRecord,
           pass' = [pass EXCEPT ![p] = new],
           UNCHANGED <<row, memo, subject, tried, begun>>,
           faults' \in 0..MaxFaults,
           Range(new.running) \subseteq Range(pass[p].running),
           WellRun(new),
           new.threw \in Range(pass[p].running) \cup {pass[p].threw, NoStep},
           new.beat \in Range(pass[p].running)
                           \cup {pass[p].beat, NoStep, NoBeat},
           new.at = "running" =>
              \/ pass[p].at = "running" /\ new.book = pass[p].book
              \/ /\ new.running = <<>>
                 /\ new.book = [s \in Steps |-> memo[s].status]
    PROVE  IInv'
<1> USE DEF IInv
<1>0. /\ pass \in [Passes -> PassRecord]
      /\ pass'[p] = new
      /\ \A q \in Passes \ {p} : pass'[q] = pass[q]
      /\ \A q \in Passes : Holds(q)' <=> Holds(q)
  BY DEF TypeOK, PassRecord, Holds
<1>1. TypeOK'
  BY DEF TypeOK, PassRecord
<1>2. MemoOK'
  BY DEF MemoOK
<1>3. PassOK'
  BY <1>0 DEF PassOK
<1>4. LedgerOK'
  BY <1>0 DEF LedgerOK
<1>5. OwnerBookCurrent'
  <2> SUFFICES ASSUME NEW q \in Passes, Holds(q), pass'[q].at = "running"
               PROVE  /\ \A s \in Steps :
                            IsFinal(memo[s].status) \/ IsFinal(pass'[q].book[s])
                              => memo[s].status = pass'[q].book[s]
                      /\ \A s \in Steps :
                            s \in Range(pass'[q].running)
                              => ~IsFinal(memo[s].status)
    BY <1>0 DEF OwnerBookCurrent, IsRunning
  <2>1. CASE q # p
    BY <1>0, <2>1 DEF OwnerBookCurrent, IsRunning
  <2>2. CASE q = p
    <3>1. CASE pass[p].at = "running" /\ new.book = pass[p].book
      BY <1>0, <2>2, <3>1 DEF OwnerBookCurrent, IsRunning
    <3>2. CASE /\ new.running = <<>>
               /\ new.book = [s \in Steps |-> memo[s].status]
      BY <1>0, <2>2, <3>2, EmptyRunning
    <3> QED
      BY <1>0, <2>2, <3>1, <3>2
  <2> QED
    BY <2>1, <2>2
<1> QED
  BY <1>1, <1>2, <1>3, <1>4, <1>5

(* A pass that leaves, with or without an answer, leaves an empty slot.    *)
LEMMA LeaveInv ==
    ASSUME IInv, NEW p \in Passes, Leave(p),
           UNCHANGED <<row, memo, subject, tried, begun>>,
           faults' \in 0..MaxFaults
    PROVE  IInv'
BY PassOnlyInv, IdlePassFacts, EmptyRunning DEF Leave

(* A terminal write, a pass's own or another writer's, deletes the row, so *)
(* no pass holds the lease afterwards.                                     *)
LEMMA EndSubjectInv ==
    ASSUME IInv, NEW as \in {"completed", "failed", "canceled"},
           EndSubject(as),
           pass' \in [Passes -> PassRecord],
           \A q \in Passes : WellRun(pass'[q])
    PROVE  IInv'
<1> USE NoMemosFacts DEF IInv, EndSubject
<1>0. \A q \in Passes : ~Holds(q)'
  BY DEF Holds, InitRow
<1>1. TypeOK'
  BY DEF TypeOK, PassRecord, InitRow, MemoRecord
<1>2. MemoOK'
  BY RetryLimitAssumption DEF MemoOK
<1>3. PassOK'
  BY DEF PassOK
<1>4. LedgerOK'
  <2>1. \A s \in Steps : tried[s] \in Nat
    BY DEF TypeOK
  <2> QED
    BY <1>0, <2>1 DEF LedgerOK, InitRow
<1>5. OwnerBookCurrent'
  BY <1>0 DEF OwnerBookCurrent
<1> QED
  BY <1>1, <1>2, <1>3, <1>4, <1>5

(* The pass ends its run failed, or is refused by the fence.               *)
LEMMA EndFailedInv ==
    ASSUME IInv, NEW p \in Passes, EndFailed(p)
    PROVE  IInv'
<1>1. CASE Holds(p) /\ EndSubject("failed")
  <2>1. /\ pass' \in [Passes -> PassRecord]
        /\ \A q \in Passes : pass'[q] = IF q = p THEN IdlePass ELSE pass[q]
    BY IdlePassFacts DEF EndFailed, Leave, IInv, TypeOK, PassRecord
  <2>2. \A q \in Passes : WellRun(pass'[q])
    BY <2>1, IdlePassFacts DEF IInv, PassOK
  <2> QED
    BY <1>1, <2>1, <2>2, EndSubjectInv
<1>2. CASE UNCHANGED <<row, memo, subject, tried, begun, faults>>
  BY <1>2, LeaveInv DEF EndFailed, IInv, TypeOK
<1> QED
  BY <1>1, <1>2 DEF EndFailed

(* A memo on which one failure of s was counted, while the ledger had room *)
(* for it: the ledger no longer needs a start of s that is under way.      *)
LEMMA CountedMemo ==
    ASSUME IInv, NEW s \in begun,
           memo' = [memo EXCEPT ![s] = CountStepFailure(@)],
           UNCHANGED tried
    PROVE  /\ memo' \in [Steps -> MemoRecord]
           /\ MemoOK'
           /\ \A t \in Steps : memo'[t].failures <= tried[t]
<1> USE DEF IInv
<1>1. /\ s \in Steps
      /\ memo \in [Steps -> MemoRecord]
      /\ \A t \in Steps : tried[t] \in Nat /\ memo[t].failures \in Nat
  BY RetryLimitAssumption DEF TypeOK, MemoRecord
<1>2. /\ \A t \in Steps : memo[t].failures <= tried[t]
      /\ memo[s].failures + 1 <= tried[s]
  BY <1>1 DEF LedgerOK
<1>3. /\ memo'[s] = CountStepFailure(memo[s])
      /\ \A t \in Steps \ {s} : memo'[t] = memo[t]
  BY <1>1
<1>4. /\ memo'[s] \in MemoRecord
      /\ IF memo'[s].status = "failed"
           THEN memo'[s].failures = STEP_RETRY_LIMIT + 1
           ELSE memo'[s].failures <= STEP_RETRY_LIMIT
      /\ memo'[s].failures <= memo[s].failures + 1
  BY <1>1, <1>3, CountStepFailureFacts DEF MemoOK, MemoRecord
<1>5. memo' \in [Steps -> MemoRecord]
  BY <1>1, <1>4
<1>6. MemoOK'
  BY <1>3, <1>4 DEF MemoOK
<1>7. \A t \in Steps : memo'[t].failures <= tried[t]
  <2>1. memo'[s].failures \in Nat
    BY <1>4, RetryLimitAssumption DEF MemoRecord
  <2>2. memo'[s].failures <= tried[s]
    BY <1>1, <1>2, <1>4, <2>1
  <2> QED
    BY <1>2, <1>3, <2>2
<1> QED
  BY <1>5, <1>6, <1>7

(* A release hands the row back to no owner, and counts a failure only on  *)
(* a step the holder started, or on none.                                  *)
LEMMA ReleaseInv ==
    ASSUME IInv, NEW p \in Passes,
           NEW step \in Steps \cup {NoStep}, NEW released \in RowRecord,
           Release(p, step, released),
           Holds(p) => step \in begun \cup {NoStep},
           Holds(p) => released.owner = NoPass /\ released.running = NoStep,
           faults' \in 0..MaxFaults
    PROVE  IInv'
<1>1. CASE ~Holds(p)
  BY <1>1, LeaveInv DEF Release
<1>2. CASE Holds(p)
  <2> USE DEF IInv
  <2>0. /\ \A q \in Passes : ~Holds(q)'
        /\ \A q \in Passes : pass'[q] = IF q = p THEN IdlePass ELSE pass[q]
        /\ pass' \in [Passes -> PassRecord]
        /\ \A t \in Steps : tried[t] \in Nat
        /\ \A t \in Steps : memo[t].failures \in Nat
    BY <1>2, IdlePassFacts, PassesAssumption, RetryLimitAssumption
    DEF Release, Leave, Holds, TypeOK, PassRecord
  <2>1. /\ memo' \in [Steps -> MemoRecord]
        /\ MemoOK'
        /\ \A t \in Steps : memo'[t].failures <= tried[t]
    <3>1. CASE step = NoStep
      <4>1. memo' = memo
        BY <1>2, <3>1 DEF Release
      <4>2. \A t \in Steps : memo[t].failures <= tried[t]
        BY <2>0 DEF LedgerOK
      <4> QED
        BY <4>1, <4>2 DEF TypeOK, MemoOK, MemoRecord
    <3>2. CASE step # NoStep
      BY <1>2, <3>2, CountedMemo DEF Release
    <3> QED
      BY <3>1, <3>2
  <2>2. TypeOK'
    BY <1>2, <2>0, <2>1
    DEF Release, TypeOK, PassRecord, RowRecord, MemoRecord
  <2>3. PassOK'
    BY <2>0, IdlePassFacts DEF PassOK
  <2>4. LedgerOK'
    <3>1. begun' = {} /\ tried' = tried /\ row'.running = NoStep
      BY <1>2 DEF Release
    <3>2. \A t \in Steps : memo'[t].failures \in Nat
      BY <2>1, RetryLimitAssumption DEF MemoRecord
    <3> QED
      BY <2>0, <2>1, <3>1, <3>2 DEF LedgerOK
  <2>5. OwnerBookCurrent'
    BY <2>0 DEF OwnerBookCurrent
  <2> QED
    BY <2>1, <2>2, <2>3, <2>4, <2>5
<1> QED
  BY <1>1, <1>2

(* A claim sweeps an expired lease onto the step its row recorded, which   *)
(* the holder of that lease had started, and gives the row to a pass that  *)
(* runs nothing yet.                                                       *)
LEMMA ClaimInv ==
    ASSUME IInv, NEW p \in Passes, Claim(p)
    PROVE  IInv'
<1> DEFINE new == [IdlePass EXCEPT !.at = "opening",
                                   !.attempt = ClaimAttempt(row)]
<1> USE DEF IInv
<1>1. /\ row \in RowRecord
      /\ ClaimAttempt(row) \in Nat
      /\ SweptStep(row) \in begun \cup {NoStep}
      /\ \A t \in Steps : tried[t] \in Nat /\ memo[t].failures \in Nat
  BY RetryLimitAssumption
  DEF TypeOK, RowRecord, ClaimAttempt, SweptStep, LedgerOK
<1>2. /\ new \in PassRecord
      /\ new.at = "opening"
      /\ new.running = <<>>
      /\ new.threw = NoStep
      /\ new.beat = NoBeat
  BY <1>1, IdlePassFacts DEF IdlePass, PassRecord, Phases
<1> HIDE DEF new
<1>3. /\ pass' \in [Passes -> PassRecord]
      /\ \A q \in Passes : pass'[q] = IF q = p THEN new ELSE pass[q]
  BY <1>2 DEF Claim, new, TypeOK, PassRecord
<1>4. /\ row' \in RowRecord
      /\ row'.running = NoStep
      /\ \A q \in Passes : Holds(q)' => q = p
  BY <1>1 DEF Claim, RowRecord, Holds
<1>5. /\ memo' \in [Steps -> MemoRecord]
      /\ MemoOK'
      /\ \A t \in Steps : memo'[t].failures <= tried[t]
  <2>1. CASE SweptStep(row) = NoStep
    <3>1. memo' = memo
      BY <2>1 DEF Claim
    <3>2. \A t \in Steps : memo[t].failures <= tried[t]
      BY <1>1 DEF LedgerOK
    <3> QED
      BY <3>1, <3>2 DEF TypeOK, MemoOK, MemoRecord
  <2>2. CASE SweptStep(row) # NoStep
    BY <1>1, <2>2, CountedMemo DEF Claim
  <2> QED
    BY <2>1, <2>2
<1>6. TypeOK'
  BY <1>3, <1>4, <1>5 DEF Claim, TypeOK, PassRecord, RowRecord, MemoRecord
<1>7. PassOK'
  BY <1>2, <1>3, EmptyRunning DEF PassOK, WellRun
<1>8. LedgerOK'
  <2>1. begun' = {} /\ tried' = tried
    BY DEF Claim
  <2>2. \A t \in Steps : memo'[t].failures \in Nat
    BY <1>5, RetryLimitAssumption DEF MemoRecord
  <2> QED
    BY <1>1, <1>2, <1>3, <1>4, <1>5, <2>1, <2>2, EmptyRunning DEF LedgerOK
<1>9. OwnerBookCurrent'
  BY <1>2, <1>3, <1>4 DEF OwnerBookCurrent
<1> QED
  BY <1>5, <1>6, <1>7, <1>8, <1>9

(* A step starts only when the book has no settled row for it, and the     *)
(* holder's book is current, so its failures leave room for one more try.  *)
LEMMA StepStartInv ==
    ASSUME IInv, NEW p \in Passes, NEW s \in Steps, StepStart(p, s)
    PROVE  IInv'
<1> DEFINE new == [pass[p] EXCEPT !.running = Append(@, s)]
<1> USE DEF IInv
<1>1. /\ pass \in [Passes -> PassRecord]
      /\ pass[p].running \in Seq(Steps)
      /\ s \notin Range(pass[p].running)
      /\ pass[p].at = "running"
  BY DEF TypeOK, PassRecord, StepStart, IsRunning
<1>2. /\ Append(pass[p].running, s) \in Seq(Steps)
      /\ Range(Append(pass[p].running, s)) = Range(pass[p].running) \cup {s}
      /\ NoDup(Append(pass[p].running, s))
  BY <1>1, AppendRunning DEF PassOK, WellRun
<1>3. /\ new \in PassRecord
      /\ new.at = "running"
      /\ new.book = pass[p].book
      /\ new.threw = pass[p].threw
      /\ new.beat = pass[p].beat
      /\ new.running = Append(pass[p].running, s)
  BY <1>1, <1>2 DEF PassRecord
<1>4. pass' = [pass EXCEPT ![p] = new]
  BY <1>1 DEF StepStart, PassRecord
<1> HIDE DEF new
<1>5. /\ pass' \in [Passes -> PassRecord]
      /\ pass'[p] = new
      /\ \A q \in Passes \ {p} : pass'[q] = pass[q]
      /\ \A q \in Passes : Holds(q)' <=> Holds(q)
      /\ UNCHANGED <<row, memo, subject, faults>>
  BY <1>1, <1>3, <1>4 DEF StepStart, Holds
<1>6. /\ \A t \in Steps : tried[t] \in Nat /\ memo[t].failures \in Nat
      /\ tried' \in [Steps -> Nat]
      /\ begun' \in SUBSET Steps
      /\ begun \subseteq begun'
  <2>1. /\ \A t \in Steps : tried[t] \in Nat /\ memo[t].failures \in Nat
        /\ tried \in [Steps -> Nat]
        /\ begun \in SUBSET Steps
    BY RetryLimitAssumption DEF TypeOK
  <2>2. \/ tried' = tried
        \/ tried' = [tried EXCEPT ![s] =
                        IF @ > STEP_RETRY_LIMIT THEN @ ELSE @ + 1]
    BY DEF StepStart
  <2>3. tried' \in [Steps -> Nat]
    BY <2>1, <2>2
  <2>4. begun' \in SUBSET Steps /\ begun \subseteq begun'
    BY <2>1 DEF StepStart
  <2> QED
    BY <2>1, <2>3, <2>4
<1>7. Holds(p) => ~IsFinal(memo[s].status)
  <2>1. ~IsFinal(pass[p].book[s])
    BY DEF StepStart
  <2>2. Holds(p) =>
           (IsFinal(memo[s].status) => memo[s].status = pass[p].book[s])
    BY <1>1 DEF OwnerBookCurrent
  <2> QED
    BY <2>1, <2>2
<1>8. \A t \in Steps :
         memo[t].failures + (IF t \in begun' THEN 1 ELSE 0) <= tried'[t]
  <2>1. CASE ~Holds(p)
    BY <2>1 DEF StepStart, LedgerOK
  <2>2. CASE Holds(p)
    <3>1. /\ tried' = [tried EXCEPT ![s] =
                         IF @ > STEP_RETRY_LIMIT THEN @ ELSE @ + 1]
          /\ begun' = begun \cup {s}
      BY <2>2 DEF StepStart
    <3>2. /\ tried'[s] = IF tried[s] > STEP_RETRY_LIMIT
                           THEN tried[s] ELSE tried[s] + 1
          /\ \A t \in Steps \ {s} : tried'[t] = tried[t]
      BY <3>1 DEF TypeOK
    <3>3. memo[s].failures <= tried[s] /\ memo[s].failures <= STEP_RETRY_LIMIT
      BY <1>6, <1>7, <2>2 DEF LedgerOK, MemoOK, IsFinal
    <3>4. memo[s].failures + 1 <= tried'[s]
      BY <1>6, <3>2, <3>3, RetryLimitAssumption
    <3> QED
      BY <3>1, <3>2, <3>4 DEF LedgerOK
  <2> QED
    BY <2>1, <2>2
<1>9. TypeOK'
  BY <1>5, <1>6 DEF TypeOK, PassRecord
<1>10. MemoOK' /\ PassOK'
  BY <1>2, <1>3, <1>5 DEF MemoOK, PassOK, WellRun
<1>11. LedgerOK'
  <2>1. row'.running \in begun' \cup {NoStep}
    BY <1>5, <1>6 DEF LedgerOK
  <2>2. ASSUME NEW q \in Passes, Holds(q)
        PROVE  /\ Range(pass'[q].running) \subseteq begun'
               /\ pass'[q].threw \in begun' \cup {NoStep}
               /\ pass'[q].beat \in begun' \cup {NoStep, NoBeat}
    <3>1. q = p => s \in begun'
      BY <2>2 DEF StepStart
    <3> QED
      BY <1>2, <1>3, <1>5, <1>6, <2>2, <3>1 DEF LedgerOK
  <2> QED
    BY <1>5, <1>8, <2>1, <2>2 DEF LedgerOK
<1>12. OwnerBookCurrent'
  <2> SUFFICES ASSUME NEW q \in Passes, Holds(q), pass'[q].at = "running"
               PROVE  /\ \A t \in Steps :
                            IsFinal(memo[t].status) \/ IsFinal(pass'[q].book[t])
                              => memo[t].status = pass'[q].book[t]
                      /\ \A t \in Steps :
                            t \in Range(pass'[q].running)
                              => ~IsFinal(memo[t].status)
    BY <1>5 DEF OwnerBookCurrent, IsRunning
  <2>1. pass[q].at = "running" /\ pass'[q].book = pass[q].book
    BY <1>1, <1>3, <1>5
  <2>2. \A t \in Range(pass'[q].running) :
           t \in Range(pass[q].running) \/ (q = p /\ t = s)
    <3>1. CASE q = p
      <4>1. Range(pass'[q].running) = Range(pass[q].running) \cup {s}
        BY <1>2, <1>3, <1>5, <3>1
      <4> QED
        BY <3>1, <4>1
    <3>2. CASE q # p
      BY <1>5, <3>2
    <3> QED
      BY <3>1, <3>2
  <2>3. \A t \in Steps :
           IsFinal(memo[t].status) \/ IsFinal(pass'[q].book[t])
             => memo[t].status = pass'[q].book[t]
    BY <2>1 DEF OwnerBookCurrent
  <2>4. \A t \in Steps :
           t \in Range(pass[q].running) => ~IsFinal(memo[t].status)
    BY <2>1 DEF OwnerBookCurrent, IsRunning
  <2> QED
    BY <1>7, <2>2, <2>3, <2>4
<1> QED
  BY <1>9, <1>10, <1>11, <1>12

(* A stop or the end of a step in a pass, which writes nothing: the step   *)
(* leaves the running ones, and it alone may become the one that threw.    *)
LEMMA StepEndsInv ==
    ASSUME IInv, NEW p \in Passes, NEW s \in Steps, IsRunning(p, s),
           NEW at \in {"threw", "lost", "ended"},
           NEW threw \in {s, pass[p].threw},
           pass' = [pass EXCEPT ![p] = [pass[p] EXCEPT
                      !.running = Finished(p, s), !.at = at, !.threw = threw]],
           UNCHANGED <<row, memo, subject, tried, begun, faults>>
    PROVE  IInv'
<1> DEFINE new == [pass[p] EXCEPT
                     !.running = Finished(p, s), !.at = at, !.threw = threw]
<1>1. /\ pass[p] \in PassRecord
      /\ Finished(p, s) \in Seq(Steps)
      /\ Range(Finished(p, s)) \subseteq Range(pass[p].running)
      /\ NoDup(Finished(p, s))
      /\ s \in Range(pass[p].running)
  BY FinishedFacts DEF IInv, TypeOK, PassRecord, IsRunning
<1>2. /\ new \in PassRecord
      /\ new.at = at /\ new.threw = threw
      /\ new.running = Finished(p, s) /\ new.beat = pass[p].beat
  BY <1>1 DEF PassRecord, Phases
<1>3. pass' = [pass EXCEPT ![p] = new]
  OBVIOUS
<1>4. faults' \in 0..MaxFaults
  BY DEF IInv, TypeOK
<1> HIDE DEF new
<1>5. /\ Range(new.running) \subseteq Range(pass[p].running)
      /\ WellRun(new)
      /\ new.at # "running"
      /\ new.threw \in Range(pass[p].running) \cup {pass[p].threw, NoStep}
      /\ new.beat = pass[p].beat
  BY <1>1, <1>2 DEF WellRun
<1>6. UNCHANGED <<row, memo, subject, tried, begun>>
  OBVIOUS
<1> QED
  BY <1>2, <1>3, <1>4, <1>5, <1>6, PassOnlyInv

(* A returned step of the lease holder: its memo row settles and its book, *)
(* when the answer arrives, settles with it.                               *)
LEMMA StepReturnsInv ==
    ASSUME IInv, NEW p \in Passes, NEW s \in Steps, StepReturns(p, s),
           Holds(p)
    PROVE  IInv'
<1> USE DEF IInv
<1>1. /\ pass \in [Passes -> PassRecord]
      /\ memo \in [Steps -> MemoRecord]
      /\ row \in RowRecord
      /\ Finished(p, s) \in Seq(Steps)
      /\ Range(Finished(p, s)) = Range(pass[p].running) \ {s}
      /\ NoDup(Finished(p, s))
      /\ pass[p].at = "running"
      /\ s \in Range(pass[p].running)
  BY FinishedFacts
  DEF TypeOK, PassRecord, MemoRecord, RowRecord, StepReturns, IsRunning
<1>2. PICK new \in PassRecord :
         /\ pass' = [pass EXCEPT ![p] = new]
         /\ new.running = Finished(p, s)
         /\ new.beat = pass[p].beat
         /\ \/ /\ new.at = "running"
               /\ new.threw = pass[p].threw
               /\ new.book = [pass[p].book EXCEPT ![s] = "succeeded"]
            \/ new.at = "threw" /\ new.threw = s
  <2>1. CASE pass' = [pass EXCEPT ![p].running = Finished(p, s),
                                  ![p].book[s] = "succeeded"]
    <3> DEFINE new == [pass[p] EXCEPT !.running = Finished(p, s),
                         !.book = [pass[p].book EXCEPT ![s] = "succeeded"]]
    <3>1. pass' = [pass EXCEPT ![p] = new]
      BY <1>1, <2>1 DEF PassRecord
    <3>2. new \in PassRecord
      BY <1>1 DEF PassRecord, MemoStatus
    <3> QED
      BY <1>1, <3>1, <3>2 DEF PassRecord
  <2>2. CASE pass' = [pass EXCEPT ![p].running = Finished(p, s),
                                  ![p].at = "threw", ![p].threw = s]
    <3> DEFINE new == [pass[p] EXCEPT !.running = Finished(p, s),
                                      !.at = "threw", !.threw = s]
    <3>1. pass' = [pass EXCEPT ![p] = new]
      BY <1>1, <2>2 DEF PassRecord
    <3>2. new \in PassRecord
      BY <1>1 DEF PassRecord, Phases
    <3> QED
      BY <1>1, <3>1, <3>2 DEF PassRecord
  <2> QED
    BY <2>1, <2>2 DEF StepReturns
<1>3. /\ pass' \in [Passes -> PassRecord]
      /\ pass'[p] = new
      /\ \A q \in Passes \ {p} : pass'[q] = pass[q]
  BY <1>1, <1>2
<1>4. /\ row' \in RowRecord
      /\ row'.running \in {row.running, NoStep}
      /\ row'.state = row.state /\ row'.owner = row.owner
      /\ \A q \in Passes : Holds(q)' => q = p
  BY <1>1 DEF StepReturns, Holds, RowRecord, RunningAfterMemo
<1>5. ~IsFinal(memo[s].status)
  BY <1>1 DEF OwnerBookCurrent, IsRunning
<1>6. /\ memo' \in [Steps -> MemoRecord]
      /\ memo'[s].status = "succeeded"
      /\ memo'[s].failures = memo[s].failures
      /\ \A t \in Steps \ {s} : memo'[t] = memo[t]
  <2>1. memo' = [memo EXCEPT ![s] = [@ EXCEPT !.status = "succeeded"]]
    BY <1>1, <1>5 DEF StepReturns, Remembered, MemoRecord
  <2>2. [memo[s] EXCEPT !.status = "succeeded"] \in MemoRecord
    BY <1>1 DEF MemoRecord, MemoStatus
  <2> QED
    BY <1>1, <2>1, <2>2 DEF MemoRecord
<1>7. TypeOK'
  BY <1>3, <1>4, <1>6
  DEF TypeOK, StepReturns, PassRecord, RowRecord, MemoRecord
<1>8. MemoOK'
  <2>1. memo[s].failures <= STEP_RETRY_LIMIT
    BY <1>5 DEF MemoOK, IsFinal
  <2> QED
    BY <1>6, <2>1 DEF MemoOK
<1>9. PassOK'
  BY <1>1, <1>2, <1>3 DEF PassOK, WellRun
<1>10. LedgerOK'
  <2>1. begun' = begun /\ tried' = tried
    BY DEF StepReturns
  <2>2. \A t \in Steps : memo'[t].failures = memo[t].failures
    BY <1>6
  <2>3. /\ Range(pass'[p].running) \subseteq begun
        /\ pass'[p].threw \in begun \cup {NoStep}
        /\ pass'[p].beat \in begun \cup {NoStep, NoBeat}
    BY <1>1, <1>2, <1>3 DEF LedgerOK
  <2> QED
    BY <1>4, <2>1, <2>2, <2>3 DEF LedgerOK
<1>11. OwnerBookCurrent'
  <2> SUFFICES ASSUME new.at = "running"
               PROVE  /\ \A t \in Steps :
                            IsFinal(memo'[t].status) \/ IsFinal(new.book[t])
                              => memo'[t].status = new.book[t]
                      /\ \A t \in Steps :
                            t \in Range(new.running)
                              => ~IsFinal(memo'[t].status)
    BY <1>3, <1>4 DEF OwnerBookCurrent, IsRunning
  <2>1. new.book = [pass[p].book EXCEPT ![s] = "succeeded"]
    BY <1>2
  <2>2. /\ new.book[s] = "succeeded"
        /\ \A t \in Steps \ {s} : new.book[t] = pass[p].book[t]
    BY <1>1, <2>1 DEF PassRecord
  <2>3. \A t \in Steps :
           IsFinal(memo[t].status) \/ IsFinal(pass[p].book[t])
             => memo[t].status = pass[p].book[t]
    BY <1>1 DEF OwnerBookCurrent
  <2>4. \A t \in Steps :
           t \in Range(pass[p].running) => ~IsFinal(memo[t].status)
    BY <1>1 DEF OwnerBookCurrent, IsRunning
  <2> QED
    BY <1>1, <1>2, <1>6, <2>2, <2>3, <2>4
<1> QED
  BY <1>7, <1>8, <1>9, <1>10, <1>11

(* A step that touches the row's lease columns alone, and may take a       *)
(* heartbeat off its way: no pass gains the lease, and the row names no    *)
(* step its holder did not start.                                          *)
LEMMA RowOnlyInv ==
    ASSUME IInv,
           row' \in RowRecord,
           row'.running \in begun \cup {NoStep},
           \A q \in Passes : Holds(q)' => Holds(q),
           pass' \in [Passes -> PassRecord],
           \A q \in Passes :
              \/ pass'[q] = pass[q]
              \/ pass'[q] = [pass[q] EXCEPT !.beat = NoBeat],
           UNCHANGED <<memo, subject, tried, begun>>,
           faults' \in 0..MaxFaults
    PROVE  IInv'
<1> USE DEF IInv
<1>1. \A q \in Passes :
         /\ pass'[q].at = pass[q].at
         /\ pass'[q].book = pass[q].book
         /\ pass'[q].running = pass[q].running
         /\ pass'[q].threw = pass[q].threw
         /\ pass'[q].beat \in {pass[q].beat, NoBeat}
  BY DEF TypeOK
<1>2. TypeOK'
  BY DEF TypeOK, PassRecord, RowRecord
<1>3. MemoOK'
  BY DEF MemoOK
<1>4. PassOK'
  BY <1>1 DEF PassOK, WellRun
<1>5. LedgerOK'
  BY <1>1 DEF LedgerOK
<1>6. OwnerBookCurrent'
  <2> SUFFICES ASSUME NEW q \in Passes, Holds(q), pass[q].at = "running"
               PROVE  /\ \A t \in Steps :
                            IsFinal(memo[t].status) \/ IsFinal(pass[q].book[t])
                              => memo[t].status = pass[q].book[t]
                      /\ \A t \in Steps :
                            t \in Range(pass[q].running)
                              => ~IsFinal(memo[t].status)
    BY <1>1 DEF OwnerBookCurrent, IsRunning
  <2> QED
    BY DEF OwnerBookCurrent, IsRunning
<1> QED
  BY <1>2, <1>3, <1>4, <1>5, <1>6

(* The renewal of the lease holder records the step it read when it was    *)
(* sent, which that holder had started by then.                            *)
LEMMA BeatLandInv ==
    ASSUME IInv, NEW p \in Passes, BeatLand(p)
    PROVE  IInv'
<1>0. /\ pass \in [Passes -> PassRecord]
      /\ row \in RowRecord
      /\ faults \in 0..MaxFaults
  BY DEF IInv, TypeOK, PassRecord, RowRecord
<1>1. CASE Holds(p)
  <2>1. /\ row' = [row EXCEPT !.lease = "live", !.running = pass[p].beat]
        /\ pass' = [pass EXCEPT ![p].beat = NoBeat]
        /\ UNCHANGED <<memo, subject, tried, begun, faults>>
    BY <1>1 DEF BeatLand
  <2>2. pass[p].beat \in begun \cup {NoStep} /\ begun \subseteq Steps
    BY <1>1 DEF BeatLand, IInv, LedgerOK, TypeOK
  <2>3. /\ row' \in RowRecord
        /\ row'.running = pass[p].beat
        /\ \A q \in Passes : Holds(q)' => Holds(q)
    BY <1>0, <2>1, <2>2 DEF RowRecord, Holds
  <2>4. /\ pass' \in [Passes -> PassRecord]
        /\ \A q \in Passes :
              \/ pass'[q] = pass[q]
              \/ pass'[q] = [pass[q] EXCEPT !.beat = NoBeat]
    BY <1>0, <2>1 DEF PassRecord
  <2> QED
    BY <1>0, <2>1, <2>2, <2>3, <2>4, RowOnlyInv
<1>2. CASE ~Holds(p)
  <2> DEFINE new == [pass[p] EXCEPT !.beat = NoBeat,
                       !.at = IF row.state = "gone" THEN @ ELSE "lost"]
  <2>1. /\ pass' = [pass EXCEPT ![p] = new]
        /\ UNCHANGED <<row, memo, subject, tried, begun, faults>>
    BY <1>0, <1>2 DEF BeatLand, PassRecord
  <2>2. /\ new \in PassRecord
        /\ new.running = pass[p].running
        /\ new.threw = pass[p].threw
        /\ new.book = pass[p].book
        /\ new.beat = NoBeat
        /\ new.at \in {pass[p].at, "lost"}
    BY <1>0 DEF PassRecord, Phases
  <2> HIDE DEF new
  <2>3. WellRun(new)
    BY <2>2 DEF IInv, PassOK, WellRun
  <2> QED
    BY <1>0, <2>1, <2>2, <2>3, PassOnlyInv
<1> QED
  BY <1>1, <1>2

(* Opening ends the run of a row whose retries are spent, or goes on to    *)
(* load the memo.                                                          *)
LEMMA OpenReadyInv ==
    ASSUME IInv, NEW p \in Passes, OpenReady(p)
    PROVE  IInv'
<1>1. CASE EndFailed(p)
  BY <1>1, EndFailedInv
<1>2. CASE /\ pass' = [pass EXCEPT ![p].at = "loading"]
           /\ UNCHANGED <<row, memo, subject, tried, begun, faults>>
  <2> DEFINE new == [pass[p] EXCEPT !.at = "loading"]
  <2>1. /\ pass \in [Passes -> PassRecord]
        /\ faults \in 0..MaxFaults
        /\ pass[p].running = <<>>
    BY DEF IInv, TypeOK, PassRecord, PassOK, WellRun, OpenReady
  <2>2. /\ new \in PassRecord
        /\ pass' = [pass EXCEPT ![p] = new]
        /\ new.at = "loading" /\ new.running = <<>>
        /\ new.threw = pass[p].threw /\ new.beat = pass[p].beat
    BY <1>2, <2>1 DEF PassRecord, Phases
  <2> HIDE DEF new
  <2>3. /\ Range(new.running) \subseteq Range(pass[p].running)
        /\ WellRun(new)
        /\ new.at # "running"
    BY <2>1, <2>2, EmptyRunning DEF WellRun
  <2> QED
    BY <1>2, <2>1, <2>2, <2>3, PassOnlyInv
<1> QED
  BY <1>1, <1>2 DEF OpenReady

(* The body starts from the memo as it is, so its book is current.         *)
LEMMA LoadMemoInv ==
    ASSUME IInv, NEW p \in Passes, LoadMemo(p)
    PROVE  IInv'
<1> DEFINE loaded == [s \in Steps |-> memo[s].status]
           new == [pass[p] EXCEPT !.at = "running", !.book = loaded]
<1>1. /\ pass \in [Passes -> PassRecord]
      /\ faults \in 0..MaxFaults
      /\ pass[p].running = <<>>
      /\ loaded \in [Steps -> MemoStatus]
  BY DEF IInv, TypeOK, PassRecord, PassOK, WellRun, LoadMemo
<1>2. /\ pass' = [pass EXCEPT ![p] = new]
      /\ UNCHANGED <<row, memo, subject, tried, begun, faults>>
  BY <1>1 DEF LoadMemo, PassRecord
<1>3. /\ new \in PassRecord
      /\ new.at = "running" /\ new.running = <<>> /\ new.book = loaded
      /\ new.threw = pass[p].threw /\ new.beat = pass[p].beat
  BY <1>1 DEF PassRecord, Phases
<1> HIDE DEF new
<1>4. WellRun(new) /\ Range(new.running) \subseteq Range(pass[p].running)
  BY <1>1, <1>3, EmptyRunning DEF WellRun
<1> QED
  BY <1>1, <1>2, <1>3, <1>4, PassOnlyInv

(* A heartbeat goes out with the step running then, or comes to nothing.   *)
LEMMA BeatInv ==
    ASSUME IInv, NEW p \in Passes, BeatStart(p) \/ BeatFails(p)
    PROVE  IInv'
<1>1. PICK beat \in {RunningStep(p), NoBeat} :
         pass' = [pass EXCEPT ![p].beat = beat]
  BY DEF BeatStart, BeatFails
<1> DEFINE new == [pass[p] EXCEPT !.beat = beat]
<1>2. /\ pass \in [Passes -> PassRecord]
      /\ faults' \in 0..MaxFaults
      /\ WellRun(pass[p])
      /\ UNCHANGED <<row, memo, subject, tried, begun>>
  BY DEF IInv, TypeOK, PassRecord, PassOK, BeatStart, BeatFails
<1>3. /\ pass[p].running \in Seq(Steps)
      /\ RunningStep(p) \in Range(pass[p].running) \cup {NoStep}
  BY <1>2, HeadInRange DEF RunningStep, PassRecord
<1>4. /\ Range(pass[p].running) \subseteq Steps
      /\ beat \in Steps \cup {NoStep, NoBeat}
  BY <1>1, <1>3 DEF Range
<1>5. /\ new \in PassRecord
      /\ pass' = [pass EXCEPT ![p] = new]
      /\ new.at = pass[p].at /\ new.running = pass[p].running
      /\ new.book = pass[p].book /\ new.threw = pass[p].threw
      /\ new.beat \in Range(pass[p].running)
                        \cup {pass[p].beat, NoStep, NoBeat}
  BY <1>1, <1>2, <1>3, <1>4 DEF PassRecord
<1> HIDE DEF new
<1>6. WellRun(new)
  BY <1>2, <1>5 DEF WellRun
<1> QED
  BY <1>2, <1>5, <1>6, PassOnlyInv

(* The ways a step ends without a memo row: it throws, its write is        *)
(* refused, or the pass had stopped already.                               *)
LEMMA StepStopsInv ==
    ASSUME IInv, NEW p \in Passes, NEW s \in Steps,
           \/ StepReturns(p, s) /\ ~Holds(p)
           \/ StepFails(p, s)
           \/ StepDropped(p, s)
    PROVE  IInv'
<1>1. /\ IsRunning(p, s)
      /\ UNCHANGED <<row, memo, subject, tried, begun, faults>>
      /\ pass \in [Passes -> PassRecord]
  BY DEF StepReturns, StepFails, StepDropped, IInv, TypeOK, PassRecord
<1>2. PICK at \in {"threw", "lost"}, threw \in {s, pass[p].threw} :
         pass' = [pass EXCEPT ![p] = [pass[p] EXCEPT
                    !.running = Finished(p, s), !.at = at, !.threw = threw]]
  <2>1. CASE StepReturns(p, s) /\ ~Holds(p)
    <3>1. pass' = [pass EXCEPT ![p] = [pass[p] EXCEPT
            !.running = Finished(p, s), !.at = "lost", !.threw = pass[p].threw]]
      BY <1>1, <2>1 DEF StepReturns, PassRecord
    <3> QED
      BY <3>1
  <2>2. CASE StepFails(p, s)
    <3>1. pass' = [pass EXCEPT ![p] = [pass[p] EXCEPT
            !.running = Finished(p, s), !.at = "threw", !.threw = s]]
      BY <1>1, <2>2 DEF StepFails, PassRecord
    <3> QED
      BY <3>1
  <2>3. CASE StepDropped(p, s)
    <3>1. pass' = [pass EXCEPT ![p] = [pass[p] EXCEPT
            !.running = Finished(p, s), !.at = pass[p].at,
            !.threw = pass[p].threw]]
      BY <1>1, <2>3 DEF StepDropped, PassRecord
    <3>2. pass[p].at \in {"threw", "lost"}
      BY <2>3 DEF StepDropped
    <3> QED
      BY <3>1, <3>2
  <2> QED
    BY <2>1, <2>2, <2>3
<1> QED
  BY <1>1, <1>2, StepEndsInv

(* The run's terminal record: the fence admits it and the run is over, or  *)
(* refuses it and the pass stops.                                          *)
LEMMA TerminalWriteInv ==
    ASSUME IInv, NEW p \in Passes, TerminalWrite(p)
    PROVE  IInv'
<1>1. /\ IsRunning(p, Terminal)
      /\ Terminal \in Steps
      /\ pass \in [Passes -> PassRecord]
  BY DEF TerminalWrite, Steps, IInv, TypeOK, PassRecord
<1>2. CASE /\ pass' = [pass EXCEPT ![p].at = "ending"]
           /\ EndSubject("completed")
  <2>1. /\ pass' \in [Passes -> PassRecord]
        /\ \A q \in Passes :
              /\ pass'[q].running = pass[q].running
              /\ \/ pass'[q].at = pass[q].at
                 \/ q = p /\ pass'[q].at = "ending"
    BY <1>1, <1>2 DEF PassRecord, Phases
  <2>2. \A q \in Passes : WellRun(pass'[q])
    BY <1>1, <2>1 DEF IInv, PassOK, WellRun, IsRunning
  <2> QED
    BY <1>2, <2>1, <2>2, EndSubjectInv
<1>3. CASE /\ pass' = [pass EXCEPT ![p].running = Finished(p, Terminal),
                                   ![p].at = "lost"]
           /\ UNCHANGED <<row, memo, subject, tried, begun, faults>>
  <2>1. pass' = [pass EXCEPT ![p] = [pass[p] EXCEPT
          !.running = Finished(p, Terminal), !.at = "lost",
          !.threw = pass[p].threw]]
    BY <1>1, <1>3 DEF PassRecord
  <2> QED
    BY <1>1, <1>3, <2>1, StepEndsInv
<1> QED
  BY <1>2, <1>3 DEF TerminalWrite

(* The answer of a terminal write, or its loss, ends the Terminal step.    *)
LEMMA TerminalAnswerInv ==
    ASSUME IInv, NEW p \in Passes, TerminalAnswer(p)
    PROVE  IInv'
<1>1. /\ Terminal \in Steps
      /\ IsRunning(p, Terminal)
      /\ pass \in [Passes -> PassRecord]
      /\ UNCHANGED <<row, memo, subject, tried, begun, faults>>
  BY DEF TerminalAnswer, Steps, IInv, TypeOK, PassRecord, PassOK, WellRun,
         IsRunning
<1>2. CASE pass' = [pass EXCEPT ![p].running = Finished(p, Terminal),
                                ![p].at = "ended"]
  <2>1. pass' = [pass EXCEPT ![p] = [pass[p] EXCEPT
          !.running = Finished(p, Terminal), !.at = "ended",
          !.threw = pass[p].threw]]
    BY <1>1, <1>2 DEF PassRecord
  <2> QED
    BY <1>1, <2>1, StepEndsInv
<1>3. CASE pass' = [pass EXCEPT ![p].running = Finished(p, Terminal),
                                ![p].at = "threw", ![p].threw = Terminal]
  <2>1. pass' = [pass EXCEPT ![p] = [pass[p] EXCEPT
          !.running = Finished(p, Terminal), !.at = "threw",
          !.threw = Terminal]]
    BY <1>1, <1>3 DEF PassRecord
  <2> QED
    BY <1>1, <2>1, StepEndsInv
<1> QED
  BY <1>2, <1>3 DEF TerminalAnswer

(* The releases: after a step that threw, after a body that failed on no   *)
(* step, and after a drain or a spent time budget.                         *)
LEMMA ReleasesInv ==
    ASSUME IInv, NEW p \in Passes,
           BodyFails(p) \/ ReleaseThrew(p) \/ Drain(p) \/ BudgetCut(p)
    PROVE  IInv'
<1>0. /\ row \in RowRecord
      /\ faults \in 0..MaxFaults
      /\ pass[p].running \in Seq(Steps)
      /\ pass[p].threw \in Steps \cup {NoStep}
      /\ RunningStep(p) \in Range(pass[p].running) \cup {NoStep}
  <2>1. pass[p].running \in Seq(Steps)
    BY DEF IInv, TypeOK
  <2> QED
    BY <2>1, HeadInRange DEF IInv, TypeOK, RowRecord, RunningStep
<1>1. ASSUME NEW counted
      PROVE  LET back == StepFailedRelease(row, counted)
             IN  /\ back \in RowRecord
                 /\ back.owner = NoPass /\ back.running = NoStep
  BY <1>0 DEF StepFailedRelease, ReleasedRow, RowRecord
<1>2. LET back == BodyFailedRelease(row)
      IN  /\ back \in RowRecord
          /\ back.owner = NoPass /\ back.running = NoStep
  <2>1. row.attempt + 1 \in Nat
    BY <1>0 DEF RowRecord
  <2> QED
    BY <1>0, <2>1 DEF BodyFailedRelease, ReleasedRow, RowRecord
<1>3. LET back == InterruptedRelease(row)
      IN  /\ back \in RowRecord
          /\ back.owner = NoPass /\ back.running = NoStep
  BY <1>0 DEF InterruptedRelease, ReleasedRow, RowRecord
<1>4. CASE BodyFails(p)
  <2>1. CASE EndFailed(p)
    BY <2>1, EndFailedInv
  <2>2. CASE Release(p, NoStep, BodyFailedRelease(row)) /\ UNCHANGED faults
    BY <1>0, <1>2, <2>2, ReleaseInv
  <2> QED
    BY <1>4, <2>1, <2>2 DEF BodyFails
<1>5. CASE ReleaseThrew(p)
  <2>1. Release(p, pass[p].threw,
                StepFailedRelease(row, CountStepFailure(memo[pass[p].threw])))
    BY <1>5 DEF ReleaseThrew
  <2>2. Holds(p) => pass[p].threw \in begun \cup {NoStep}
    BY DEF IInv, LedgerOK
  <2>3. faults' \in 0..MaxFaults
    BY <1>0, <1>5 DEF ReleaseThrew
  <2> QED
    BY <1>0, <1>1, <2>1, <2>2, <2>3, ReleaseInv
<1>6. CASE Drain(p)
  <2>1. faults' \in 0..MaxFaults
    BY <1>0, <1>6, FaultsAssumption DEF Drain, SpendFault
  <2> QED
    BY <1>3, <1>6, <2>1, ReleaseInv DEF Drain
<1>7. CASE BudgetCut(p)
  <2>1. Release(p, RunningStep(p), InterruptedRelease(row))
    BY <1>7 DEF BudgetCut
  <2>2. Holds(p) => RunningStep(p) \in begun \cup {NoStep}
    BY <1>0 DEF IInv, LedgerOK
  <2>3. RunningStep(p) \in Steps \cup {NoStep}
    BY <1>0 DEF Range
  <2>4. faults' \in 0..MaxFaults
    BY <1>0, <1>7 DEF BudgetCut
  <2> QED
    BY <1>3, <2>1, <2>2, <2>3, <2>4, ReleaseInv
<1> QED
  BY <1>4, <1>5, <1>6, <1>7

----------------------------------------------------------------------------
(* Every action keeps the invariant, and so does a step that changes       *)
(* nothing.                                                                *)
LEMMA NextInv == IInv /\ [Next]_vars => IInv'
<1> SUFFICES ASSUME IInv, [Next]_vars PROVE IInv'
  OBVIOUS
<1>0. /\ row \in RowRecord
      /\ pass \in [Passes -> PassRecord]
      /\ faults \in 0..MaxFaults
      /\ row.running \in begun \cup {NoStep}
  BY DEF IInv, TypeOK, RowRecord, PassRecord, LedgerOK
<1>1. ASSUME NEW p \in Passes, Claim(p) PROVE IInv'
  BY <1>1, ClaimInv
<1>2. ASSUME NEW p \in Passes, OpenUnavailable(p) \/ LeaveStopped(p)
      PROVE  IInv'
  BY <1>0, <1>2, LeaveInv DEF OpenUnavailable, LeaveStopped
<1>3. ASSUME NEW p \in Passes, OpenReady(p) PROVE IInv'
  BY <1>3, OpenReadyInv
<1>4. ASSUME NEW p \in Passes, LoadMemo(p) PROVE IInv'
  BY <1>4, LoadMemoInv
<1>5. ASSUME NEW p \in Passes, NEW s \in Steps, StepStart(p, s) PROVE IInv'
  BY <1>5, StepStartInv
<1>6. ASSUME NEW p \in Passes, NEW s \in Steps,
             StepReturns(p, s) \/ StepFails(p, s) \/ StepDropped(p, s)
      PROVE  IInv'
  BY <1>6, StepReturnsInv, StepStopsInv
<1>7. ASSUME NEW p \in Passes, TerminalWrite(p) PROVE IInv'
  BY <1>7, TerminalWriteInv
<1>8. ASSUME NEW p \in Passes, TerminalAnswer(p) PROVE IInv'
  BY <1>8, TerminalAnswerInv
<1>9. ASSUME NEW p \in Passes, BodySpent(p) PROVE IInv'
  BY <1>9, EndFailedInv DEF BodySpent
<1>10. ASSUME NEW p \in Passes,
              BodyFails(p) \/ ReleaseThrew(p) \/ Drain(p) \/ BudgetCut(p)
       PROVE  IInv'
  BY <1>10, ReleasesInv
<1>11. ASSUME NEW p \in Passes, BeatStart(p) \/ BeatFails(p) PROVE IInv'
  BY <1>11, BeatInv
<1>12. ASSUME NEW p \in Passes, BeatLand(p) PROVE IInv'
  BY <1>12, BeatLandInv
<1>13. ASSUME NEW p \in Passes, Crash(p) PROVE IInv'
  <2>1. faults' \in 0..MaxFaults
    BY <1>0, <1>13, FaultsAssumption DEF Crash, SpendFault
  <2> QED
    BY <1>13, <2>1, LeaveInv DEF Crash
<1>14. CASE LeaseExpires
  <2>1. faults' \in 0..MaxFaults
    BY <1>0, <1>14, FaultsAssumption DEF LeaseExpires, SpendFault
  <2>2. /\ row' = [row EXCEPT !.lease = "expired"]
        /\ UNCHANGED <<memo, pass, subject, tried, begun>>
    BY <1>14 DEF LeaseExpires
  <2>3. /\ row' \in RowRecord
        /\ row'.running = row.running
        /\ \A q \in Passes : Holds(q)' => Holds(q)
    BY <1>0, <2>2 DEF RowRecord, Holds
  <2> QED
    BY <1>0, <2>1, <2>2, <2>3, RowOnlyInv
<1>15. CASE BackoffEnds
  <2>1. /\ row' = [row EXCEPT !.wake = "due"]
        /\ UNCHANGED <<memo, pass, subject, tried, begun, faults>>
    BY <1>15 DEF BackoffEnds
  <2>2. /\ row' \in RowRecord
        /\ row'.running = row.running
        /\ \A q \in Passes : Holds(q)' => Holds(q)
    BY <1>0, <2>1 DEF RowRecord, Holds
  <2> QED
    BY <1>0, <2>1, <2>2, RowOnlyInv
<1>16. CASE EndExecutions
  <2>1. EndSubject("canceled") /\ pass' = pass
    BY <1>16 DEF EndExecutions
  <2>2. \A q \in Passes : WellRun(pass[q])
    BY DEF IInv, PassOK
  <2> QED
    BY <1>0, <2>1, <2>2, EndSubjectInv
<1>17. CASE UNCHANGED vars
  <2>1. \A q \in Passes : Holds(q)' => Holds(q)
    BY <1>17 DEF vars, Holds
  <2> QED
    BY <1>0, <1>17, <2>1, RowOnlyInv DEF vars
<1> QED
  BY <1>1, <1>2, <1>3, <1>4, <1>5, <1>6, <1>7, <1>8, <1>9, <1>10, <1>11,
     <1>12, <1>13, <1>14, <1>15, <1>16, <1>17
  DEF Next, Progress, Beat

(* IInv holds in every state the executor reaches.                         *)
LEMMA Invariant == Spec => []IInv
BY InitInv, NextInv, PTL DEF Spec

----------------------------------------------------------------------------
(* Type correctness: the row, the memo and the passes stay well-formed     *)
(* whatever is claimed, swept, lost or refused; a memo row never counts    *)
(* more than STEP_RETRY_LIMIT + 1 failures.                                *)
THEOREM TypeCorrect == Spec => []TypeOK
BY Invariant, PTL DEF IInv

(* No failure is counted that no start by a lease holder stands behind,    *)
(* for any number of workers, crashes, stalls and lost answers.            *)
THEOREM ChargesAreTries == Spec => []ChargedTriesOnly
<1>1. IInv => ChargedTriesOnly
  <2> SUFFICES ASSUME IInv, NEW s \in Steps
               PROVE  memo[s].failures <= tried[s]
    BY DEF ChargedTriesOnly
  <2>1. memo[s].failures \in Nat /\ tried[s] \in Nat
    BY RetryLimitAssumption DEF IInv, TypeOK
  <2> QED
    BY <2>1 DEF IInv, LedgerOK
<1> QED
  BY <1>1, Invariant, PTL

(* A step that is given up was started on each of its tries.               *)
THEOREM GivenUpAfterAllTries == Spec => []FailedOnlyAfterAllTries
<1>1. IInv => FailedOnlyAfterAllTries
  <2> SUFFICES ASSUME IInv, NEW s \in Steps, memo[s].status = "failed"
               PROVE  tried[s] > STEP_RETRY_LIMIT
    BY DEF FailedOnlyAfterAllTries
  <2>1. memo[s].failures = STEP_RETRY_LIMIT + 1 /\ tried[s] \in Nat
    BY DEF IInv, MemoOK, TypeOK
  <2>2. memo[s].failures <= tried[s]
    BY <2>1, RetryLimitAssumption DEF IInv, LedgerOK
  <2> QED
    BY <2>1, <2>2, RetryLimitAssumption
<1> QED
  BY <1>1, Invariant, PTL

(* The lease holder works from a current book: what it runs is unsettled.  *)
THEOREM HolderRepeatsNothing == Spec => []OwnerBookCurrent
BY Invariant, PTL DEF IInv

-----------------------------------------------------------------------------
(* The row, the memo and the run, which the passes share.                  *)
shared == <<row, memo, subject>>

(* A settled memo row changes only when its run ends.                      *)
MemoKept ==
    \A s \in Steps :
        IsFinal(memo[s].status) => memo'[s] = memo[s] \/ subject' # "open"

(* A pass whose terminal write committed took the row away.                *)
EndTookRow ==
    \A p \in Passes :
        pass[p].at \in {"ending", "ended"} => row.state = "gone"

----------------------------------------------------------------------------
(* Counting a failure leaves every settled memo row alone.                 *)
LEMMA CountKeepsFinal ==
    ASSUME NEW s \in Steps, memo \in [Steps -> MemoRecord],
           memo' = [memo EXCEPT ![s] = CountStepFailure(@)]
    PROVE  MemoKept
BY DEF MemoKept, CountStepFailure

(* A terminal write clears the memo, and with it ends the run.             *)
LEMMA EndFailedKeepsFinal ==
    ASSUME NEW p \in Passes, EndFailed(p)
    PROVE  MemoKept
BY DEF EndFailed, EndSubject, MemoKept

(* A release counts at most one failure, and a settled row is none.        *)
LEMMA ReleaseKeepsFinal ==
    ASSUME memo \in [Steps -> MemoRecord],
           NEW p \in Passes, NEW step \in Steps \cup {NoStep}, NEW released,
           Release(p, step, released)
    PROVE  MemoKept
<1>1. CASE memo' = memo
  BY <1>1 DEF MemoKept
<1>2. CASE step # NoStep /\ memo' = [memo EXCEPT ![step] = CountStepFailure(@)]
  BY <1>2, CountKeepsFinal
<1> QED
  BY <1>1, <1>2 DEF Release

(* No step of a worker, of time or of another writer unsettles a memo row. *)
LEMMA NextKeepsFinal == IInv /\ [Next]_vars => MemoKept
<1> SUFFICES ASSUME IInv, [Next]_vars PROVE MemoKept
  OBVIOUS
<1>0. /\ memo \in [Steps -> MemoRecord]
      /\ \A p \in Passes : /\ pass[p].threw \in Steps \cup {NoStep}
                           /\ RunningStep(p) \in Steps \cup {NoStep}
      /\ SweptStep(row) \in Steps \cup {NoStep}
  <2>1. ASSUME NEW p \in Passes PROVE RunningStep(p) \in Steps \cup {NoStep}
    <3>1. pass[p].running \in Seq(Steps)
      BY DEF IInv, TypeOK
    <3> QED
      BY <3>1 DEF RunningStep
  <2> QED
    BY <2>1 DEF IInv, TypeOK, MemoRecord, SweptStep
<1>1. CASE memo' = memo
  BY <1>1 DEF MemoKept
<1>2. CASE EndExecutions
  BY <1>2 DEF EndExecutions, EndSubject, MemoKept
<1>3. ASSUME NEW p \in Passes, Claim(p) PROVE MemoKept
  BY <1>0, <1>1, <1>3, CountKeepsFinal DEF Claim
<1>4. ASSUME NEW p \in Passes, OpenReady(p) \/ BodySpent(p) PROVE MemoKept
  BY <1>1, <1>4, EndFailedKeepsFinal DEF OpenReady, BodySpent
<1>5. ASSUME NEW p \in Passes, NEW s \in Steps, StepReturns(p, s)
      PROVE  MemoKept
  <2>1. CASE memo' = Remembered(s)
    BY <1>0, <2>1 DEF Remembered, MemoRecord, MemoKept
  <2> QED
    BY <1>1, <1>5, <2>1 DEF StepReturns
<1>6. ASSUME NEW p \in Passes, TerminalWrite(p) PROVE MemoKept
  BY <1>1, <1>6 DEF TerminalWrite, EndSubject, MemoKept
<1>7. ASSUME NEW p \in Passes,
             BodyFails(p) \/ ReleaseThrew(p) \/ Drain(p) \/ BudgetCut(p)
      PROVE  MemoKept
  BY <1>0, <1>7, EndFailedKeepsFinal, ReleaseKeepsFinal
  DEF BodyFails, ReleaseThrew, Drain, BudgetCut
<1>8. ASSUME NEW p \in Passes,
             \/ OpenUnavailable(p) \/ LoadMemo(p) \/ TerminalAnswer(p)
             \/ LeaveStopped(p) \/ BeatStart(p) \/ Beat(p) \/ Crash(p)
             \/ \E s \in Steps : \/ StepStart(p, s)
                                 \/ StepFails(p, s)
                                 \/ StepDropped(p, s)
      PROVE  MemoKept
  BY <1>1, <1>8
  DEF OpenUnavailable, LoadMemo, TerminalAnswer, LeaveStopped, BeatStart,
      Beat, BeatLand, BeatFails, Crash, StepStart, StepFails, StepDropped
<1>9. CASE LeaseExpires \/ BackoffEnds \/ UNCHANGED vars
  BY <1>1, <1>9 DEF LeaseExpires, BackoffEnds, vars
<1> QED
  BY <1>2, <1>3, <1>4, <1>5, <1>6, <1>7, <1>8, <1>9 DEF Next, Progress

(* A settled memo row outlives every zombie, sweep and late release: what  *)
(* a replay answers from does not change while the run is open.            *)
THEOREM SettledMemoStays == Spec => MemoFinal
<1>1. IInv /\ [Next]_vars => [MemoKept]_vars
  BY NextKeepsFinal
<1>2. Spec => [][MemoKept]_vars
  BY <1>1, Invariant, PTL DEF Spec
<1> QED
  BY <1>2 DEF MemoFinal, MemoKept

----------------------------------------------------------------------------
(* A step that changes a pass is that pass's own, and one that writes did  *)
(* so under the lease, or took the row because nothing held it live.       *)
LEMMA WritesUnderTheLease ==
    ASSUME IInv, NEW p \in Passes, Claim(p) \/ Progress(p) \/ BeatStart(p)
             \/ Beat(p) \/ BodyFails(p) \/ Drain(p) \/ BudgetCut(p) \/ Crash(p)
    PROVE  /\ \A r \in Passes \ {p} : pass'[r] = pass[r]
           /\ UNCHANGED shared \/ Holds(p) \/ DueSchedule(row)
<1>0. pass \in [Passes -> PassRecord]
  BY DEF IInv, TypeOK, PassRecord
<1>1. CASE Claim(p)
  BY <1>0, <1>1 DEF Claim
<1>2. ASSUME EndFailed(p)
      PROVE  /\ \A r \in Passes \ {p} : pass'[r] = pass[r]
             /\ UNCHANGED shared \/ Holds(p)
  BY <1>0, <1>2 DEF EndFailed, Leave, shared
<1>3. ASSUME NEW step, NEW released, Release(p, step, released)
      PROVE  /\ \A r \in Passes \ {p} : pass'[r] = pass[r]
             /\ UNCHANGED shared \/ Holds(p)
  BY <1>0, <1>3 DEF Release, Leave, shared
<1>4. CASE OpenReady(p) \/ BodySpent(p)
  BY <1>0, <1>2, <1>4 DEF OpenReady, BodySpent, shared
<1>5. CASE BodyFails(p) \/ ReleaseThrew(p) \/ Drain(p) \/ BudgetCut(p)
  BY <1>2, <1>3, <1>5 DEF BodyFails, ReleaseThrew, Drain, BudgetCut
<1>6. CASE OpenUnavailable(p) \/ LoadMemo(p) \/ TerminalAnswer(p)
             \/ LeaveStopped(p) \/ BeatStart(p) \/ Crash(p)
  BY <1>0, <1>6
  DEF OpenUnavailable, LoadMemo, TerminalAnswer, LeaveStopped, BeatStart,
      Crash, Leave, shared
<1>7. ASSUME NEW s \in Steps,
             \/ StepStart(p, s) \/ StepReturns(p, s)
             \/ StepFails(p, s) \/ StepDropped(p, s)
      PROVE  /\ \A r \in Passes \ {p} : pass'[r] = pass[r]
             /\ UNCHANGED shared \/ Holds(p)
  BY <1>0, <1>7 DEF StepStart, StepReturns, StepFails, StepDropped, shared
<1>8. CASE TerminalWrite(p) \/ Beat(p)
  BY <1>0, <1>8 DEF TerminalWrite, Beat, BeatLand, BeatFails, shared
<1> QED
  BY <1>1, <1>4, <1>5, <1>6, <1>7, <1>8 DEF Progress

(* What ZombieWritesNothing says of one step.                              *)
NoZombieWrite ==
    \A p, q \in Passes :
        p # q /\ pass'[p] # pass[p] /\ Holds(q) /\ row.lease = "live" =>
            UNCHANGED <<row, memo, subject>>

(* Under a live lease, whoever else takes a step writes nothing shared.    *)
LEMMA NextIsFenced == IInv /\ [Next]_vars => NoZombieWrite
<1> SUFFICES ASSUME IInv, [Next]_vars,
                    NEW p \in Passes, NEW q \in Passes,
                    p # q, pass'[p] # pass[p], Holds(q), row.lease = "live"
             PROVE  UNCHANGED <<row, memo, subject>>
  BY DEF NoZombieWrite
<1>1. ~(LeaseExpires \/ BackoffEnds \/ EndExecutions \/ UNCHANGED vars)
  BY DEF LeaseExpires, BackoffEnds, EndExecutions, vars
<1>2. PICK r \in Passes :
         \/ Claim(r) \/ Progress(r) \/ BeatStart(r) \/ Beat(r)
         \/ BodyFails(r) \/ Drain(r) \/ BudgetCut(r) \/ Crash(r)
  BY <1>1 DEF Next
<1>3. r = p /\ (UNCHANGED shared \/ Holds(p) \/ DueSchedule(row))
  BY <1>2, WritesUnderTheLease
<1>4. ~Holds(p) /\ ~DueSchedule(row)
  BY DEF Holds, DueSchedule, ExpiredLease
<1> QED
  BY <1>3, <1>4 DEF shared

(* A worker that stalled past its lease, or was swept while it ran, writes *)
(* nothing of the run that another pass now works on.                      *)
THEOREM ZombiesAreFenced == Spec => ZombieWritesNothing
<1>1. IInv /\ [Next]_vars => [NoZombieWrite]_vars
  BY NextIsFenced
<1>2. Spec => [][NoZombieWrite]_vars
  BY <1>1, Invariant, PTL DEF Spec
<1> QED
  BY <1>2 DEF ZombieWritesNothing, NoZombieWrite

----------------------------------------------------------------------------
(* Once the row is gone no step brings it back, and only the terminal      *)
(* write that takes it starts the end of a pass.                           *)
LEMMA GoneStaysGone ==
    IInv /\ [Next]_vars /\ row.state = "gone" => row'.state = "gone"
<1> SUFFICES ASSUME IInv, [Next]_vars, row.state = "gone"
             PROVE  row'.state = "gone"
  OBVIOUS
<1>1. ~DueSchedule(row) /\ \A p \in Passes : ~Holds(p)
  BY DEF DueSchedule, ExpiredLease, Holds
<1>2. CASE EndExecutions
  BY <1>2 DEF EndExecutions, EndSubject, InitRow
<1>3. CASE LeaseExpires \/ BackoffEnds \/ UNCHANGED vars
  BY <1>3 DEF LeaseExpires, BackoffEnds, vars
<1>4. ASSUME NEW p \in Passes,
             \/ Claim(p) \/ Progress(p) \/ BeatStart(p) \/ Beat(p)
             \/ BodyFails(p) \/ Drain(p) \/ BudgetCut(p) \/ Crash(p)
      PROVE  row'.state = "gone"
  BY <1>1, <1>4, WritesUnderTheLease DEF shared
<1> QED
  BY <1>2, <1>3, <1>4 DEF Next

(* A pass whose terminal write committed finds the row gone ever after.    *)
LEMMA EndTookRowStep == IInv /\ EndTookRow /\ [Next]_vars => EndTookRow'
<1> SUFFICES ASSUME IInv, EndTookRow, [Next]_vars,
                    NEW p \in Passes, pass'[p].at \in {"ending", "ended"}
             PROVE  row'.state = "gone"
  BY DEF EndTookRow
<1>0. pass \in [Passes -> PassRecord]
  BY DEF IInv, TypeOK, PassRecord
<1>1. CASE pass[p].at \in {"ending", "ended"}
  BY <1>1, GoneStaysGone DEF EndTookRow
<1>2. CASE pass[p].at \notin {"ending", "ended"}
  <2>1. ~(LeaseExpires \/ BackoffEnds \/ EndExecutions \/ UNCHANGED vars)
    BY <1>2 DEF LeaseExpires, BackoffEnds, EndExecutions, vars
  <2>2. PICK r \in Passes :
           \/ Claim(r) \/ Progress(r) \/ BeatStart(r) \/ Beat(r)
           \/ BodyFails(r) \/ Drain(r) \/ BudgetCut(r) \/ Crash(r)
    BY <2>1 DEF Next
  <2>3. r = p
    BY <1>2, <2>2, WritesUnderTheLease
  <2>4. ~Leave(p)
    BY <1>0, IdlePassFacts DEF Leave
  <2>5. ~(EndFailed(p) \/ \E step, released : Release(p, step, released))
    BY <2>4 DEF EndFailed, Release
  <2>6. ~(\/ OpenUnavailable(p) \/ BodySpent(p) \/ ReleaseThrew(p)
          \/ LeaveStopped(p) \/ BodyFails(p) \/ Drain(p) \/ BudgetCut(p)
          \/ Crash(p))
    BY <2>4, <2>5
    DEF OpenUnavailable, BodySpent, ReleaseThrew, LeaveStopped, BodyFails,
        Drain, BudgetCut, Crash
  <2>7. ~Claim(p)
    BY <1>0 DEF Claim, IdlePass
  <2>8. ~OpenReady(p) /\ ~LoadMemo(p)
    BY <1>0, <2>5 DEF OpenReady, LoadMemo, PassRecord
  <2>9. ~(TerminalAnswer(p) \/ BeatStart(p) \/ Beat(p))
    BY <1>0, <1>2
    DEF TerminalAnswer, BeatStart, Beat, BeatLand, BeatFails, PassRecord
  <2>10. ASSUME NEW s \in Steps
        PROVE  ~(\/ StepStart(p, s) \/ StepReturns(p, s)
                 \/ StepFails(p, s) \/ StepDropped(p, s))
    BY <1>0, <1>2
    DEF StepStart, StepReturns, StepFails, StepDropped, PassRecord
  <2>11. TerminalWrite(p)
    BY <2>2, <2>3, <2>6, <2>9, <2>10, <2>7, <2>8 DEF Progress
  <2>12. CASE EndSubject("completed")
    BY <2>12 DEF EndSubject, InitRow
  <2>13. CASE pass' = [pass EXCEPT ![p].running = Finished(p, Terminal),
                                  ![p].at = "lost"]
    BY <1>0, <2>13 DEF PassRecord
  <2> QED
    BY <2>11, <2>12, <2>13 DEF TerminalWrite
<1> QED
  BY <1>1, <1>2

(* What OwnEndIsNotALostLease says of one step.                            *)
NotToldLost ==
    \A p \in Passes :
        pass[p].at \in {"ending", "ended"} => pass'[p].at # "lost"

(* A heartbeat that finds the row gone does not stop the pass.             *)
LEMMA EndNotLostStep == IInv /\ EndTookRow /\ [Next]_vars => NotToldLost
<1> SUFFICES ASSUME IInv, EndTookRow, [Next]_vars,
                    NEW p \in Passes, pass[p].at \in {"ending", "ended"}
             PROVE  pass'[p].at # "lost"
  BY DEF NotToldLost
<1>0. pass \in [Passes -> PassRecord] /\ row.state = "gone"
  BY DEF IInv, TypeOK, PassRecord, EndTookRow
<1>1. CASE pass'[p] = pass[p]
  BY <1>1
<1>2. CASE pass'[p] # pass[p]
  <2>1. ~(LeaseExpires \/ BackoffEnds \/ EndExecutions \/ UNCHANGED vars)
    BY <1>2 DEF LeaseExpires, BackoffEnds, EndExecutions, vars
  <2>2. PICK r \in Passes :
           \/ Claim(r) \/ Progress(r) \/ BeatStart(r) \/ Beat(r)
           \/ BodyFails(r) \/ Drain(r) \/ BudgetCut(r) \/ Crash(r)
    BY <2>1 DEF Next
  <2>3. r = p
    BY <1>2, <2>2, WritesUnderTheLease
  <2>4. Leave(p) => pass'[p].at = "idle"
    BY <1>0, IdlePassFacts DEF Leave
  <2>5. ASSUME NEW step, NEW released,
               EndFailed(p) \/ Release(p, step, released)
        PROVE  pass'[p].at # "lost"
    BY <2>4, <2>5 DEF EndFailed, Release
  <2>6. CASE \/ LeaveStopped(p) \/ Drain(p) \/ BudgetCut(p) \/ Crash(p)
             \/ BodyFails(p) \/ OpenUnavailable(p) \/ BodySpent(p)
             \/ ReleaseThrew(p)
    BY <2>4, <2>5, <2>6
    DEF LeaveStopped, Drain, BudgetCut, Crash, BodyFails, OpenUnavailable,
        BodySpent, ReleaseThrew
  <2>7. CASE Beat(p) \/ BeatStart(p) \/ TerminalAnswer(p)
    BY <1>0, <2>7
    DEF Beat, BeatLand, BeatFails, BeatStart, TerminalAnswer, PassRecord
  <2>8. CASE Claim(p) \/ OpenReady(p) \/ LoadMemo(p) \/ TerminalWrite(p)
    BY <2>8 DEF Claim, OpenReady, LoadMemo, TerminalWrite
  <2>9. ASSUME NEW s \in Steps
        PROVE  ~(\/ StepStart(p, s) \/ StepReturns(p, s)
                 \/ StepFails(p, s) \/ StepDropped(p, s))
    BY DEF StepStart, StepReturns, StepFails, StepDropped
  <2> QED
    BY <2>2, <2>3, <2>6, <2>7, <2>8, <2>9 DEF Progress
<1> QED
  BY <1>1, <1>2

(* A heartbeat that lands after the pass's own terminal write, which took  *)
(* the row, never turns that end into a lost lease.                        *)
THEOREM OwnEndStands == Spec => OwnEndIsNotALostLease
<1>1. Init => EndTookRow
  BY IdlePassFacts DEF Init, EndTookRow
<1>2. Spec => []EndTookRow
  BY <1>1, EndTookRowStep, Invariant, PTL DEF Spec
<1>3. IInv /\ EndTookRow /\ [Next]_vars => [NotToldLost]_vars
  BY EndNotLostStep
<1>4. Spec => [][NotToldLost]_vars
  BY <1>2, <1>3, Invariant, PTL DEF Spec
<1> QED
  BY <1>4 DEF OwnEndIsNotALostLease, NotToldLost

----------------------------------------------------------------------------
(* The job.                                                                *)

(* The memo, read the way a pass loads it.                                 *)
Status == [s \in Steps |-> memo[s].status]

(* A run that ended has no row and nothing under way, and whatever was     *)
(* begun under the current lease still has everything above it settled.    *)
JobOK ==
    /\ subject = "open" <=> row.state # "gone"
    /\ subject # "open" => begun = {}
    /\ \A s \in begun : Ready(Status, s)

(* A book that keeps every settled step of another is ready where it is.   *)
LEMMA ReadyGrows ==
    ASSUME NEW old \in [Steps -> MemoStatus], NEW new \in [Steps -> MemoStatus],
           \A t \in Steps : IsFinal(old[t]) => new[t] = old[t],
           NEW s \in Steps, Ready(old, s)
    PROVE  Ready(new, s)
<1>0. /\ \A t \in NodeSteps : Before[t] \subseteq NodeSteps
      /\ NodeSteps \subseteq Steps
      /\ s # Terminal => s \in NodeSteps
  BY StepsAssumption DEF Steps
<1>1. CASE s = Terminal
  <2>1. ASSUME NEW t \in NodeSteps PROVE Settled(new, t)
    <3>1. Settled(old, t)
      BY <1>1 DEF Ready
    <3>2. CASE IsFinal(old[t])
      BY <1>0, <3>2 DEF Settled
    <3>3. CASE \E r \in Before[t] : old[r] = "failed"
      BY <1>0, <3>3 DEF Settled, IsFinal
    <3> QED
      BY <3>1, <3>2, <3>3 DEF Settled
  <2> QED
    BY <1>1, <2>1 DEF Ready
<1>2. CASE s # Terminal
  BY <1>0, <1>2 DEF Ready, IsFinal
<1> QED
  BY <1>1, <1>2

(* A step ready by the memo is reached in the job.                         *)
LEMMA ReadyReached ==
    ASSUME memo \in [Steps -> MemoRecord], NEW s \in Steps, Ready(Status, s)
    PROVE  Job!Reached(s)
<1>0. /\ \A t \in NodeSteps : Before[t] \subseteq NodeSteps
      /\ NodeSteps \subseteq Steps
      /\ s # Terminal => s \in NodeSteps
  BY StepsAssumption DEF Steps
<1>1. CASE s = Terminal
  <2>1. ASSUME NEW t \in NodeSteps PROVE Job!Closed(t)
    <3>1. Settled(Status, t)
      BY <1>1 DEF Ready
    <3>2. CASE IsFinal(Status[t])
      BY <1>0, <3>2 DEF Job!Closed, Status, IsFinal
    <3>3. CASE \E r \in Before[t] : Status[r] = "failed"
      BY <1>0, <3>3 DEF Job!Closed, Status, IsFinal
    <3> QED
      BY <3>1, <3>2, <3>3 DEF Settled
  <2> QED
    BY <1>1, <2>1 DEF Job!Reached
<1>2. CASE s # Terminal
  BY <1>0, <1>2 DEF Ready, Status, IsFinal, Job!Reached
<1> QED
  BY <1>1, <1>2

----------------------------------------------------------------------------
(* What the job sees of each write.                                        *)

(* The invariant, and what it says of the job.                             *)
JobInv == IInv /\ JobOK

(* A write that leaves the memo and the run alone is nothing to the job.   *)
LEMMA NothingSeen ==
    ASSUME UNCHANGED <<memo, subject>>
    PROVE  UNCHANGED Job!jobVars
BY DEF Job!jobVars

(* A failure counted on a step begun under the lease charges it, unless it *)
(* had settled.                                                            *)
LEMMA CountIsCharge ==
    ASSUME JobInv, subject = "open", NEW s \in begun,
           memo' = [memo EXCEPT ![s] = CountStepFailure(@)],
           UNCHANGED subject
    PROVE  Job!Charge(s) \/ UNCHANGED Job!jobVars
<1>0. memo \in [Steps -> MemoRecord] /\ s \in Steps
  BY DEF JobInv, IInv, TypeOK, MemoRecord
<1>1. CASE IsFinal(memo[s].status)
  <2>1. memo' = memo
    BY <1>0, <1>1 DEF CountStepFailure
  <2> QED
    BY <2>1, NothingSeen
<1>2. CASE ~IsFinal(memo[s].status)
  <2>1. Job!Workable(s)
    BY <1>0, <1>2, ReadyReached DEF JobInv, JobOK, Job!Workable
  <2>2. /\ \A t \in Steps \ {s} : memo'[t] = memo[t]
        /\ memo'[s].failures = memo[s].failures + 1
        /\ memo'[s].status = IF memo[s].failures < STEP_RETRY_LIMIT
                               THEN "failing" ELSE "failed"
    BY <1>0, <1>2, RetryLimitAssumption DEF CountStepFailure, MemoRecord
  <2> QED
    BY <1>0, <1>2, <2>1, <2>2 DEF Job!Charge, IsFinal
<1> QED
  BY <1>1, <1>2

(* A memo row written for a node step that returned settles it.            *)
LEMMA ReturnIsSuccess ==
    ASSUME JobInv, subject = "open", NEW s \in begun, s # Terminal,
           ~IsFinal(memo[s].status), memo' = Remembered(s), UNCHANGED subject
    PROVE  Job!Succeed(s)
<1>0. memo \in [Steps -> MemoRecord] /\ s \in Steps
  BY DEF JobInv, IInv, TypeOK, MemoRecord
<1>1. Job!Workable(s)
  BY <1>0, ReadyReached DEF JobInv, JobOK, Job!Workable
<1>2. /\ \A t \in Steps \ {s} : memo'[t] = memo[t]
      /\ memo'[s].failures = memo[s].failures
      /\ memo'[s].status = "succeeded"
  BY <1>0 DEF Remembered, MemoRecord
<1> QED
  BY <1>0, <1>1, <1>2 DEF Job!Succeed, IsFinal

(* A terminal write ends the job; it completes it only from Terminal.      *)
LEMMA EndIsEnd ==
    ASSUME JobInv, subject = "open",
           NEW as \in {"completed", "failed", "canceled"}, EndSubject(as),
           as = "completed" =>
               Terminal \in begun /\ ~IsFinal(memo[Terminal].status)
    PROVE  Job!End(as)
<1>0. memo \in [Steps -> MemoRecord] /\ Terminal \in Steps
  BY DEF JobInv, IInv, TypeOK, MemoRecord, Steps
<1>1. as = "completed" => Job!Workable(Terminal)
  BY <1>0, ReadyReached DEF JobInv, JobOK, Job!Workable
<1>2. Job!Fresh'
  BY NoMemosFacts DEF EndSubject, IsFinal, Job!Fresh, Job!Steps, Steps
<1> QED
  BY <1>1, <1>2 DEF EndSubject, Job!End

----------------------------------------------------------------------------
(* What a step is to the job, and to the strengthening the mapping needs.  *)

Seen == Job!Next \/ UNCHANGED Job!jobVars

(* Nothing newly begun, and the run stands as it did.                      *)
Kept ==
    /\ UNCHANGED subject
    /\ row'.state = "gone" <=> row.state = "gone"
    /\ begun' \subseteq begun

(* The run is ended, with its row and whatever was under way.              *)
Ended ==
    /\ subject' # "open"
    /\ row'.state = "gone"
    /\ begun' = {}

(* The holder starts a step that its book says is ready.                   *)
Started ==
    \E p \in Passes, s \in Steps :
        /\ Holds(p)
        /\ pass[p].at = "running"
        /\ Ready(pass[p].book, s)
        /\ begun' = begun \cup {s}
        /\ UNCHANGED <<row, memo, subject>>

(* A failure counted by a release or by the sweep of a claim.              *)
LEMMA CountSeen ==
    ASSUME JobInv, subject = "open", NEW s \in begun \cup {NoStep},
           memo' = IF s = NoStep THEN memo
                   ELSE [memo EXCEPT ![s] = CountStepFailure(@)],
           UNCHANGED subject
    PROVE  Seen
<1>0. NoStep \notin begun
  BY StepsAssumption DEF JobInv, IInv, TypeOK, Steps
<1>1. CASE s = NoStep
  BY <1>1, NothingSeen DEF Seen
<1>2. CASE s # NoStep
  <2>1. s \in begun /\ s \in Job!Steps
    BY <1>2 DEF JobInv, IInv, TypeOK, Job!Steps, Steps
  <2>2. Job!Charge(s) \/ UNCHANGED Job!jobVars
    BY <1>2, <2>1, CountIsCharge
  <2> QED
    BY <2>1, <2>2 DEF Seen, Job!Next
<1> QED
  BY <1>1, <1>2

(* A pass that leaves its run to the next one.                             *)
LEMMA ReleaseSeen ==
    ASSUME JobInv, NEW p \in Passes, NEW s, NEW released,
           Release(p, s, released),
           Holds(p) => s \in begun \cup {NoStep},
           released.state = "queued"
    PROVE  Seen /\ Kept
<1>1. CASE Holds(p)
  <2>1. subject = "open"
    BY <1>1 DEF JobInv, JobOK, Holds
  <2>2. /\ UNCHANGED subject
        /\ memo' = IF s = NoStep THEN memo
                   ELSE [memo EXCEPT ![s] = CountStepFailure(@)]
        /\ row' = released
        /\ begun' = {}
    BY <1>1 DEF Release
  <2>3. Seen
    BY <1>1, <2>1, <2>2, CountSeen
  <2> QED
    BY <1>1, <2>2, <2>3 DEF Kept, Holds
<1>2. CASE ~Holds(p)
  <2>1. UNCHANGED <<row, memo, subject, begun>>
    BY <1>2 DEF Release
  <2> QED
    BY <2>1, NothingSeen DEF Seen, Kept
<1> QED
  BY <1>1, <1>2

(* A pass that ends its run failed, or is refused.                         *)
LEMMA EndFailedSeen ==
    ASSUME JobInv, NEW p \in Passes, EndFailed(p)
    PROVE  Seen /\ (Kept \/ Ended)
<1>1. CASE Holds(p) /\ EndSubject("failed")
  <2>1. subject = "open"
    BY <1>1 DEF JobInv, JobOK, Holds
  <2>2. Job!End("failed")
    BY <1>1, <2>1, EndIsEnd
  <2>3. Ended
    BY <1>1 DEF EndSubject, Ended, InitRow
  <2> QED
    BY <2>2, <2>3 DEF Seen, Job!Next
<1>2. CASE UNCHANGED <<row, memo, subject, tried, begun, faults>>
  BY <1>2, NothingSeen DEF Seen, Kept
<1> QED
  BY <1>1, <1>2 DEF EndFailed

(* A claim charges the step the expired lease recorded.                    *)
LEMMA ClaimSeen ==
    ASSUME JobInv, NEW p \in Passes, Claim(p)
    PROVE  Seen /\ Kept
<1>1. /\ row.state # "gone"
      /\ row'.state = "leased"
      /\ begun' = {}
      /\ UNCHANGED subject
  BY DEF Claim, DueSchedule, ExpiredLease, JobInv, IInv, TypeOK
<1>2. SweptStep(row) \in begun \cup {NoStep}
  BY DEF SweptStep, JobInv, IInv, LedgerOK
<1>3. Seen
  BY <1>1, <1>2, CountSeen DEF Claim, JobInv, JobOK
<1> QED
  BY <1>1, <1>3 DEF Kept

(* A step that returned settles, if its pass still holds the lease.        *)
LEMMA StepReturnsSeen ==
    ASSUME JobInv, NEW p \in Passes, NEW s \in Steps, StepReturns(p, s)
    PROVE  Seen /\ Kept
<1>1. CASE Holds(p)
  <2>1. /\ subject = "open"
        /\ s \in begun
        /\ s # Terminal
        /\ ~IsFinal(memo[s].status)
    BY <1>1 DEF StepReturns, IsRunning, JobInv, JobOK, IInv, LedgerOK,
                OwnerBookCurrent, Holds
  <2>2. /\ memo' = Remembered(s)
        /\ UNCHANGED <<subject, begun>>
        /\ row' = [row EXCEPT !.lease = "live",
                              !.running = RunningAfterMemo(row, s)]
    BY <1>1 DEF StepReturns
  <2>3. Job!Succeed(s)
    BY <2>1, <2>2, ReturnIsSuccess
  <2>4. Kept
    BY <2>2 DEF Kept, JobInv, IInv, TypeOK
  <2> QED
    BY <2>3, <2>4 DEF Seen, Job!Next, Job!Steps, Steps
<1>2. CASE ~Holds(p)
  <2>1. UNCHANGED <<row, memo, subject, begun>>
    BY <1>2 DEF StepReturns
  <2> QED
    BY <2>1, NothingSeen DEF Seen, Kept
<1> QED
  BY <1>1, <1>2

(* The terminal record completes the job, if its pass still holds the      *)
(* lease.                                                                  *)
LEMMA TerminalWriteSeen ==
    ASSUME JobInv, NEW p \in Passes, TerminalWrite(p)
    PROVE  Seen /\ (Kept \/ Ended)
<1>1. CASE Holds(p)
  <2>1. /\ subject = "open"
        /\ Terminal \in begun
        /\ ~IsFinal(memo[Terminal].status)
    BY <1>1 DEF TerminalWrite, IsRunning, JobInv, JobOK, IInv, LedgerOK,
                OwnerBookCurrent, Holds, Steps
  <2>2. EndSubject("completed")
    BY <1>1 DEF TerminalWrite
  <2>3. Job!End("completed")
    BY <2>1, <2>2, EndIsEnd
  <2>4. Ended
    BY <2>2 DEF EndSubject, Ended, InitRow
  <2> QED
    BY <2>3, <2>4 DEF Seen, Job!Next
<1>2. CASE ~Holds(p)
  <2>1. UNCHANGED <<row, memo, subject, begun>>
    BY <1>2 DEF TerminalWrite
  <2> QED
    BY <2>1, NothingSeen DEF Seen, Kept
<1> QED
  BY <1>1, <1>2

(* Every release that hands the row back.                                  *)
LEMMA ReleasesSeen ==
    ASSUME JobInv, NEW p \in Passes,
           BodyFails(p) \/ ReleaseThrew(p) \/ Drain(p) \/ BudgetCut(p)
    PROVE  Seen /\ (Kept \/ Ended)
<1>0. row \in RowRecord
  BY DEF JobInv, IInv, TypeOK, RowRecord
<1>1. /\ BodyFailedRelease(row).state = "queued"
      /\ InterruptedRelease(row).state = "queued"
      /\ \A m : StepFailedRelease(row, m).state = "queued"
  BY <1>0
  DEF BodyFailedRelease, InterruptedRelease, StepFailedRelease, ReleasedRow,
      RowRecord
<1>2. Holds(p) => /\ pass[p].threw \in begun \cup {NoStep}
                  /\ RunningStep(p) \in begun \cup {NoStep}
  <2>1. pass[p].running \in Seq(Steps)
    BY DEF JobInv, IInv, TypeOK
  <2>2. RunningStep(p) \in Range(pass[p].running) \cup {NoStep}
    BY <2>1, HeadInRange DEF RunningStep
  <2> QED
    BY <2>2 DEF JobInv, IInv, LedgerOK
<1>3. CASE BodyFails(p)
  <2>1. EndFailed(p) \/ Release(p, NoStep, BodyFailedRelease(row))
    BY <1>3 DEF BodyFails
  <2> QED
    BY <1>1, <2>1, EndFailedSeen, ReleaseSeen
<1>4. CASE ReleaseThrew(p)
  <2>1. \E m : Release(p, pass[p].threw, StepFailedRelease(row, m))
    BY <1>4 DEF ReleaseThrew
  <2> QED
    BY <1>1, <1>2, <2>1, ReleaseSeen
<1>5. CASE Drain(p)
  BY <1>1, <1>5, ReleaseSeen DEF Drain
<1>6. CASE BudgetCut(p)
  BY <1>1, <1>2, <1>6, ReleaseSeen DEF BudgetCut
<1> QED
  BY <1>3, <1>4, <1>5, <1>6

(* A started step is nothing to the job until it settles or is charged.    *)
LEMMA StepStartSeen ==
    ASSUME JobInv, NEW p \in Passes, NEW s \in Steps, StepStart(p, s)
    PROVE  Seen /\ (Kept \/ Started)
<1>1. UNCHANGED <<row, memo, subject>>
  BY DEF StepStart
<1>2. Seen
  BY <1>1, NothingSeen DEF Seen
<1>3. CASE Holds(p)
  BY <1>1, <1>2, <1>3 DEF StepStart, Started
<1>4. CASE ~Holds(p)
  BY <1>1, <1>2, <1>4 DEF StepStart, Kept
<1> QED
  BY <1>2, <1>3, <1>4

(* Another writer ends the run under whichever pass is on it.              *)
LEMMA EndExecutionsSeen ==
    ASSUME JobInv, EndExecutions
    PROVE  Seen /\ Ended
<1>1. subject = "open" /\ EndSubject("canceled")
  BY DEF EndExecutions
<1>2. Job!End("canceled")
  BY <1>1, EndIsEnd
<1>3. Ended
  BY <1>1 DEF EndSubject, Ended, InitRow
<1> QED
  BY <1>2, <1>3 DEF Seen, Job!Next

(* The steps that write nothing the job is made of.                        *)
LEMMA QuietSeen ==
    ASSUME JobInv,
           \/ LeaseExpires \/ BackoffEnds \/ UNCHANGED vars
           \/ \E p \in Passes :
                 \/ OpenUnavailable(p) \/ LoadMemo(p) \/ TerminalAnswer(p)
                 \/ LeaveStopped(p) \/ BeatStart(p) \/ Beat(p) \/ Crash(p)
                 \/ \E s \in Steps : StepFails(p, s) \/ StepDropped(p, s)
    PROVE  Seen /\ Kept
<1>0. row \in RowRecord
  BY DEF JobInv, IInv, TypeOK, RowRecord
<1>1. CASE LeaseExpires \/ BackoffEnds \/ UNCHANGED vars
  <2>1. UNCHANGED <<memo, subject, begun>> /\ row'.state = row.state
    BY <1>0, <1>1 DEF LeaseExpires, BackoffEnds, vars, RowRecord
  <2> QED
    BY <2>1, NothingSeen DEF Seen, Kept
<1>2. ASSUME NEW p \in Passes,
             \/ OpenUnavailable(p) \/ LoadMemo(p) \/ TerminalAnswer(p)
             \/ LeaveStopped(p) \/ BeatStart(p) \/ Beat(p) \/ Crash(p)
             \/ \E s \in Steps : StepFails(p, s) \/ StepDropped(p, s)
      PROVE  Seen /\ Kept
  <2>1. UNCHANGED <<memo, subject, begun>> /\ row'.state = row.state
    BY <1>0, <1>2
    DEF OpenUnavailable, LoadMemo, TerminalAnswer, LeaveStopped, BeatStart,
        Beat, BeatLand, BeatFails, Crash, StepFails, StepDropped, RowRecord
  <2> QED
    BY <2>1, NothingSeen DEF Seen, Kept
<1> QED
  BY <1>1, <1>2

(* Every step is one of the job's, or nothing to it.                       *)
LEMMA NextSeen ==
    JobInv /\ [Next]_vars => Seen /\ (Kept \/ Ended \/ Started)
<1> SUFFICES ASSUME JobInv, [Next]_vars
             PROVE  Seen /\ (Kept \/ Ended \/ Started)
  OBVIOUS
<1>1. ASSUME NEW p \in Passes, OpenReady(p)
      PROVE  Seen /\ (Kept \/ Ended)
  <2>1. CASE UNCHANGED <<row, memo, subject, tried, begun, faults>>
    BY <2>1, NothingSeen DEF Seen, Kept
  <2> QED
    BY <1>1, <2>1, EndFailedSeen DEF OpenReady
<1>2. ASSUME NEW p \in Passes, BodySpent(p)
      PROVE  Seen /\ (Kept \/ Ended)
  BY <1>2, EndFailedSeen DEF BodySpent
<1> QED
  BY <1>1, <1>2, ClaimSeen, StepReturnsSeen, TerminalWriteSeen, ReleasesSeen,
     StepStartSeen, EndExecutionsSeen, QuietSeen
  DEF Next, Progress

----------------------------------------------------------------------------
(* What was begun stays ready: a settled step above it stays settled.      *)
LEMMA JobOKStep == JobInv /\ [Next]_vars => JobOK'
<1> SUFFICES ASSUME JobInv, [Next]_vars PROVE JobOK'
  OBVIOUS
<1>0. /\ Status \in [Steps -> MemoStatus]
      /\ Status' \in [Steps -> MemoStatus]
      /\ begun \subseteq Steps
      /\ IInv
  BY NextInv DEF JobInv, IInv, TypeOK, Status
<1>1. MemoKept
  BY <1>0, NextKeepsFinal
<1>2. CASE Ended
  BY <1>2 DEF Ended, JobOK
<1>3. CASE Kept
  <2>1. CASE subject = "open"
    <3>1. \A t \in Steps : IsFinal(Status[t]) => Status'[t] = Status[t]
      BY <1>1, <1>3, <2>1 DEF MemoKept, Status, Kept
    <3>2. \A s \in begun : Ready(Status, s)' = Ready(Status', s)
      BY DEF Ready, Settled
    <3>3. \A s \in begun : Ready(Status', s)
      BY <1>0, <3>1, ReadyGrows DEF JobInv, JobOK
    <3> QED
      BY <1>3, <2>1, <3>2, <3>3 DEF Kept, JobInv, JobOK
  <2>2. CASE subject # "open"
    BY <1>3, <2>2 DEF Kept, JobInv, JobOK
  <2> QED
    BY <2>1, <2>2
<1>4. CASE Started
  <2>1. PICK p \in Passes, s \in Steps :
           /\ Holds(p)
           /\ pass[p].at = "running"
           /\ Ready(pass[p].book, s)
           /\ begun' = begun \cup {s}
           /\ UNCHANGED <<row, memo, subject>>
    BY <1>4 DEF Started
  <2>2. /\ pass[p].book \in [Steps -> MemoStatus]
        /\ \A t \in Steps :
              IsFinal(pass[p].book[t]) => Status[t] = pass[p].book[t]
    BY <1>0, <2>1 DEF IInv, TypeOK, OwnerBookCurrent, Status
  <2>3. Ready(Status, s)
    BY <1>0, <2>1, <2>2, ReadyGrows
  <2>4. Status' = Status
    BY <2>1 DEF Status
  <2>5. subject = "open"
    BY <2>1 DEF JobInv, JobOK, Holds
  <2>6. \A t \in begun' : Ready(Status, t)
    BY <2>1, <2>3 DEF JobInv, JobOK
  <2>7. \A t \in begun' : Ready(Status, t)' = Ready(Status', t)
    BY DEF Ready, Settled
  <2> QED
    BY <2>1, <2>4, <2>5, <2>6, <2>7 DEF JobInv, JobOK
<1> QED
  BY <1>2, <1>3, <1>4, NextSeen

(* The strengthened invariant holds wherever the executor can be.          *)
LEMMA JobInvariant == Spec => []JobInv
<1>1. Init => JobOK
  BY DEF Init, InitRow, JobOK
<1>2. JobInv /\ [Next]_vars => JobInv'
  BY NextInv, JobOKStep DEF JobInv
<1> QED
  BY <1>1, <1>2, InitInv, PTL DEF Spec, JobInv

(* The executor implements the job: for any workers, passes, steps, graph  *)
(* and retry limit, what a crash, a stall, a sweep, a lost answer or       *)
(* another writer's end leaves in the memo is what a DurableJob may do.    *)
THEOREM ExecutorImplementsJob == Spec => ImplementsJob
<1>1. Init => Job!Init
  BY NoMemosFacts DEF Init, IsFinal, Job!Init, Job!Fresh, Job!Steps, Steps
<1>2. JobInv /\ [Next]_vars => [Job!Next]_(Job!jobVars)
  BY NextSeen DEF Seen
<1> QED
  BY <1>1, <1>2, JobInvariant, PTL DEF Spec, ImplementsJob, Job!Spec
==============================================================================
