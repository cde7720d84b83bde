-------------------------- MODULE RunExecutionProofs --------------------------
(***************************************************************************)
(* That RunWaits implements Execution, and that a run which completes has  *)
(* acted on the Events it accepted.                                        *)
(***************************************************************************)
EXTENDS RunWaitsProofs

-----------------------------------------------------------------------------
(* RunWaits implements Execution                                           *)

Accepted == {w \in Waits : HoldsEvent(w)}

Asleep == row.state = "waiting"

Seen == [Lifecycle!Next]_(Lifecycle!executionVars)

(* A pass that parked left the run waiting, if it left a park waiting.     *)
ParkedWaiting ==
  body.at = "parking" /\ (\E w \in Waits : park[w].status = "waiting")
    => exec.status = "waiting"

EInv == IInv /\ ParkedWaiting

(* A step that neither Events nor claims nor status tell apart.            *)
LEMMA NothingSeen ==
  ASSUME exec' = exec, Accepted' = Accepted, Asleep' <=> Asleep
  PROVE  Seen
BY DEF Seen, Lifecycle!executionVars, Accepted, Asleep

LEMMA WorkSeen ==
  ASSUME TypeOK, ~Asleep, ~Asleep', exec.status \in InFlight, NEW s \in InFlight,
         exec' = [exec EXCEPT !.status = s], Accepted' = Accepted
  PROVE  Seen
<1>1. /\ exec'.status = s /\ exec'.version = exec.version
      /\ exec'.claim = exec.claim
  BY DEF TypeOK
<1>2. Lifecycle!Work
  BY <1>1 DEF Lifecycle!Work, Lifecycle!InFlight, InFlight, Accepted, Asleep
<1> QED
  BY <1>2 DEF Seen, Lifecycle!Next

LEMMA ConsumeSeen ==
  ASSUME NEW w \in Waits, ~Asleep, ~Asleep', exec.status \in InFlight, exec' = exec,
         Accepted' = Accepted \ {w}
  PROVE  Seen
<1>1. Lifecycle!Consume(w)
  BY DEF Lifecycle!Consume, Lifecycle!InFlight, InFlight, Accepted, Asleep
<1> QED
  BY <1>1 DEF Seen, Lifecycle!Next

LEMMA StopSeen ==
  ASSUME TypeOK, NEW kind \in ClaimKinds, exec.status \in InFlight,
         exec.claim = "none", exec' = [exec EXCEPT !.claim = kind],
         Accepted' = Accepted, ~Asleep'
  PROVE  Seen
<1>1. /\ exec'.status = exec.status /\ exec'.version = exec.version
      /\ exec'.claim = kind
  BY DEF TypeOK
<1>2. Lifecycle!Stop(kind)
  BY <1>1 DEF Lifecycle!Stop, Lifecycle!InFlight, InFlight, Accepted, Asleep
<1> QED
  BY <1>2 DEF Seen, Lifecycle!Next, ClaimKinds

LEMMA EndSeen ==
  ASSUME TypeOK, NEW verdict \in Verdicts, EndRun(verdict), exec.status \in InFlight,
         exec.claim = CASE verdict = "canceled" -> "cancel"
                        [] verdict = "exited" -> "exit"
                        [] OTHER -> "none"
  PROVE  Seen
<1>1. /\ exec'.status = verdict /\ exec'.version = exec.version
      /\ exec'.claim = exec.claim
  BY DEF TypeOK, EndRun
<1>2. Accepted' = {}
  <2>1. ASSUME NEW w \in Waits PROVE ~HoldsEvent(w)'
    <3>1. park'[w] = IF OpenPark(park[w]) THEN [park[w] EXCEPT !.status = "cancelled"]
                                          ELSE park[w]
      BY DEF EndRun
    <3>2. park \in [Waits -> Parks]
      BY Shapes
    <3> QED
      BY <3>1, <3>2 DEF HoldsEvent, OpenPark, Parks
  <2> QED
    BY <2>1 DEF Accepted
<1>3. ~Asleep'
  BY DEF EndRun, EndPass, Asleep
<1>4. Lifecycle!End(verdict)
  BY <1>1, <1>2, <1>3 DEF Lifecycle!End, Lifecycle!InFlight, InFlight, Accepted, Asleep
<1> QED
  BY <1>4 DEF Seen, Lifecycle!Next, Verdicts

(* The Events a write to one park leaves.                                  *)
LEMMA OneAccepted ==
  ASSUME TypeOK, NEW w \in Waits, NEW p, park' = [park EXCEPT ![w] = p]
  PROVE  /\ ~(p.status = "resuming" /\ p.wake = "resume")
              => Accepted' = Accepted \ {w}
         /\ ~(p.status = "resuming" /\ p.wake = "resume") /\ ~HoldsEvent(w)
              => Accepted' = Accepted
         /\ p.status = "resuming" /\ p.wake = "resume"
              => Accepted' = Accepted \cup {w}
<1>1. /\ park'[w] = p
      /\ \A x \in Waits : x # w => park'[x] = park[x]
  BY DEF TypeOK
<1>2. \A x \in Waits : x # w => (HoldsEvent(x)' <=> HoldsEvent(x))
  BY <1>1 DEF HoldsEvent
<1>3. HoldsEvent(w)' <=> p.status = "resuming" /\ p.wake = "resume"
  BY <1>1 DEF HoldsEvent
<1> QED
  BY <1>2, <1>3 DEF Accepted

LEMMA SamePark ==
  ASSUME park' = park
  PROVE  Accepted' = Accepted
BY DEF Accepted, HoldsEvent

LEMMA ResolvedAccepted ==
  ASSUME TypeOK, NEW wake \in Wakes \ {"resume"}, park' = Resolved(wake)
  PROVE  Accepted' = Accepted
<1>1. ASSUME NEW x \in Waits PROVE HoldsEvent(x)' <=> HoldsEvent(x)
  <2>1. park'[x] = IF park[x].status = "waiting"
                     THEN [park[x] EXCEPT !.status = "resuming", !.wake = wake]
                     ELSE park[x]
    BY DEF Resolved
  <2>2. park \in [Waits -> Parks]
    BY Shapes
  <2> QED
    BY <2>1, <2>2 DEF HoldsEvent, Parks
<1> QED
  BY <1>1 DEF Accepted

LEMMA NotAsleepBy ==
  ASSUME TypeOK, row' = Requeued(row)
  PROVE  ~Asleep'
BY DEF TypeOK, Requeued, RequeuedByWake, Asleep

-----------------------------------------------------------------------------

LEMMA WaitSeen ==
  ASSUME EInv, NEW w \in Waits, WaitStep(w)
  PROVE  Seen
<1>1. body.at = "running"
  BY Zenon DEF WaitStep, AdmitOpen, AdmitClose, RequestExit, Admitted, Resolve,
       PrepareEnds, StartWait, ReparkWait, ToPark, Preparing, PrepareParks,
       PrepareRefused, WaitForEvent, Driving, ResumeFence, Resuming, ResumeRefused,
       ResumeSettle, ResumeEnds, AbandonWait, Replayed, Check, At
<1>2. TypeOK /\ ~Asleep /\ exec.status \in InFlight /\ row.state = "leased"
  BY <1>1 DEF EInv, IInv, RowsHeld, Asleep, TypeOK, InFlight, Verdicts
<1>3. ASSUME UNCHANGED <<exec, row, park>> PROVE Seen
  BY <1>3, NothingSeen, SamePark DEF Asleep
<1>4. ASSUME VersionRefused PROVE Seen
  BY <1>2, <1>4, NothingSeen, SamePark DEF VersionRefused, EndPass, Asleep
<1>5. park \in [Waits -> Parks]
  BY <1>2, Shapes
<1>6. CASE RequestExit(w)
  <2>1. CASE CanAdmitNode
    <3>1. /\ exec' = [exec EXCEPT !.claim = "exit"] /\ park' = Resolved("exit")
          /\ row' = row /\ exec.claim = "none"
      BY <1>6, <2>1 DEF RequestExit, CanAdmitNode
    <3>2. Accepted' = Accepted
      BY <1>2, <3>1, ResolvedAccepted DEF Wakes
    <3> QED
      BY <1>2, <3>1, <3>2, StopSeen DEF ClaimKinds, Asleep
  <2>2. CASE ~CanAdmitNode
    BY <1>3, <1>6, <2>2 DEF RequestExit
  <2> QED
    BY <2>1, <2>2
<1>7. CASE StartWait(w)
  <2>1. CASE UNCHANGED <<exec, park>>
    BY <1>3, <1>7, <2>1 DEF StartWait
  <2>2. CASE /\ exec' = [exec EXCEPT !.status = "waiting"]
             /\ park' = IF park[w].status \in {"absent", "waiting"}
                          THEN [park EXCEPT ![w] = Parked(w)] ELSE park
    <3>1. row' = row
      BY <1>7 DEF StartWait
    <3>2. Accepted' = Accepted
      BY <1>2, <2>2, OneAccepted, SamePark DEF Parked, HoldsEvent
    <3> QED
      BY <1>2, <2>2, <3>1, <3>2, WorkSeen DEF Asleep, InFlight
  <2> QED
    BY <1>7, <2>1, <2>2, Zenon DEF StartWait
<1>8. CASE ReparkWait(w)
  <2>1. CASE VersionRefused
    BY <1>4, <2>1
  <2>2. CASE /\ ReparkablePark(park[w]) /\ park' = [park EXCEPT ![w] = Parked(w)]
             /\ UNCHANGED <<exec, row>>
    <3>1. ~HoldsEvent(w)
      BY <2>2 DEF HoldsEvent, ReparkablePark
    <3>2. Parked(w).status = "waiting"
      BY DEF Parked
    <3>3. Accepted' = Accepted
      BY <1>2, <2>2, <3>1, <3>2, OneAccepted
    <3> QED
      BY <2>2, <3>3, NothingSeen DEF Asleep
  <2>3. CASE UNCHANGED <<exec, row, park>>
    BY <1>3, <2>3
  <2> QED
    BY <1>8, <2>1, <2>2, <2>3, Zenon DEF ReparkWait
<1>9. CASE ResumeFence(w)
  <2>1. row' = row /\ park' = park
    BY <1>9 DEF ResumeFence
  <2>2. CASE exec' = exec
    BY <1>3, <2>1, <2>2
  <2>3. CASE exec' = [exec EXCEPT !.status = "running"]
    BY <1>2, <2>1, <2>3, WorkSeen, SamePark DEF Asleep, InFlight
  <2> QED
    BY <1>9, <2>2, <2>3, Zenon DEF ResumeFence
<1>10. CASE ResumeSettle(w) \/ AbandonWait(w)
  <2>1. exec' = exec /\ row' = row
    BY <1>10 DEF ResumeSettle, AbandonWait
  <2>2. CASE ~OpenPark(park[w])
    <3>1. park' = park
      BY <1>10, <2>2 DEF ResumeSettle, AbandonWait
    <3> QED
      BY <1>3, <2>1, <3>1
  <2>3. CASE OpenPark(park[w])
    <3>1. \E s \in {"cancelled", "timed_out", "resumed"} :
             park' = [park EXCEPT ![w].status = s]
      BY <1>10, <2>3 DEF ResumeSettle, AbandonWait
    <3>2. PICK s \in {"cancelled", "timed_out", "resumed"} :
             park' = [park EXCEPT ![w] = [park[w] EXCEPT !.status = s]]
      BY <3>1
    <3>3. [park[w] EXCEPT !.status = s].status = s
      BY <1>5 DEF Parks
    <3>4. Accepted' = Accepted \ {w}
      BY <1>2, <3>2, <3>3, OneAccepted
    <3> QED
      BY <1>2, <2>1, <3>4, ConsumeSeen DEF Asleep
  <2> QED
    BY <2>2, <2>3
<1>11. CASE PrepareRefused(w) \/ ResumeRefused(w)
  BY <1>3, <1>4, <1>11 DEF PrepareRefused, ResumeRefused
<1>12. CASE \/ AdmitOpen(w) \/ AdmitClose(w) \/ Admitted(w) \/ Resolve(w)
            \/ PrepareEnds(w) \/ PrepareParks(w) \/ WaitForEvent(w)
            \/ ResumeEnds(w) \/ Replayed(w) \/ Check(w)
  BY <1>3, <1>12
     DEF AdmitOpen, AdmitClose, Admitted, Resolve, PrepareEnds, PrepareParks,
         WaitForEvent, ResumeEnds, Replayed, Check
<1> QED
  BY <1>6, <1>7, <1>8, <1>9, <1>10, <1>11, <1>12, Zenon DEF WaitStep

LEMMA ProducerSeen ==
  ASSUME EInv, Producer
  PROVE  Seen
<1>1. TypeOK /\ park \in [Waits -> Parks]
  BY Shapes DEF EInv, IInv
<1>2. ASSUME NEW w \in Waits, DeliverEvent(w) PROVE Seen
  <2>1. /\ exec' = exec /\ exec.status \in InFlight /\ exec.claim # "exit"
        /\ row' = Requeued(row)
        /\ park' = [park EXCEPT ![w] = [park[w] EXCEPT !.status = "resuming",
                                                      !.wake = "resume"]]
    BY <1>1, <1>2 DEF DeliverEvent
  <2>2. /\ [park[w] EXCEPT !.status = "resuming", !.wake = "resume"].status = "resuming"
        /\ [park[w] EXCEPT !.status = "resuming", !.wake = "resume"].wake = "resume"
    BY <1>1 DEF Parks
  <2>3. Accepted' = Accepted \cup {w}
    BY <1>1, <2>1, <2>2, OneAccepted
  <2>4. Lifecycle!Accept(w)
    BY <1>1, <2>1, <2>3, NotAsleepBy
    DEF Lifecycle!Accept, Lifecycle!InFlight, InFlight, Accepted, Asleep
  <2> QED
    BY <2>4 DEF Seen, Lifecycle!Next
<1>3. ASSUME NEW v \in Versions, Migrate(v) PROVE Seen
  <2>1. /\ exec.status = "waiting" /\ exec.claim = "none" /\ exec.version # v
        /\ exec' = [exec EXCEPT !.version = v]
        /\ park' = Resolved("migrate") /\ row' = Requeued(row)
        /\ MatchesClassification(ParkRows)
    BY <1>3 DEF Migrate
  <2>2. /\ exec'.status = exec.status /\ exec'.claim = exec.claim
        /\ exec'.version = v
    BY <1>1, <2>1 DEF TypeOK
  <2>3. Accepted = {}
    BY <2>1 DEF MatchesClassification, ParkRows, Accepted, HoldsEvent, OpenPark
  <2>4. Accepted' = Accepted
    BY <1>1, <2>1, ResolvedAccepted DEF Wakes
  <2>5. Lifecycle!Migrate(v)
    BY <1>1, <2>1, <2>2, <2>3, <2>4, NotAsleepBy
    DEF Lifecycle!Migrate, Accepted, Asleep
  <2> QED
    BY <2>5 DEF Seen, Lifecycle!Next
<1>4. CASE RequestCancel
  <2>1. /\ exec.status \in InFlight /\ exec.claim = "none"
        /\ exec' = [exec EXCEPT !.claim = "cancel"]
        /\ park' = Resolved("cancel") /\ row' = Requeued(row)
    BY <1>4 DEF RequestCancel
  <2> QED
    BY <1>1, <2>1, ResolvedAccepted, NotAsleepBy, StopSeen DEF Wakes, ClaimKinds
<1>5. CASE EndInFlight
  BY <1>1, <1>5, EndSeen DEF EndInFlight, Verdicts
<1> QED
  BY <1>2, <1>3, <1>4, <1>5 DEF Producer

LEMMA PassSeen ==
  ASSUME EInv, \/ Claim \/ Open \/ Drain \/ MarkWaitingIfParked \/ ReadOutcome
               \/ RecordEnd \/ PassCut \/ BackoffEnds \/ UNCHANGED vars
               \/ \E w \in Waits : DeadlinePasses(w)
  PROVE  Seen
<1>1. TypeOK /\ park \in [Waits -> Parks] /\ row \in Rows
  BY Shapes DEF EInv, IInv
<1>2. CASE Claim
  <2>1. exec' = exec /\ ~Asleep'
    BY <1>1, <1>2 DEF Claim, Asleep, Rows
  <2>2. ASSUME NEW x \in Waits PROVE HoldsEvent(x)' <=> HoldsEvent(x)
    <3>1. park'[x] = IF OverduePark(park[x])
                       THEN [park[x] EXCEPT !.status = "resuming", !.wake = "timeout"]
                       ELSE park[x]
      BY <1>2 DEF Claim
    <3> QED
      BY <1>1, <3>1 DEF HoldsEvent, Parks, OverduePark
  <2>3. Accepted' = Accepted
    BY <2>2 DEF Accepted
  <2>4. CASE Asleep
    <3>1. Lifecycle!WakeUp
      BY <2>1, <2>3, <2>4 DEF Lifecycle!WakeUp, Accepted, Asleep
    <3> QED
      BY <3>1 DEF Seen, Lifecycle!Next
  <2>5. CASE ~Asleep
    BY <2>1, <2>3, <2>5, NothingSeen
  <2> QED
    BY <2>4, <2>5
<1>3. CASE MarkWaitingIfParked
  <2>1. row' = row /\ park' = park
    BY <1>3 DEF MarkWaitingIfParked
  <2>2. CASE exec' = exec
    BY <2>1, <2>2, NothingSeen, SamePark DEF Asleep
  <2>3. CASE exec.status = "running" /\ exec' = [exec EXCEPT !.status = "waiting"]
    <3>1. row.state = "leased"
      BY <1>3 DEF MarkWaitingIfParked, Quiet, EInv, IInv, RowsHeld
    <3> QED
      BY <1>1, <2>1, <2>3, <3>1, WorkSeen, SamePark DEF Asleep, InFlight
  <2> QED
    BY <1>3, <2>2, <2>3 DEF MarkWaitingIfParked
<1>4. CASE RecordEnd
  <2>1. exec.status \in InFlight
    BY <1>1, <1>4 DEF RecordEnd, Walked, Quiet, EInv, IInv, RowsHeld, TypeOK, InFlight,
                      Verdicts
  <2>2. ASSUME FinishAdmits(TerminalStatus), EndRun(TerminalStatus) PROVE Seen
    <3>1. TerminalStatus \in {"exited", "canceled", "failed", "completed"}
      BY DEF TerminalStatus
    <3>2. TerminalStatus \in Verdicts
      BY <3>1 DEF Verdicts
    <3> QED
      BY <1>1, <2>1, <2>2, <3>2, EndSeen DEF FinishAdmits
  <2>3. ASSUME exec.claim = "exit", EndRun("exited") PROVE Seen
    BY <1>1, <2>1, <2>3, EndSeen DEF Verdicts
  <2>4. ASSUME UNCHANGED <<exec, row, park>> PROVE Seen
    BY <2>4, NothingSeen, SamePark DEF Asleep
  <2> QED
    BY <1>4, <2>2, <2>3, <2>4 DEF RecordEnd
<1>5. CASE PassCut
  <2>1. row.state = "leased"
    BY <1>5 DEF PassCut, EInv, IInv, RowsHeld
  <2>2. ~Asleep /\ ~Asleep' /\ exec' = exec /\ park' = park
    BY <1>5, <2>1 DEF PassCut, EndPass, Asleep
  <2> QED
    BY <2>2, NothingSeen, SamePark
<1>6. ASSUME NEW w \in Waits, DeadlinePasses(w) PROVE Seen
  <2>1. exec' = exec /\ (Asleep' <=> Asleep)
    BY <1>1, <1>6 DEF DeadlinePasses, Asleep, Rows
  <2>2. park' = [park EXCEPT ![w] = [park[w] EXCEPT !.deadline = "passed"]]
        /\ park[w].status = "waiting"
    BY <1>6 DEF DeadlinePasses
  <2>3. [park[w] EXCEPT !.deadline = "passed"].status = "waiting"
    BY <1>1, <2>2 DEF Parks
  <2>4. Accepted' = Accepted
    BY <1>1, <2>2, <2>3, OneAccepted DEF HoldsEvent
  <2> QED
    BY <2>1, <2>4, NothingSeen
<1>7. CASE BackoffEnds
  <2>1. exec' = exec /\ park' = park /\ (Asleep' <=> Asleep)
    BY <1>1, <1>7 DEF BackoffEnds, Asleep, Rows
  <2> QED
    BY <2>1, NothingSeen, SamePark
<1>8. CASE Open \/ Drain \/ ReadOutcome \/ UNCHANGED vars
  BY <1>8, NothingSeen, SamePark DEF Open, Drain, ReadOutcome, vars, Asleep
<1> QED
  BY <1>2, <1>3, <1>4, <1>5, <1>6, <1>7, <1>8

(* The release that puts a run to sleep reads its parks: one is waiting,   *)
(* so the run is, and none holds an Event.                                 *)
LEMMA SleepSeen ==
  ASSUME EInv, ReleaseParked
  PROVE  Seen
<1>1. /\ TypeOK /\ row.state = "leased" /\ body.at = "parking"
      /\ exec' = exec /\ park' = park /\ row' = ParkedRelease(row, ParkRows)
  BY DEF EInv, IInv, RowsHeld, ReleaseParked, EndPass
<1>2. Accepted' = Accepted /\ ~Asleep
  BY <1>1, SamePark DEF Asleep
<1>3. CASE ~Asleep'
  BY <1>1, <1>2, <1>3, NothingSeen
<1>4. CASE Asleep'
  <2> DEFINE open == {p \in ParkRows : p.status = "waiting"}
             unconsumed == \E p \in ParkRows : p.status = "resuming" /\ p.wake # "none"
  <2>1. ~unconsumed /\ open # {}
    BY <1>1, <1>4 DEF ParkedRelease, Asleep, TypeOK
  <2>2. PICK w \in Waits : park[w].status = "waiting"
    BY <2>1 DEF ParkRows
  <2>3. exec.status = "waiting"
    BY <1>1, <2>2 DEF EInv, ParkedWaiting
  <2>4. exec.claim # "exit"
    BY <2>2 DEF EInv, IInv, Local, ClaimAdmits
  <2>5. Accepted = {}
    BY <2>1 DEF ParkRows, Accepted, HoldsEvent
  <2>6. Lifecycle!FallAsleep
    BY <1>1, <1>2, <1>4, <2>3, <2>4, <2>5 DEF Lifecycle!FallAsleep, Accepted, Asleep
  <2> QED
    BY <2>6 DEF Seen, Lifecycle!Next
<1> QED
  BY <1>3, <1>4

LEMMA NextSeen ==
  EInv /\ [Next]_vars => Seen
BY WaitSeen, ProducerSeen, PassSeen, SleepSeen, Zenon DEF Next, PassStep

-----------------------------------------------------------------------------
(* Nothing parks or moves the run between endParked's write and the        *)
(* release, except what leaves it waiting or wakes every park.             *)
LEMMA ParkedWaitingStep ==
  ASSUME IInv, ParkedWaiting, [Next]_vars, IInv'
  PROVE  ParkedWaiting'
<1>1. TypeOK /\ park \in [Waits -> Parks] /\ body \in Bodies /\ exec \in Execs
  BY Shapes DEF IInv
<1> SUFFICES ASSUME body'.at = "parking",
                    NEW x \in Waits, park'[x].status = "waiting"
             PROVE  exec'.status = "waiting"
  BY DEF ParkedWaiting
<1>2. CASE MarkWaitingIfParked
  <2>1. exec.status \in InFlight
    BY <1>1, <1>2 DEF MarkWaitingIfParked, Quiet, IInv, RowsHeld, Execs, InFlight,
                      Verdicts
  <2>2. park[x].status = "waiting"
    BY <1>2 DEF MarkWaitingIfParked
  <2>3. exec.claim # "exit"
    BY <2>2 DEF IInv, Local, ClaimAdmits
  <2> QED
    BY <1>1, <1>2, <2>1, <2>2, <2>3 DEF MarkWaitingIfParked, InFlight, Execs
<1>3. ASSUME exec'.status = exec.status, body' = body,
             \A w \in Waits : park'[w].status = "waiting" => park[w].status = "waiting"
      PROVE  exec'.status = "waiting"
  BY <1>3 DEF ParkedWaiting
<1>4. CASE Producer
  <2>1. CASE EndInFlight
    BY <2>1 DEF EndInFlight, EndRun, EndPass, OffBody
  <2>2. ASSUME NEW w \in Waits, DeliverEvent(w)
        PROVE  exec'.status = "waiting"
    BY <1>1, <1>3, <2>2 DEF DeliverEvent, Parks
  <2>3. ASSUME NEW wake \in Wakes, park' = Resolved(wake), body' = body,
               exec'.status = exec.status
        PROVE  exec'.status = "waiting"
    BY <1>1, <1>3, <2>3 DEF Resolved, Parks
  <2>4. CASE RequestCancel
    BY <1>1, <2>3, <2>4 DEF RequestCancel, Execs, Wakes
  <2>5. CASE \E v \in Versions : Migrate(v)
    BY <1>1, <2>3, <2>5 DEF Migrate, Execs, Wakes
  <2> QED
    BY <1>4, <2>1, <2>2, <2>4, <2>5 DEF Producer
<1>5. ASSUME NEW w \in Waits, DeadlinePasses(w) PROVE exec'.status = "waiting"
  BY <1>1, <1>3, <1>5 DEF DeadlinePasses, Parks
<1>6. CASE UNCHANGED vars \/ BackoffEnds
  BY <1>3, <1>6 DEF vars, BackoffEnds
<1>7. ASSUME NEW w \in Waits, WaitStep(w) PROVE body'.at # "parking"
  <2>1. body.at = "running" /\ OffBody.at = "off"
    BY <1>7, Zenon DEF WaitStep, AdmitOpen, AdmitClose, RequestExit, Admitted, Resolve,
       PrepareEnds, StartWait, ReparkWait, ToPark, Preparing, PrepareParks,
       PrepareRefused, WaitForEvent, Driving, ResumeFence, Resuming, ResumeRefused,
       ResumeSettle, ResumeEnds, AbandonWait, Replayed, Check, At, OffBody
  <2>2. ASSUME \E s \in Stages : Go(w, s) PROVE body'.at = body.at
    BY <1>1, <2>2 DEF Go, Bodies
  <2>3. ASSUME NEW s, NEW wake, GoWith(w, s, wake) PROVE body'.at = body.at
    BY <1>1, <2>3 DEF GoWith, Bodies
  <2>4. ASSUME NEW s, Go(w, s) PROVE body'.at = body.at
    BY <1>1, <2>4 DEF Go, Bodies
  <2>5. ASSUME Check(w) PROVE body'.at = body.at
    BY <1>1, <2>5 DEF Check, Bodies
  <2>6. body'.at \in {body.at, "off"}
    BY <1>7, <2>1, <2>3, <2>4, <2>5, Zenon
    DEF WaitStep, AdmitOpen, AdmitClose, RequestExit, Admitted, Resolve,
       PrepareEnds, StartWait, ReparkWait, PrepareParks,
       PrepareRefused, WaitForEvent, ResumeFence, ResumeRefused,
       ResumeSettle, ResumeEnds, AbandonWait, Replayed, VersionRefused, EndPass
  <2> QED
    BY <2>1, <2>6
<1>8. CASE Claim \/ Open \/ Drain \/ ReleaseParked \/ ReadOutcome \/ RecordEnd \/ PassCut
  <2>1. OffBody.at = "off" /\ [OffBody EXCEPT !.at = "opening"].at = "opening"
    BY DEF OffBody
  <2>2. CASE Claim
    BY <2>1, <2>2 DEF Claim
  <2>3. CASE Open \/ Drain \/ ReadOutcome
    BY <1>1, <2>3 DEF Open, Drain, ReadOutcome, Quiet, Walked, Bodies
  <2>4. CASE ReleaseParked \/ PassCut
    BY <2>1, <2>4 DEF ReleaseParked, PassCut, EndPass
  <2>5. CASE RecordEnd
    BY <1>1, <2>1, <2>5 DEF RecordEnd, EndRun, EndPass, Walked, Quiet, Bodies
  <2> QED
    BY <1>8, <2>2, <2>3, <2>4, <2>5
<1> QED
  BY <1>2, <1>4, <1>5, <1>6, <1>7, <1>8, Zenon DEF Next, PassStep

LEMMA ExecutionInvariant == Spec => []EInv
<1>1. Init => ParkedWaiting
  BY DEF Init, OffBody, ParkedWaiting
<1>2. EInv /\ [Next]_vars => EInv'
  BY StepIInv, ParkedWaitingStep DEF EInv
<1> QED
  BY <1>1, <1>2, InitIInv, PTL DEF Spec, EInv

(***************************************************************************)
(* RunWaits implements Execution: for any graph, versions, modes and       *)
(* bounds, what a pass, a producer or the clock does to the rows is what   *)
(* an Execution may do, or nothing to it.                                  *)
(***************************************************************************)
THEOREM RunsAreExecutions == Spec => ImplementsExecution
<1>1. Init => Lifecycle!Init
  BY DEF Init, Lifecycle!Init, HoldsEvent
<1>2. EInv /\ [Next]_vars => [Lifecycle!Next]_(Lifecycle!executionVars)
  BY NextSeen DEF Seen
<1> QED
  BY <1>1, <1>2, ExecutionInvariant, PTL DEF Spec, ImplementsExecution, Lifecycle!Spec

-----------------------------------------------------------------------------
(* What a completed run leaves                                             *)

(* The Wait keeps its mode in every version it is moved to.                *)
ModesStand == \A x \in Waits : \A v \in Versions : Mode[x][v] = Mode[x][StartVersion]

(* An attempt below which the run goes on.                                 *)
GoesOn(x, a) ==
  /\ a.prep = "parked"
  /\ a.resume # "none"
  /\ ~IsClaimWake(a.resume)
  /\ ~(a.resume = "timeout" /\ <<x, a.ver>> \in SkipsOnTimeout)

Went(x) == \E k \in DOMAIN att[x] : GoesOn(x, att[x][k])

(* A Wait is worked on once all above it went on.                          *)
BelowOf(x) ==
  \/ body.stage[x] # "out"
  \/ att[x] # <<>>
  \/ park[x].status # "absent"
  => \A y \in Above[x] : Went(y)

(* A gated Wait is driven once admitted, and refused only with a claim.    *)
AdmissionOf(x) ==
  /\ /\ x \in Gated
     /\ body.stage[x] \notin {"out", "admit", "check", "done"} \/ att[x] # <<>>
     => answer.admit[x] = "admitted"
  /\ x \in Gated /\ body.stage[x] \in {"check", "done"}
     => answer.admit[x] \in {"admitted", "refused"}
  /\ answer.admit[x] = "refused" => exec.claim # "none"

(* A Wait of an unclaimed run that is over for this pass ended, and        *)
(* released what is below it if it went on.                                *)
EndedOf(x) ==
  /\ exec.claim = "none" /\ body.stage[x] \in {"check", "done"} =>
       /\ AllLeft(x) => Len(att[x]) >= WAIT_ATTEMPT_LIMIT
       /\ \A k \in DOMAIN att[x] : StopsAt(x, k) =>
            \/ att[x][k].prep # "parked"
            \/ att[x][k].resume # "none"
            \/ k > WAIT_ATTEMPT_LIMIT
  /\ exec.claim = "none" /\ body.stage[x] = "done" /\ x \notin body.released =>
       \A k \in DOMAIN att[x] : StopsAt(x, k) =>
         ~GoesOn(x, att[x][k]) \/ k > WAIT_ATTEMPT_LIMIT

IsDelay(x) == Mode[x][StartVersion] = "delay"

(* A park that a wake other than a Migration's may be on.                  *)
Owed(p) == OpenPark(p) /\ p.wake # "migrate"

(* A delay too late to wait for leaves no park but one a Migration woke:   *)
(* under the version the run pins its target was ahead, or was reached.    *)
SkippedOf(x) ==
  /\ \A k \in DOMAIN att[x] : att[x][k].prep = "skipped" =>
       /\ Len(att[x]) = 1
       /\ exec.claim = "none" => IsDelay(x) /\ ~Owed(park[x])
  /\ \A v \in Versions : answer.plan[x][v] = "skipped" => att[x] = <<>> /\ IsDelay(x)
  /\ park[x].status # "absent" => park[x].type = Mode[x][StartVersion]
  /\ IsDelay(x) /\ att[x] = <<>> /\ exec.claim = "none" /\ Owed(park[x]) =>
       /\ answer.plan[x][exec.version] \in {"ahead", "passed"}
       /\ body.at = "running" => body.version = exec.version

(* An Event that was acted on is on its row.                               *)
Answered(x) ==
  park[x].wake = "resume" /\ park[x].status \notin {"absent", "waiting"}

AnsweredOf(x) ==
  /\ body.wake[x] = "resume" => Answered(x)
  /\ \A k \in DOMAIN att[x] :
       /\ att[x][k].woke = "resume" => Answered(x)
       /\ att[x][k].resume = "resume" => Answered(x)
       /\ IsClaimWake(att[x][k].resume) => exec.claim # "none"
  /\ x \in Canceled /\ park[x].status # "absent" => exec.claim # "none"

(* What the Waits of a run have done, above and below one another.         *)
Sound(x) ==
  BelowOf(x) /\ AdmissionOf(x) /\ EndedOf(x) /\ SkippedOf(x) /\ AnsweredOf(x)

DInv ==
  /\ IInv
  /\ \A x \in body.released : Went(x)
  /\ \A x \in Waits : Sound(x)

-----------------------------------------------------------------------------
(* What a step leaves of a Wait it does not work on: its memo, and of its  *)
(* row and of the pass no more than these.                                 *)
Grows ==
  \A x \in Waits : \A k \in DOMAIN att[x] :
    GoesOn(x, att[x][k]) => k \in DOMAIN att'[x] /\ GoesOn(x, att'[x][k])

(* The Wait's own memo stands.                                             *)
MemoStands(x) ==
  /\ att'[x] = att[x]
  /\ answer'.admit[x] = answer.admit[x]
  /\ answer'.plan[x] = answer.plan[x]

(* Its row is neither written nor lost, an Event acted on stays on it, and *)
(* a delay's row that has yet to resume stays under the version it had.    *)
ParkGoes(x) ==
  /\ park'[x].status = "absent" <=> park[x].status = "absent"
  /\ park'[x].type = park[x].type
  /\ Answered(x) => Answered(x)'
  /\ exec'.claim = "none" /\ park[x].type = "delay" /\ Owed(park'[x]) =>
       Owed(park[x]) /\ exec'.version = exec.version

(* The pass keeps the Wait where it is, or ends.                           *)
BodyGoes(x) ==
  /\ body'.stage[x] \in {body.stage[x], "out"}
  /\ body'.wake[x] \in {body.wake[x], "none"}
  /\ body'.stage[x] # "out" =>
       /\ body'.version = body.version
       /\ x \in body.released => x \in body'.released
  /\ body'.at = "running" =>
       \/ body.at = "running" /\ body'.version = body.version
       \/ body'.version = exec'.version

(* A claim once made stands.                                               *)
ClaimGoes ==
  /\ exec'.workflow = exec.workflow
  /\ exec.claim # "none" => exec'.claim # "none"

(* A Wait the run went on below stays one it went on below.                *)
LEMMA WentOn ==
  ASSUME Grows, NEW x \in Waits, Went(x)
  PROVE  Went(x)'
BY DEF Grows, Went

(* What was so of a Wait stays so if its memo stands and its row goes so.  *)
LEMMA StandsStep ==
  ASSUME DInv, Grows, ClaimGoes, NEW x \in Waits, MemoStands(x), ParkGoes(x), BodyGoes(x)
  PROVE  Sound(x)'
<1>0. Sound(x) /\ Above'[x] = Above[x] /\ Above[x] \subseteq Waits
  <2>1. exec.workflow \in DOMAIN Workflows
    BY DEF DInv, IInv, TypeOK
  <2> QED
    BY <2>1, GraphAssumption DEF DInv, Above, ClaimGoes
<1>1. BelowOf(x)'
  <2>1. \/ body'.stage[x] # "out" \/ att'[x] # <<>> \/ park'[x].status # "absent"
        => \/ body.stage[x] # "out" \/ att[x] # <<>> \/ park[x].status # "absent"
    BY DEF MemoStands, ParkGoes, BodyGoes
  <2> QED
    BY <1>0, <2>1, WentOn DEF Sound, BelowOf
<1>2. AdmissionOf(x)'
  BY <1>0 DEF Sound, AdmissionOf, MemoStands, BodyGoes, ClaimGoes
<1>3. EndedOf(x)'
  <2> SUFFICES ASSUME body'.stage[x] # "out" PROVE EndedOf(x)'
    BY DEF EndedOf
  <2>1. body'.version = body.version
    BY DEF BodyGoes
  <2>2. /\ AllLeft(x)' <=> AllLeft(x)
        /\ \A k : StopsAt(x, k)' <=> StopsAt(x, k)
    BY <2>1 DEF AllLeft, StopsAt, Superseded, MemoStands
  <2> QED
    BY <1>0, <2>2 DEF Sound, EndedOf, MemoStands, BodyGoes, ClaimGoes
<1>4. SkippedOf(x)'
  <2>1. IsDelay(x)' <=> IsDelay(x)
    BY DEF IsDelay
  <2>2. ASSUME exec'.claim = "none", IsDelay(x), Owed(park'[x])
        PROVE  Owed(park[x]) /\ exec'.version = exec.version
    <3>1. park[x].status # "absent"
      BY <2>2 DEF ParkGoes, Owed, OpenPark
    <3>2. park[x].type = "delay"
      BY <1>0, <2>2, <3>1 DEF Sound, SkippedOf, IsDelay
    <3> QED
      BY <2>2, <3>2 DEF ParkGoes
  <2>3. exec'.claim = "none" => exec.claim = "none"
    BY DEF ClaimGoes
  <2>4. ASSUME NEW k \in DOMAIN att[x], att[x][k].prep = "skipped"
        PROVE  /\ Len(att[x]) = 1
               /\ exec'.claim = "none" => IsDelay(x) /\ ~Owed(park'[x])
    BY <1>0, <2>2, <2>3, <2>4 DEF Sound, SkippedOf
  <2>5. park'[x].status # "absent" => park'[x].type = Mode[x][StartVersion]
    BY <1>0 DEF Sound, SkippedOf, ParkGoes
  <2>6. IsDelay(x) /\ att[x] = <<>> /\ exec'.claim = "none" /\ Owed(park'[x]) =>
           /\ answer.plan[x][exec'.version] \in {"ahead", "passed"}
           /\ body'.at = "running" => body'.version = exec'.version
    BY <1>0, <2>2, <2>3 DEF Sound, SkippedOf, BodyGoes
  <2> QED
    BY <1>0, <2>1, <2>4, <2>5, <2>6 DEF Sound, SkippedOf, MemoStands
<1>5. AnsweredOf(x)'
  BY <1>0 DEF Sound, AnsweredOf, MemoStands, ParkGoes, BodyGoes, ClaimGoes, IsClaimWake
<1> QED
  BY <1>1, <1>2, <1>3, <1>4, <1>5 DEF Sound

(* A new run has worked on nothing.                                        *)
LEMMA InitSound ==
  ASSUME Init
  PROVE  DInv
<1>1. body.released = {}
  BY DEF Init, OffBody
<1>2. ASSUME NEW x \in Waits PROVE Sound(x)
  <2>1. /\ body.stage[x] = "out" /\ body.wake[x] = "none"
        /\ att[x] = <<>> /\ DOMAIN att[x] = {} /\ answer.admit[x] = "unread"
        /\ park[x].status = "absent"
        /\ \A v \in Versions : answer.plan[x][v] = "unread"
    BY DEF Init, OffBody, Unresolved
  <2> QED
    BY <2>1 DEF Sound, BelowOf, AdmissionOf, EndedOf, SkippedOf, AnsweredOf, Owed, OpenPark
<1> QED
  BY <1>1, <1>2, InitIInv DEF DInv

-----------------------------------------------------------------------------
(* The steps that work on no Wait.                                         *)

(* A step that works on no Wait keeps the invariant.                       *)
LEMMA AllStand ==
  ASSUME DInv, IInv', ClaimGoes, att' = att, answer'.admit = answer.admit,
         answer'.plan = answer.plan, body'.released \subseteq body.released,
         \A x \in Waits : ParkGoes(x) /\ BodyGoes(x)
  PROVE  DInv'
<1>1. Grows
  BY DEF Grows
<1>2. \A x \in Waits : Sound(x)'
  BY <1>1, StandsStep DEF MemoStands
<1>3. body.released \subseteq Waits
  BY DEF DInv, IInv, TypeOK
<1>4. \A x \in body'.released : Went(x)'
  BY <1>1, <1>3, WentOn DEF DInv
<1> QED
  BY <1>2, <1>4 DEF DInv

(* What the writes to the wait rows leave of one of them.                  *)
LEMMA SameParkGoes ==
  ASSUME NEW x \in Waits, park'[x] = park[x], exec'.version = exec.version
  PROVE  ParkGoes(x)
BY DEF ParkGoes, Answered, Owed, OpenPark

LEMMA ClosedParkGoes ==
  ASSUME DInv, NEW x \in Waits, NEW s \in {"resumed", "timed_out", "cancelled"},
         OpenPark(park[x]), park'[x] = [park[x] EXCEPT !.status = s]
  PROVE  ParkGoes(x)
<1>1. park[x] \in Parks
  BY Shapes DEF DInv, IInv
<1>2. /\ park'[x].status = s /\ park'[x].wake = park[x].wake
      /\ park'[x].type = park[x].type
  BY <1>1 DEF Parks
<1> QED
  BY <1>2 DEF ParkGoes, Answered, Owed, OpenPark

LEMMA WokenParkGoes ==
  ASSUME DInv, NEW x \in Waits, NEW wake \in Wakes \ {"none"},
         park[x].status = "waiting",
         park'[x] = [park[x] EXCEPT !.status = "resuming", !.wake = wake],
         \/ exec'.claim # "none"
         \/ wake = "migrate"
         \/ exec'.version = exec.version
  PROVE  ParkGoes(x)
<1>1. park[x] \in Parks
  BY Shapes DEF DInv, IInv
<1>2. /\ park'[x].status = "resuming" /\ park'[x].wake = wake
      /\ park'[x].type = park[x].type
  BY <1>1 DEF Parks
<1>3. park[x].wake = "none"
  BY DEF DInv, IInv, Local, ParkOf, ParkSound
<1> QED
  BY <1>2, <1>3 DEF ParkGoes, Answered, Owed, OpenPark

LEMMA ResolvedGoes ==
  ASSUME DInv, NEW wake \in Wakes \ {"none"}, park' = Resolved(wake),
         \/ exec'.claim # "none"
         \/ wake = "migrate" /\ \A x \in Waits : park[x].status # "resuming"
         \/ exec'.version = exec.version
  PROVE  \A x \in Waits : ParkGoes(x)
<1> SUFFICES ASSUME NEW x \in Waits PROVE ParkGoes(x)
  OBVIOUS
<1>1. CASE park[x].status = "waiting"
  <2>1. park'[x] = [park[x] EXCEPT !.status = "resuming", !.wake = wake]
    BY <1>1 DEF Resolved
  <2> QED
    BY <1>1, <2>1, WokenParkGoes
<1>2. CASE park[x].status # "waiting"
  <2>1. park'[x] = park[x]
    BY <1>2 DEF Resolved
  <2> QED
    BY <1>2, <2>1 DEF ParkGoes, Answered, Owed, OpenPark
<1> QED
  BY <1>1, <1>2

(* What the pass keeps, and what it forgets as it ends.                    *)
LEMMA SameBodyGoes ==
  ASSUME NEW x \in Waits, body' = body
  PROVE  BodyGoes(x)
BY DEF BodyGoes

LEMMA OffBodyGoes ==
  ASSUME NEW x \in Waits, \/ body' = OffBody
                          \/ body' = [OffBody EXCEPT !.at = "opening"]
  PROVE  BodyGoes(x) /\ body'.released = {}
<1>1. /\ body'.stage[x] = "out" /\ body'.wake[x] = "none"
      /\ body'.at # "running" /\ body'.released = {}
  BY DEF OffBody
<1> QED
  BY <1>1 DEF BodyGoes

LEMMA EndRunGoes ==
  ASSUME DInv, IInv', NEW status \in Verdicts, EndRun(status), UNCHANGED <<att, answer>>
  PROVE  DInv'
<1>1. /\ exec'.workflow = exec.workflow /\ exec'.claim = exec.claim
      /\ exec'.version = exec.version
  BY DEF EndRun, DInv, IInv, TypeOK
<1>2. ASSUME NEW x \in Waits PROVE ParkGoes(x)
  <2>1. park'[x] = IF OpenPark(park[x]) THEN [park[x] EXCEPT !.status = "cancelled"]
                                        ELSE park[x]
    BY DEF EndRun
  <2> QED
    BY <1>1, <2>1, ClosedParkGoes, SameParkGoes
<1>3. body' = OffBody
  BY DEF EndRun, EndPass
<1>4. \A x \in Waits : BodyGoes(x)
  BY <1>3, OffBodyGoes
<1>5. body'.released = {}
  BY <1>3 DEF OffBody
<1> QED
  BY <1>1, <1>2, <1>4, <1>5, AllStand DEF ClaimGoes

(* The producers' writes work on no Wait.                                  *)
LEMMA ProducerSound ==
  ASSUME DInv, ModesStand, IInv', Producer
  PROVE  DInv'
<1>1. TypeOK /\ exec \in Execs /\ park \in [Waits -> Parks]
  BY Shapes DEF DInv, IInv
<1>2. CASE EndInFlight
  BY <1>2, EndRunGoes DEF EndInFlight, Verdicts
<1>3. ASSUME body' = body, att' = att, answer' = answer, ClaimGoes,
             \A x \in Waits : ParkGoes(x)
      PROVE  DInv'
  BY <1>3, AllStand, SameBodyGoes
<1>4. CASE RequestCancel
  <2>1. exec'.workflow = exec.workflow /\ exec'.claim = "cancel"
    BY <1>1, <1>4 DEF RequestCancel, Execs
  <2> QED
    BY <1>3, <1>4, <2>1, ResolvedGoes DEF RequestCancel, ClaimGoes, Wakes
<1>5. ASSUME NEW v \in Versions, Migrate(v) PROVE DInv'
  <2>1. exec'.workflow = exec.workflow /\ exec'.claim = exec.claim
    BY <1>1, <1>5 DEF Migrate, Execs
  <2>2. \A x \in Waits : park[x].status # "resuming"
    BY <1>5 DEF Migrate, MatchesClassification, ParkRows, OpenPark
  <2> QED
    BY <1>3, <1>5, <2>1, <2>2, ResolvedGoes DEF Migrate, ClaimGoes, Wakes
<1>6. ASSUME NEW w \in Waits, DeliverEvent(w) PROVE DInv'
  <2>1. /\ exec' = exec /\ UNCHANGED <<att, answer, body>>
        /\ park[w].type = "event" /\ ClaimablePark(park[w])
        /\ park'[w] = [park[w] EXCEPT !.status = "resuming", !.wake = "resume"]
        /\ \A x \in Waits : x # w => park'[x] = park[x]
    BY <1>1, <1>6 DEF DeliverEvent
  <2>2. park'[w].status = "resuming" /\ park'[w].wake = "resume"
        /\ park'[w].type = "event"
    BY <1>1, <2>1 DEF Parks
  <2>3. ParkGoes(w)
    BY <2>1, <2>2 DEF ParkGoes, Answered, Owed, OpenPark, ClaimablePark
  <2>4. \A x \in Waits : ParkGoes(x)
    BY <2>1, <2>3, SameParkGoes
  <2> QED
    BY <1>3, <2>1, <2>4 DEF ClaimGoes
<1> QED
  BY <1>2, <1>4, <1>5, <1>6 DEF Producer

(* Nor do the steps that open, park, end or cut a pass, nor the clock's.   *)
LEMMA PassSound ==
  ASSUME DInv, IInv',
         \/ Claim \/ Open \/ MarkWaitingIfParked \/ ReleaseParked \/ ReadOutcome
         \/ RecordEnd \/ PassCut \/ BackoffEnds \/ UNCHANGED vars
         \/ \E w \in Waits : DeadlinePasses(w)
  PROVE  DInv'
<1>1. /\ TypeOK /\ exec \in Execs /\ park \in [Waits -> Parks] /\ answer \in Answers
      /\ body \in Bodies
  BY Shapes DEF DInv, IInv
<1>2. ASSUME exec' = exec, park' = park, UNCHANGED <<att, answer>>,
             body' = body \/ body' = OffBody
      PROVE  DInv'
  <2>1. ClaimGoes /\ \A x \in Waits : ParkGoes(x)
    BY <1>2, SameParkGoes DEF ClaimGoes
  <2>2. body'.released \subseteq body.released
    BY <1>2 DEF OffBody
  <2>3. \A x \in Waits : BodyGoes(x)
    BY <1>2, SameBodyGoes, OffBodyGoes
  <2> QED
    BY <1>2, <2>1, <2>2, <2>3, AllStand
<1>3. CASE BackoffEnds \/ UNCHANGED vars
  BY <1>2, <1>3 DEF BackoffEnds, vars
<1>4. CASE ReleaseParked \/ PassCut
  BY <1>2, <1>4 DEF ReleaseParked, PassCut, EndPass
<1>5. CASE Claim
  <2>1. ASSUME NEW x \in Waits PROVE ParkGoes(x)
    <3>1. park'[x] = IF OverduePark(park[x])
                       THEN [park[x] EXCEPT !.status = "resuming", !.wake = "timeout"]
                       ELSE park[x]
      BY <1>5 DEF Claim
    <3>2. exec' = exec
      BY <1>5 DEF Claim
    <3>3. CASE OverduePark(park[x])
      BY <3>1, <3>2, <3>3, WokenParkGoes DEF OverduePark, Wakes
    <3>4. CASE ~OverduePark(park[x])
      BY <3>1, <3>2, <3>4, SameParkGoes
    <3> QED
      BY <3>3, <3>4
  <2>2. body' = [OffBody EXCEPT !.at = "opening"]
    BY <1>5 DEF Claim
  <2>3. body'.released = {}
    BY <2>2 DEF OffBody
  <2>4. \A x \in Waits : BodyGoes(x)
    BY <2>2, OffBodyGoes
  <2> QED
    BY <1>5, <2>1, <2>3, <2>4, AllStand DEF Claim, ClaimGoes
<1>6. CASE Open
  <2>1. /\ body'.released = body.released /\ body'.stage = body.stage
        /\ body'.wake = body.wake /\ body'.version = exec.version
        /\ body.at = "opening" /\ exec' = exec /\ UNCHANGED <<park, att, answer>>
    BY <1>1, <1>6 DEF Open, Bodies
  <2>2. \A x \in Waits : body.stage[x] = "out"
    BY <2>1 DEF DInv, IInv, RowsHeld
  <2>3. \A x \in Waits : BodyGoes(x)
    BY <2>1, <2>2 DEF BodyGoes
  <2> QED
    BY <2>1, <2>3, AllStand, SameParkGoes DEF ClaimGoes
<1>7. CASE MarkWaitingIfParked \/ ReadOutcome
  <2>1. /\ body'.released = body.released /\ body'.stage = body.stage
        /\ body'.wake = body.wake /\ body'.version = body.version
        /\ body.at = "running" /\ UNCHANGED <<park, att>>
    BY <1>1, <1>7 DEF MarkWaitingIfParked, ReadOutcome, Walked, Quiet, Bodies
  <2>2. /\ exec'.workflow = exec.workflow /\ exec'.version = exec.version
        /\ exec'.claim = exec.claim
    BY <1>1, <1>7 DEF MarkWaitingIfParked, ReadOutcome, Execs
  <2>3. answer'.admit = answer.admit /\ answer'.plan = answer.plan
    BY <1>1, <1>7 DEF MarkWaitingIfParked, ReadOutcome, Answers
  <2>4. \A x \in Waits : BodyGoes(x)
    BY <2>1 DEF BodyGoes
  <2> QED
    BY <2>1, <2>2, <2>3, <2>4, AllStand, SameParkGoes DEF ClaimGoes
<1>8. CASE RecordEnd
  <2>1. ASSUME FinishAdmits(TerminalStatus), EndRun(TerminalStatus),
               UNCHANGED <<att, answer>>
        PROVE  DInv'
    <3>1. TerminalStatus \in Verdicts
      BY Zenon DEF TerminalStatus, Verdicts
    <3> QED
      BY <2>1, <3>1, EndRunGoes
  <2>2. ASSUME EndRun("exited"), UNCHANGED <<att, answer>> PROVE DInv'
    BY <2>2, EndRunGoes DEF Verdicts
  <2>3. ASSUME answer' = [answer EXCEPT !.refused = TRUE],
               body' = [body EXCEPT !.entered = TRUE],
               UNCHANGED <<exec, row, park, att>>
        PROVE  DInv'
    <3>1. /\ body'.released = body.released /\ body'.stage = body.stage
          /\ body'.wake = body.wake /\ body'.version = body.version
          /\ body'.at = body.at
          /\ answer'.admit = answer.admit /\ answer'.plan = answer.plan
      BY <1>1, <2>3 DEF Bodies, Answers
    <3>2. \A x \in Waits : BodyGoes(x)
      BY <3>1 DEF BodyGoes
    <3> QED
      BY <2>3, <3>1, <3>2, AllStand, SameParkGoes DEF ClaimGoes
  <2> QED
    BY <1>8, <2>1, <2>2, <2>3, Zenon DEF RecordEnd
<1>9. ASSUME NEW w \in Waits, DeadlinePasses(w) PROVE DInv'
  <2>1. /\ exec' = exec /\ UNCHANGED <<att, answer, body>>
        /\ park[w].status = "waiting"
        /\ park'[w] = [park[w] EXCEPT !.deadline = "passed"]
        /\ \A x \in Waits : x # w => park'[x] = park[x]
    BY <1>1, <1>9 DEF DeadlinePasses
  <2>2. /\ park'[w].status = park[w].status /\ park'[w].wake = park[w].wake
        /\ park'[w].type = park[w].type
    BY <1>1, <2>1 DEF Parks
  <2>3. ParkGoes(w)
    BY <2>1, <2>2 DEF ParkGoes, Answered, Owed, OpenPark
  <2>4. \A x \in Waits : ParkGoes(x)
    BY <2>1, <2>3, SameParkGoes
  <2> QED
    BY <2>1, <2>4, AllStand, SameBodyGoes DEF ClaimGoes
<1> QED
  BY <1>3, <1>4, <1>5, <1>6, <1>7, <1>8, <1>9

(* A round of held Waits is entered: all above them is released.           *)
LEMMA DrainSound ==
  ASSUME DInv, IInv', Drain
  PROVE  DInv'
<1>1. /\ UNCHANGED <<exec, row, park, att, answer>>
      /\ body \in Bodies /\ body.released \subseteq Waits
  BY Shapes DEF DInv, IInv, Drain, Bodies
<1>2. /\ body.at = "running" /\ body'.at = body.at /\ body'.version = body.version
      /\ body'.wake = body.wake /\ body'.released = body.released
      /\ \A x \in Waits : x \notin Held => body'.stage[x] = body.stage[x]
      /\ \A x \in Held : /\ body'.stage[x] \in {"admit", "drive"}
                         /\ x \in Gated => body'.stage[x] = "admit"
  BY <1>1 DEF Drain, Quiet, Bodies, Held
<1>3. Grows
  BY <1>1 DEF Grows
<1>4. ASSUME NEW x \in Waits PROVE Sound(x)'
  <2>1. CASE x \notin Held
    <3>1. BodyGoes(x)
      BY <1>2, <2>1 DEF BodyGoes
    <3> QED
      BY <1>1, <1>3, <3>1, SameParkGoes, StandsStep DEF MemoStands, ClaimGoes
  <2>2. CASE x \in Held
    <3>1. Above[x] \subseteq body.released /\ Above'[x] = Above[x]
      BY <1>1, <2>2 DEF Held, Above
    <3>2. BelowOf(x)'
      BY <1>1, <1>3, <3>1, WentOn DEF DInv, BelowOf
    <3>3. Sound(x)
      BY DEF DInv
    <3>4. AdmissionOf(x)'
      BY <1>1, <1>2, <2>2, <3>3 DEF Sound, AdmissionOf
    <3>5. EndedOf(x)'
      BY <1>2, <2>2 DEF EndedOf
    <3>6. SkippedOf(x)'
      BY <1>1, <1>2, <3>3 DEF Sound, SkippedOf, Owed, OpenPark, IsDelay
    <3>7. AnsweredOf(x)'
      BY <1>1, <1>2, <3>3 DEF Sound, AnsweredOf, Answered, IsClaimWake
    <3> QED
      BY <3>2, <3>4, <3>5, <3>6, <3>7 DEF Sound
  <2> QED
    BY <2>1, <2>2
<1>5. \A x \in body'.released : Went(x)'
  BY <1>1, <1>2, <1>3, WentOn DEF DInv
<1> QED
  BY <1>4, <1>5 DEF DInv

-----------------------------------------------------------------------------
(* The steps of one Wait.                                                  *)

SameRun ==
  /\ exec'.workflow = exec.workflow
  /\ exec'.version = exec.version
  /\ exec'.claim = exec.claim

(* A step of w keeps the invariant if it keeps w's own part, and goes on at*)
(* no attempt less.                                                        *)
LEMMA OwnStep ==
  ASSUME DInv, IInv', NEW w \in Waits, body.at = "running", body.stage[w] # "out",
         SameRun,
         \A x \in Waits \ {w} :
           /\ park'[x] = park[x] /\ MemoStands(x)
           /\ body'.stage[x] = body.stage[x] /\ body'.wake[x] = body.wake[x],
         body'.at = body.at, body'.version = body.version,
         body.released \subseteq body'.released,
         body'.released \subseteq body.released \cup {w},
         w \in body'.released => w \in body.released \/ Went(w),
         \A k \in DOMAIN att[w] :
           GoesOn(w, att[w][k]) => k \in DOMAIN att'[w] /\ GoesOn(w, att'[w][k]),
         AdmissionOf(w)', EndedOf(w)', SkippedOf(w)', AnsweredOf(w)'
  PROVE  DInv'
<1>1. Grows
  BY DEF Grows, MemoStands
<1>2. ClaimGoes
  BY DEF ClaimGoes, SameRun
<1>3. ASSUME NEW x \in Waits \ {w} PROVE Sound(x)'
  <2>1. BodyGoes(x)
    BY <1>3 DEF BodyGoes
  <2>2. ParkGoes(x)
    BY <1>3, SameParkGoes DEF SameRun
  <2> QED
    BY <1>1, <1>2, <1>3, <2>1, <2>2, StandsStep
<1>4. BelowOf(w)'
  <2>1. exec.workflow \in DOMAIN Workflows
    BY DEF DInv, IInv, TypeOK
  <2>2. Above'[w] = Above[w] /\ Above[w] \subseteq Waits
    BY <2>1, GraphAssumption DEF Above, SameRun
  <2>3. \A y \in Above[w] : Went(y)
    BY DEF DInv, Sound, BelowOf
  <2> QED
    BY <1>1, <2>2, <2>3, WentOn DEF BelowOf
<1>5. \A x \in Waits : Sound(x)'
  BY <1>3, <1>4 DEF Sound
<1>6. body.released \subseteq Waits
  BY DEF DInv, IInv, TypeOK
<1>7. \A x \in body'.released : Went(x)'
  BY <1>1, <1>6, WentOn DEF DInv
<1> QED
  BY <1>5, <1>7 DEF DInv

(* The body rewritten at w only.                                           *)
Moves(w, s, wake) ==
  \/ body' = [body EXCEPT !.stage[w] = s, !.wake[w] = wake]
  \/ body' = body /\ s = body.stage[w] /\ wake = body.wake[w]

LEMMA MovedAt ==
  ASSUME DInv, NEW w \in Waits, NEW s, NEW wake, Moves(w, s, wake)
  PROVE  /\ body'.at = body.at /\ body'.version = body.version
         /\ body'.released = body.released
         /\ body'.stage[w] = s /\ body'.wake[w] = wake
         /\ \A x \in Waits \ {w} :
              body'.stage[x] = body.stage[x] /\ body'.wake[x] = body.wake[x]
<1>1. body \in Bodies
  BY Shapes DEF DInv, IInv
<1>2. CASE body' = [body EXCEPT !.stage[w] = s, !.wake[w] = wake]
  <2>1. /\ body'.at = body.at /\ body'.version = body.version
        /\ body'.released = body.released
    BY <1>1, <1>2 DEF Bodies
  <2>2. body'.stage = [body.stage EXCEPT ![w] = s]
    BY <1>1, <1>2 DEF Bodies
  <2>3. body'.wake = [body.wake EXCEPT ![w] = wake]
    BY <1>1, <1>2 DEF Bodies
  <2>4. body.stage \in [Waits -> Stages] /\ body.wake \in [Waits -> Wakes]
    BY <1>1 DEF Bodies
  <2> QED
    BY <2>1, <2>2, <2>3, <2>4
<1>3. CASE body' = body /\ s = body.stage[w] /\ wake = body.wake[w]
  BY <1>3
<1> QED
  BY <1>2, <1>3 DEF Moves

(* The model's moves are such rewritings.                                  *)
LEMMA GoMoves ==
  ASSUME DInv, NEW w \in Waits, NEW s \in Stages, Go(w, s)
  PROVE  Moves(w, s, body.wake[w])
<1>1. IInv
  BY DEF DInv
<1>2. body' = [body EXCEPT !.stage[w] = s, !.wake[w] = body.wake[w]]
  <2>1. body \in Bodies
    BY <1>1, Shapes DEF IInv
  <2>2. body.wake = [body.wake EXCEPT ![w] = body.wake[w]]
    BY <2>1 DEF Bodies
  <2> QED
    BY <2>1, <2>2 DEF Go, Bodies
<1> QED
  BY <1>2, Zenon DEF Moves

LEMMA GoWithMoves ==
  ASSUME NEW w \in Waits, NEW s, NEW wake, GoWith(w, s, wake)
  PROVE  Moves(w, s, wake)
BY Zenon DEF Moves, GoWith

(* A step of w that prepares and resumes no attempt.                       *)
LEMMA QuietStep ==
  ASSUME DInv, IInv', NEW w \in Waits, body.at = "running", body.stage[w] # "out",
         NEW s, NEW wake, Moves(w, s, wake), SameRun,
         UNCHANGED <<att, answer>>,
         \A x \in Waits \ {w} : park'[x] = park[x],
         ParkGoes(w) \/ SkippedOf(w)',
         Answered(w) => Answered(w)',
         w \in Canceled /\ park'[w].status # "absent" =>
           park[w].status # "absent" \/ exec.claim # "none",
         wake = "resume" => body.wake[w] = "resume" \/ Answered(w)',
         AdmissionOf(w)', EndedOf(w)'
  PROVE  DInv'
<1>1. /\ body'.at = body.at /\ body'.version = body.version
      /\ body'.released = body.released
      /\ body'.stage[w] = s /\ body'.wake[w] = wake
      /\ \A x \in Waits \ {w} :
           body'.stage[x] = body.stage[x] /\ body'.wake[x] = body.wake[x]
  BY MovedAt
<1>2. /\ exec'.workflow = exec.workflow /\ exec'.version = exec.version
      /\ exec'.claim = exec.claim
  BY DEF SameRun
<1>3. Sound(w)
  BY DEF DInv
<1>4. SkippedOf(w)'
  <2> SUFFICES ASSUME ParkGoes(w) PROVE SkippedOf(w)'
    OBVIOUS
  <2>1. exec.claim = "none" /\ IsDelay(w) /\ Owed(park'[w]) => Owed(park[w])
    <3> SUFFICES ASSUME exec.claim = "none", IsDelay(w), Owed(park'[w])
                 PROVE  Owed(park[w])
      OBVIOUS
    <3>1. park[w].status # "absent"
      BY DEF ParkGoes, Owed, OpenPark
    <3>2. park[w].type = "delay"
      BY <1>3, <3>1 DEF Sound, SkippedOf, IsDelay
    <3> QED
      BY <1>2, <3>2 DEF ParkGoes
  <2>2. park'[w].status # "absent" => park'[w].type = Mode[w][StartVersion]
    BY <1>3 DEF Sound, SkippedOf, ParkGoes
  <2>3. ASSUME NEW k \in DOMAIN att[w], att[w][k].prep = "skipped"
        PROVE  /\ Len(att[w]) = 1
               /\ exec.claim = "none" => IsDelay(w) /\ ~Owed(park'[w])
    BY <1>3, <2>1, <2>3 DEF Sound, SkippedOf
  <2>4. IsDelay(w) /\ att[w] = <<>> /\ exec.claim = "none" /\ Owed(park'[w]) =>
          /\ answer.plan[w][exec.version] \in {"ahead", "passed"}
          /\ body.at = "running" => body.version = exec.version
    BY <1>3, <2>1 DEF Sound, SkippedOf
  <2>5. IsDelay(w)' <=> IsDelay(w)
    BY DEF IsDelay
  <2> QED
    BY <1>1, <1>2, <1>3, <2>2, <2>3, <2>4, <2>5 DEF Sound, SkippedOf
<1>5. AnsweredOf(w)'
  BY <1>1, <1>2, <1>3 DEF Sound, AnsweredOf, IsClaimWake
<1>6. \A x \in Waits : MemoStands(x)
  BY DEF MemoStands
<1> QED
  BY <1>1, <1>4, <1>5, <1>6, OwnStep

(* The pass ends, and the rows stay as they are.                           *)
LEMMA RefusedSound ==
  ASSUME DInv, IInv', VersionRefused
  PROVE  DInv'
<1>1. body' = OffBody /\ UNCHANGED <<exec, park, att, answer>>
  BY DEF VersionRefused, EndPass
<1>2. \A x \in Waits : ParkGoes(x) /\ BodyGoes(x)
  BY <1>1, SameParkGoes, OffBodyGoes
<1>3. body'.released = {}
  BY <1>1 DEF OffBody
<1> QED
  BY <1>1, <1>2, <1>3, AllStand DEF ClaimGoes

(* What a step of w finds.                                                 *)
LEMMA Found ==
  ASSUME DInv, NEW w \in Waits
  PROVE  /\ Sound(w) /\ Local(w) /\ TypeOK
         /\ exec \in Execs /\ park \in [Waits -> Parks] /\ answer \in Answers
         /\ body \in Bodies /\ att \in [Waits -> Seq(Attempts)]
         /\ exec = [exec EXCEPT !.status = exec.status]
         /\ body.at = "running" => exec.status \in InFlight
         /\ w \in Canceled /\ body.stage[w] # "out" => exec.claim # "none"
<1>1. w \in Canceled /\ body.stage[w] # "out" => exec.claim # "none"
  BY DEF DInv, IInv, Local, OutletOf, CancelRead
<1> QED
  BY <1>1, Shapes, Running DEF DInv, IInv

-----------------------------------------------------------------------------
(* Admission.                                                              *)

(* An admission answered.                                                  *)
LEMMA AdmissionSound ==
  ASSUME DInv, IInv', NEW w \in Waits, At(w, "admit"),
         UNCHANGED <<exec, park, att, body>>,
         NEW found, answer' = [answer EXCEPT !.admit[w] = found],
         answer.admit[w] # "admitted",
         found = "refused" => exec.claim # "none"
  PROVE  DInv'
<1>1. Sound(w) /\ answer \in Answers /\ body.stage[w] = "admit" /\ body.at = "running"
  BY Found DEF At
<1>2. /\ answer'.admit[w] = found /\ answer'.plan = answer.plan
      /\ \A x \in Waits \ {w} : answer'.admit[x] = answer.admit[x]
  BY <1>1 DEF Answers
<1>3. AdmissionOf(w)' /\ EndedOf(w)'
  BY <1>1, <1>2 DEF Sound, AdmissionOf, EndedOf
<1>4. SkippedOf(w)' /\ AnsweredOf(w)'
  BY <1>1, <1>2 DEF Sound, SkippedOf, AnsweredOf, Owed, OpenPark, IsDelay, Answered,
                    IsClaimWake
<1>5. \A x \in Waits \ {w} : MemoStands(x)
  BY <1>2 DEF MemoStands
<1> QED
  BY <1>1, <1>3, <1>4, <1>5, OwnStep DEF SameRun

LEMMA AdmitSound ==
  ASSUME DInv, IInv', NEW w \in Waits, AdmitOpen(w) \/ AdmitClose(w) \/ Admitted(w)
  PROVE  DInv'
<1>1. /\ At(w, "admit") /\ body.at = "running" /\ body.stage[w] = "admit"
      /\ Sound(w) /\ exec.status \in InFlight
      /\ exec = [exec EXCEPT !.status = exec.status]
  BY Found DEF AdmitOpen, AdmitClose, Admitted, At
<1>2. ~CanAdmitNode => exec.claim # "none"
  BY <1>1 DEF CanAdmitNode
<1>3. CASE AdmitOpen(w)
  <2>1. PICK found \in IF CanAdmitNode THEN {"eligible", "exiting"} ELSE {"refused"} :
          answer' = [answer EXCEPT !.admit[w] = found]
    BY <1>3 DEF AdmitOpen
  <2>2. found = "refused" => exec.claim # "none"
    BY <1>2, <2>1
  <2> QED
    BY <1>1, <1>3, <2>1, <2>2, AdmissionSound DEF AdmitOpen
<1>4. CASE AdmitClose(w)
  BY <1>1, <1>2, <1>4, AdmissionSound DEF AdmitClose
<1>5. CASE Admitted(w)
  <2>1. PICK s \in {"drive", "check"} :
          /\ Go(w, s)
          /\ s = "drive" => answer.admit[w] = "admitted"
          /\ s = "check" => answer.admit[w] = "refused"
    BY <1>5 DEF Admitted
  <2>2. Moves(w, s, body.wake[w]) /\ body'.stage[w] = s
    <3>1. s \in Stages
      BY DEF Stages
    <3>2. Moves(w, s, body.wake[w])
      BY <2>1, <3>1, GoMoves
    <3> QED
      BY <3>2, MovedAt
  <2>3. UNCHANGED <<exec, park, att, answer>>
        /\ SameRun
    BY <1>1, <1>5 DEF Admitted, SameRun
  <2>4. AdmissionOf(w)' /\ EndedOf(w)'
    BY <1>1, <2>1, <2>2, <2>3 DEF Sound, AdmissionOf, EndedOf
  <2>5. ParkGoes(w) /\ (Answered(w) => Answered(w)')
    BY <2>3, SameParkGoes DEF Answered
  <2> QED
    BY <1>1, <2>2, <2>3, <2>4, <2>5, QuietStep
<1> QED
  BY <1>3, <1>4, <1>5

(* A refused admission claims the run's exit.                              *)
LEMMA ExitSound ==
  ASSUME DInv, IInv', NEW w \in Waits, RequestExit(w)
  PROVE  DInv'
<1>1. /\ body.at = "running" /\ body.stage[w] = "admit" /\ answer.admit[w] = "exiting"
      /\ UNCHANGED <<att, body>> /\ answer' = [answer EXCEPT !.admit[w] = "refused"]
      /\ Sound(w) /\ exec.status \in InFlight /\ answer \in Answers /\ exec \in Execs
  BY Found DEF RequestExit, At
<1>2. /\ exec'.workflow = exec.workflow /\ exec'.version = exec.version
      /\ exec'.claim # "none"
  BY <1>1 DEF RequestExit, CanAdmitNode, Execs
<1>3. \A x \in Waits : ParkGoes(x)
  <2>1. CASE park' = Resolved("exit")
    BY <1>2, <2>1, ResolvedGoes DEF Wakes
  <2>2. CASE park' = park
    BY <1>2, <2>2, SameParkGoes
  <2> QED
    BY <2>1, <2>2 DEF RequestExit
<1>4. /\ answer'.admit[w] = "refused" /\ answer'.plan = answer.plan
      /\ \A x \in Waits \ {w} : answer'.admit[x] = answer.admit[x]
  BY <1>1 DEF Answers
<1>5. Grows /\ ClaimGoes
  BY <1>1, <1>2 DEF Grows, ClaimGoes
<1>6. ASSUME NEW x \in Waits \ {w} PROVE Sound(x)'
  <2>1. MemoStands(x) /\ BodyGoes(x)
    BY <1>1, <1>4, SameBodyGoes DEF MemoStands
  <2> QED
    BY <1>3, <1>5, <2>1, StandsStep
<1>7. Sound(w)'
  <2>1. BelowOf(w)'
    <3>1. exec.workflow \in DOMAIN Workflows
      BY DEF DInv, IInv, TypeOK
    <3>2. Above'[w] = Above[w] /\ Above[w] \subseteq Waits
      BY <1>2, <3>1, GraphAssumption DEF Above
    <3>3. \A y \in Above[w] : Went(y)
      BY <1>1 DEF Sound, BelowOf
    <3> QED
      BY <1>5, <3>2, <3>3, WentOn DEF BelowOf
  <2>2. AdmissionOf(w)' /\ EndedOf(w)'
    BY <1>1, <1>2, <1>4 DEF Sound, AdmissionOf, EndedOf
  <2>3. SkippedOf(w)'
    BY <1>1, <1>2, <1>3, <1>4 DEF Sound, SkippedOf, ParkGoes, IsDelay
  <2>4. AnsweredOf(w)'
    BY <1>1, <1>2, <1>3 DEF Sound, AnsweredOf, ParkGoes
  <2> QED
    BY <2>1, <2>2, <2>3, <2>4 DEF Sound
<1>8. body.released \subseteq Waits
  BY DEF DInv, IInv, TypeOK
<1>9. \A x \in body'.released : Went(x)'
  BY <1>1, <1>5, <1>8, WentOn DEF DInv
<1> QED
  BY <1>6, <1>7, <1>9 DEF DInv

-----------------------------------------------------------------------------
(* Preparing an attempt.                                                   *)

Busy == {"drive", "wrote", "refused", "fenced", "unfenced", "settled"}

(* A Wait past its admission stays admitted.                               *)
LEMMA AdmissionKept ==
  ASSUME DInv, NEW w \in Waits, SameRun, body.stage[w] \in Busy,
         answer'.admit[w] = answer.admit[w]
  PROVE  AdmissionOf(w)'
<1>1. Sound(w)
  BY Found
<1> QED
  BY <1>1 DEF Sound, AdmissionOf, SameRun, Busy

(* A step that leaves the row and the memo alone.                          *)
LEMMA BodyOnly ==
  ASSUME DInv, IInv', NEW w \in Waits, body.at = "running", body.stage[w] \in Busy,
         NEW s \in Busy \cup {"check", "parked"}, NEW wake, Moves(w, s, wake), SameRun,
         UNCHANGED <<park, att, answer>>,
         wake = "resume" => body.wake[w] = "resume" \/ Answered(w),
         s = "check" => EndedOf(w)'
  PROVE  DInv'
<1>1. AdmissionOf(w)'
  BY AdmissionKept
<1>2. EndedOf(w)'
  BY MovedAt DEF EndedOf, Busy
<1>3. ParkGoes(w) /\ (Answered(w)' <=> Answered(w))
  BY SameParkGoes DEF SameRun, Answered
<1>4. body.stage[w] # "out"
  BY DEF Busy
<1> QED
  BY <1>1, <1>2, <1>3, <1>4, QuietStep

(* An attempt prepared: it ends the Wait for this pass, or parks.          *)
LEMMA AppendedSound ==
  ASSUME DInv, IInv', NEW w \in Waits, body.at = "running", body.stage[w] \in Busy,
         AllLeft(w),
         NEW prep \in {"parked", "error", "skipped"}, NEW woke \in Wakes,
         NEW s \in {"check", "drive"},
         Prepared(w, prep, woke), Go(w, s), UNCHANGED <<exec, park>>,
         s = "check" => prep # "parked",
         prep = "skipped" =>
           /\ att[w] = <<>>
           /\ exec.claim = "none" => IsDelay(w) /\ ~Owed(park[w]),
         woke = "resume" => Answered(w)
  PROVE  DInv'
<1> DEFINE a == [prep |-> prep, ver |-> body.version, woke |-> woke, resume |-> "none"]
<1>1. /\ Sound(w) /\ TypeOK /\ att \in [Waits -> Seq(Attempts)] /\ answer \in Answers
      /\ SameRun
  BY Found DEF SameRun
<1>2. /\ att'[w] = Append(att[w], a)
      /\ \A x \in Waits \ {w} : att'[x] = att[x]
      /\ answer'.admit = answer.admit
      /\ answer'.plan[w] = Unresolved
      /\ \A x \in Waits \ {w} : answer'.plan[x] = answer.plan[x]
  BY <1>1 DEF Prepared, Answers
<1>3. /\ Len(att'[w]) = Len(att[w]) + 1 /\ Len(att[w]) \in Nat
      /\ DOMAIN att'[w] = 1 .. (Len(att[w]) + 1) /\ DOMAIN att[w] = 1 .. Len(att[w])
      /\ att'[w][Len(att[w]) + 1] = a
      /\ \A k \in DOMAIN att[w] : k \in DOMAIN att'[w] /\ att'[w][k] = att[w][k]
      /\ \A k \in DOMAIN att'[w] : k \in DOMAIN att[w] \/ k = Len(att[w]) + 1
      /\ att'[w] # <<>>
  <2>1. att[w] \in Seq(Attempts)
    BY <1>1
  <2>2. /\ Len(att'[w]) = Len(att[w]) + 1 /\ Len(att[w]) \in Nat
        /\ DOMAIN att'[w] = 1 .. (Len(att[w]) + 1) /\ DOMAIN att[w] = 1 .. Len(att[w])
        /\ att'[w][Len(att[w]) + 1] = a
        /\ \A k \in DOMAIN att[w] : att'[w][k] = att[w][k]
    BY <1>2, <2>1
  <2>3. \A k \in DOMAIN att[w] : k \in DOMAIN att'[w]
    BY <2>2
  <2>4. att'[w] # <<>>
    BY <2>2
  <2> HIDE DEF a
  <2> QED
    BY <2>2, <2>3, <2>4
<1>4. /\ body'.at = body.at /\ body'.version = body.version
      /\ body'.released = body.released
      /\ body'.stage[w] = s /\ body'.wake[w] = body.wake[w]
      /\ \A x \in Waits \ {w} :
           body'.stage[x] = body.stage[x] /\ body'.wake[x] = body.wake[x]
  <2>1. s \in Stages
    BY DEF Stages
  <2> QED
    BY <2>1, GoMoves, MovedAt
<1>5. a.prep = prep /\ a.woke = woke /\ a.resume = "none"
  OBVIOUS
<1> HIDE DEF a
<1>6. \A k \in DOMAIN att[w] : att[w][k].prep = "parked"
  BY DEF AllLeft, Superseded
<1>7. AdmissionOf(w)'
  BY <1>1, <1>2, AdmissionKept
<1>8. EndedOf(w)'
  <2> SUFFICES ASSUME s = "check" PROVE EndedOf(w)'
    BY <1>4 DEF EndedOf
  <2>1. a.prep # "parked"
    BY <1>5
  <2>2. ASSUME NEW j \in DOMAIN att[w]
        PROVE  /\ att'[w][j].prep = "parked" /\ att'[w][j].woke # "none"
               /\ att'[w][j].woke = "migrate" \/ att'[w][j].ver # body'.version
    BY <1>3, <1>4 DEF AllLeft, Superseded
  <2>3. ~AllLeft(w)'
    BY <1>3, <2>1 DEF AllLeft, Superseded
  <2>4. \A k \in DOMAIN att'[w] : StopsAt(w, k)' => att'[w][k].prep # "parked"
    BY <1>3, <2>1, <2>2 DEF StopsAt, Superseded
  <2> QED
    BY <2>3, <2>4 DEF EndedOf, GoesOn
<1>9. SkippedOf(w)'
  <2>1. ASSUME NEW k \in DOMAIN att'[w], att'[w][k].prep = "skipped"
        PROVE  /\ Len(att'[w]) = 1
               /\ exec'.claim = "none" => IsDelay(w)' /\ ~Owed(park'[w])
    <3>1. k = Len(att[w]) + 1 /\ prep = "skipped"
      BY <1>3, <1>5, <1>6, <2>1
    <3>2. Len(att[w]) = 0
      BY <3>1
    <3> QED
      BY <1>3, <3>1, <3>2 DEF IsDelay, Owed, OpenPark
  <2>2. \A v \in Versions : answer'.plan[w][v] = "unread"
    BY <1>2 DEF Unresolved
  <2>3. park'[w].status # "absent" => park'[w].type = Mode[w][StartVersion]
    BY <1>1 DEF Sound, SkippedOf
  <2> QED
    BY <1>3, <2>1, <2>2, <2>3 DEF SkippedOf
<1>10. AnsweredOf(w)'
  <2>1. Answered(w)' <=> Answered(w)
    BY DEF Answered
  <2>2. ASSUME NEW k \in DOMAIN att'[w]
        PROVE  /\ att'[w][k].woke = "resume" => Answered(w)
               /\ att'[w][k].resume = "resume" => Answered(w)
               /\ IsClaimWake(att'[w][k].resume) => exec.claim # "none"
    <3>1. CASE k \in DOMAIN att[w]
      BY <1>1, <1>3, <3>1 DEF Sound, AnsweredOf
    <3>2. CASE k = Len(att[w]) + 1
      BY <1>3, <1>5, <3>2 DEF IsClaimWake, ClaimKinds
    <3> QED
      BY <1>3, <3>1, <3>2
  <2> QED
    BY <1>1, <1>4, <2>1, <2>2 DEF Sound, AnsweredOf, IsClaimWake
<1>11. \A k \in DOMAIN att[w] :
         GoesOn(w, att[w][k]) => k \in DOMAIN att'[w] /\ GoesOn(w, att'[w][k])
  BY <1>3 DEF GoesOn
<1>12. \A x \in Waits \ {w} : MemoStands(x) /\ park'[x] = park[x]
  BY <1>2 DEF MemoStands
<1>13. body.stage[w] # "out"
  BY DEF Busy
<1> QED
  BY <1>1, <1>4, <1>7, <1>8, <1>9, <1>10, <1>11, <1>12, <1>13, OwnStep

(* The target of a delay is resolved once per version.                     *)
LEMMA ResolveSound ==
  ASSUME DInv, ModesStand, IInv', NEW w \in Waits, Resolve(w)
  PROVE  DInv'
<1>1. /\ Sound(w) /\ answer \in Answers /\ body \in Bodies /\ body.at = "running"
      /\ body.stage[w] = "drive" /\ body.stage[w] \in Busy /\ body.stage[w] # "out"
      /\ UNCHANGED <<exec, park, att, body>>
      /\ Attempt(w) = 1 => att[w] = <<>>
      /\ SameRun
  BY Found, NewAttempt DEF Resolve, Preparing, At, Busy, DInv, SameRun
<1>2. body.version \in Versions
  BY <1>1 DEF Bodies
<1>3. PICK plan \in Resolutions(w) :
         answer' = [answer EXCEPT !.plan[w][body.version] = plan]
  BY DEF Resolve
<1>4. /\ answer'.admit = answer.admit
      /\ answer'.plan[w][body.version] = plan
      /\ \A v \in Versions \ {body.version} : answer'.plan[w][v] = answer.plan[w][v]
      /\ \A x \in Waits \ {w} : answer'.plan[x] = answer.plan[x]
  BY <1>1, <1>2, <1>3 DEF Answers
<1>5. answer.plan[w][body.version] = "unread"
  BY DEF Resolve, Plan
<1>6. plan = "skipped" => att[w] = <<>> /\ IsDelay(w)
  BY <1>1, <1>2 DEF Resolutions, ModesStand, IsDelay
<1>7. SkippedOf(w)'
  <2>1. \A v \in Versions : answer'.plan[w][v] = "skipped" => att[w] = <<>> /\ IsDelay(w)
    BY <1>1, <1>4, <1>6 DEF Sound, SkippedOf
  <2>2. IsDelay(w) /\ att[w] = <<>> /\ exec.claim = "none" => ~Owed(park[w])
    BY <1>1, <1>5 DEF Sound, SkippedOf
  <2> QED
    BY <1>1, <2>1, <2>2 DEF Sound, SkippedOf, IsDelay, Owed, OpenPark
<1>8. AnsweredOf(w)'
  BY <1>1 DEF Sound, AnsweredOf, Answered, IsClaimWake
<1>9. AdmissionOf(w)' /\ EndedOf(w)'
  BY <1>1, <1>4, AdmissionKept DEF EndedOf
<1>10. \A x \in Waits \ {w} : MemoStands(x)
  BY <1>1, <1>4 DEF MemoStands
<1> QED
  BY <1>1, <1>7, <1>8, <1>9, <1>10, OwnStep

(* A Wait whose prepare step ends it: a skip leaves no Event on a park.    *)
LEMMA PrepareEndsSound ==
  ASSUME DInv, IInv', NEW w \in Waits, PrepareEnds(w)
  PROVE  DInv'
<1>1. /\ Sound(w) /\ body.at = "running" /\ body.stage[w] \in Busy /\ AllLeft(w)
      /\ body \in Bodies
      /\ Go(w, "check") /\ UNCHANGED <<exec, park>>
  BY Found, NewAttempt DEF PrepareEnds, Preparing, At, Busy, DInv
<1>2. PICK prep \in {"error", "skipped"} :
         answer.plan[w][body.version] = prep /\ Prepared(w, prep, "none")
  BY DEF PrepareEnds, Plan
<1>3. body.version \in Versions
  BY <1>1 DEF Bodies
<1>4. prep = "skipped" =>
        /\ att[w] = <<>>
        /\ exec.claim = "none" => IsDelay(w) /\ ~Owed(park[w])
  BY <1>1, <1>2, <1>3 DEF Sound, SkippedOf
<1>5. "none" \in Wakes /\ "none" # "resume"
  BY DEF Wakes
<1> QED
  BY <1>1, <1>2, <1>4, <1>5, AppendedSound

(* The park's write.                                                       *)
LEMMA WrittenSound ==
  ASSUME DInv, ModesStand, IInv', NEW w \in Waits, body.at = "running",
         body.stage[w] \in Busy, AllLeft(w), SameRun, UNCHANGED <<att, answer>>,
         park' = [park EXCEPT ![w] = Parked(w)], Go(w, "wrote"),
         ~Answered(w),
         att[w] = <<>> => exec.version = body.version /\ Plan(w) \in {"ahead", "passed"}
  PROVE  DInv'
<1>1. /\ Sound(w) /\ park \in [Waits -> Parks] /\ body \in Bodies
      /\ body.stage[w] # "out"
      /\ w \in Canceled => exec.claim # "none"
  BY Found DEF Busy
<1>2. /\ park'[w].status = "waiting" /\ park'[w].wake = "none"
      /\ park'[w].type = Mode[w][body.version]
      /\ \A x \in Waits \ {w} : park'[x] = park[x]
  BY <1>1 DEF Parked
<1>3. body.version \in Versions /\ Mode[w][body.version] = Mode[w][StartVersion]
  BY <1>1 DEF Bodies, ModesStand
<1>4. Moves(w, "wrote", body.wake[w]) /\ body'.stage[w] = "wrote"
      /\ body'.version = body.version
  BY GoMoves, MovedAt DEF Stages
<1>5. SkippedOf(w)'
  <2>1. \A k \in DOMAIN att[w] : att[w][k].prep # "skipped"
    BY DEF AllLeft, Superseded
  <2> QED
    BY <1>1, <1>2, <1>3, <1>4, <2>1
    DEF Sound, SkippedOf, IsDelay, SameRun, Plan
<1>6. AdmissionOf(w)' /\ EndedOf(w)'
  BY <1>4, AdmissionKept DEF EndedOf
<1>7. body.wake[w] = "resume" => body.wake[w] = "resume"
  OBVIOUS
<1> QED
  BY <1>1, <1>2, <1>4, <1>5, <1>6, QuietStep

LEMMA StartWaitSound ==
  ASSUME DInv, ModesStand, IInv', NEW w \in Waits, StartWait(w)
  PROVE  DInv'
<1>1. /\ Sound(w) /\ Local(w) /\ body.at = "running" /\ body.stage[w] \in Busy
      /\ AllLeft(w) /\ exec \in Execs
      /\ att[w] = <<>> /\ UNCHANGED <<att, answer>>
      /\ Plan(w) \in {"ahead", "passed"}
  BY Found, NewAttempt DEF StartWait, ToPark, Preparing, At, Busy, DInv
<1>2. SameRun
  BY <1>1 DEF SameRun, StartWait, Execs
<1>3. CASE park' = [park EXCEPT ![w] = Parked(w)] /\ Go(w, "wrote")
           /\ park[w].status \in {"absent", "waiting"} /\ exec.version = body.version
  BY <1>1, <1>2, <1>3, WrittenSound DEF Answered
<1>4. ASSUME NEW s \in {"wrote", "refused"}, Go(w, s), park' = park PROVE DInv'
  <2>1. Moves(w, s, body.wake[w]) /\ s \in Busy \cup {"check", "parked"} /\ s # "check"
    BY <1>4, GoMoves DEF Stages, Busy
  <2> QED
    BY <1>1, <1>2, <1>4, <2>1, BodyOnly
<1> QED
  BY <1>3, <1>4, Zenon DEF StartWait

LEMMA ReparkWaitSound ==
  ASSUME DInv, ModesStand, IInv', NEW w \in Waits, ReparkWait(w)
  PROVE  DInv'
<1>1. /\ Sound(w) /\ Local(w) /\ body.at = "running" /\ body.stage[w] \in Busy
      /\ AllLeft(w) /\ att[w] # <<>>
  BY Found, NewAttempt DEF ReparkWait, ToPark, Preparing, At, Busy, DInv
<1>2. CASE VersionRefused
  BY <1>2, RefusedSound
<1>3. CASE /\ ReparkablePark(park[w]) /\ park' = [park EXCEPT ![w] = Parked(w)]
           /\ Go(w, "wrote") /\ UNCHANGED <<exec, att, answer>>
  <2>1. ~Answered(w)
    BY <1>3 DEF Answered, ReparkablePark
  <2>2. SameRun
    BY <1>3 DEF SameRun
  <2> QED
    BY <1>1, <1>3, <2>1, <2>2, WrittenSound
<1>4. CASE Go(w, "refused") /\ UNCHANGED <<exec, park, att, answer>>
  <2>1. Moves(w, "refused", body.wake[w]) /\ "refused" \in Busy
    BY <1>4, GoMoves DEF Stages, Busy
  <2>2. SameRun
    BY <1>4 DEF SameRun
  <2> QED
    BY <1>1, <1>4, <2>1, <2>2, BodyOnly
<1> QED
  BY <1>2, <1>3, <1>4, Zenon DEF ReparkWait

LEMMA PrepareParksSound ==
  ASSUME DInv, IInv', NEW w \in Waits, PrepareParks(w)
  PROVE  DInv'
<1>1. /\ Local(w) /\ TypeOK /\ body.at = "running" /\ body.stage[w] = "wrote"
      /\ body.stage[w] \in Busy /\ UNCHANGED <<exec, park>> /\ Go(w, "drive")
  BY Found DEF PrepareParks, At, Busy
<1>2. AllLeft(w)
  BY <1>1 DEF Local, StageOf
<1>3. PICK woke \in {MissedWake(w), "timeout", "none"} : Prepared(w, "parked", woke)
  BY DEF PrepareParks
<1>4. woke \in Wakes
  BY <1>1, MissedIsWake DEF Wakes
<1>5. MissedWake(w) = "resume" => Answered(w)
  BY <1>1 DEF MissedWake, Answered, Local, ParkOf, ParkSound
<1>6. woke = "resume" => Answered(w)
  BY <1>5
<1> QED
  BY <1>1, <1>2, <1>3, <1>4, <1>6, AppendedSound

(* A park refused: the pass lost its version or its row.                   *)
LEMMA PrepareRefusedSound ==
  ASSUME DInv, IInv', NEW w \in Waits, PrepareRefused(w)
  PROVE  DInv'
<1>1. /\ Local(w) /\ TypeOK /\ body.at = "running" /\ body.stage[w] = "refused"
      /\ body.stage[w] \in Busy /\ exec \in Execs
  BY Found DEF PrepareRefused, At, Busy
<1>2. AllLeft(w) /\ Len(att[w]) < WAIT_ATTEMPT_LIMIT
  BY <1>1 DEF Local, StageOf
<1>3. /\ MissedWake(w) = "resume" => Answered(w)
      /\ ClaimWake(w) # "resume"
      /\ ClaimWake(w) # "none" => exec.claim # "none"
      /\ MissedWake(w) \in Wakes /\ ClaimWake(w) \in Wakes
  <2>1. MissedWake(w) = "resume" => Answered(w)
    BY <1>1 DEF MissedWake, Answered, Local, ParkOf, ParkSound
  <2>2. ClaimWake(w) # "resume" /\ (ClaimWake(w) # "none" => exec.claim # "none")
    BY <1>1 DEF ClaimWake, Execs, ClaimKinds
  <2> QED
    BY <1>1, <1>2, <2>1, <2>2, MissedClaim DEF DInv
<1>4. PICK wake \in {MissedWake(w), ClaimWake(w)} :
         \/ VersionRefused
         \/ /\ Attempt(w) = 1 /\ ClaimWake(w) # "none"
            /\ Prepared(w, "skipped", "none") /\ Go(w, "check")
            /\ UNCHANGED <<exec, park>>
         \/ /\ Prepared(w, "error", "none") /\ Go(w, "check")
            /\ UNCHANGED <<exec, park>>
         \/ /\ Prepared(w, "parked", wake) /\ Go(w, "drive")
            /\ UNCHANGED <<exec, park>>
  BY DEF PrepareRefused
<1>5. "none" \in Wakes /\ "none" # "resume"
  BY DEF Wakes
<1>6. CASE VersionRefused
  BY <1>6, RefusedSound
<1>7. CASE /\ Attempt(w) = 1 /\ ClaimWake(w) # "none"
           /\ Prepared(w, "skipped", "none") /\ Go(w, "check")
           /\ UNCHANGED <<exec, park>>
  <2>1. att[w] = <<>>
    BY <1>1, <1>2, <1>7, AttemptFound
  <2> QED
    BY <1>1, <1>2, <1>3, <1>5, <1>7, <2>1, AppendedSound
<1>8. CASE /\ Prepared(w, "error", "none") /\ Go(w, "check")
           /\ UNCHANGED <<exec, park>>
  BY <1>1, <1>2, <1>5, <1>8, AppendedSound
<1>9. CASE /\ Prepared(w, "parked", wake) /\ Go(w, "drive")
           /\ UNCHANGED <<exec, park>>
  BY <1>1, <1>2, <1>3, <1>9, AppendedSound
<1> QED
  BY <1>4, <1>6, <1>7, <1>8, <1>9

-----------------------------------------------------------------------------
(* Parking and resuming.                                                   *)

(* An attempt of w rewritten: woken, or resumed.                           *)
LEMMA RewrittenSound ==
  ASSUME DInv, IInv', NEW w \in Waits, body.at = "running", body.stage[w] \in Busy,
         NEW k \in DOMAIN att[w], NEW a,
         att' = [att EXCEPT ![w] = [att[w] EXCEPT ![k] = a]],
         a.prep = att[w][k].prep,
         UNCHANGED <<exec, park, answer>>,
         NEW s \in Busy \cup {"check", "parked"}, Moves(w, s, body.wake[w]),
         GoesOn(w, att[w][k]) => GoesOn(w, a),
         a.woke = "resume" \/ a.resume = "resume" => Answered(w),
         IsClaimWake(a.resume) => exec.claim # "none",
         s = "check" => EndedOf(w)'
  PROVE  DInv'
<1>1. Sound(w) /\ SameRun /\ IInv
  BY Found DEF SameRun, DInv
<1>2. /\ \A x \in Waits \ {w} : att'[x] = att[x]
      /\ DOMAIN att'[w] = DOMAIN att[w] /\ Len(att'[w]) = Len(att[w])
      /\ att'[w][k] = a
      /\ \A j \in DOMAIN att[w] : j # k => att'[w][j] = att[w][j]
      /\ att[w] # <<>> /\ att'[w] # <<>>
  BY <1>1, Rewritten
<1>3. /\ body'.at = body.at /\ body'.version = body.version
      /\ body'.released = body.released
      /\ body'.stage[w] = s /\ body'.wake[w] = body.wake[w]
      /\ \A x \in Waits \ {w} :
           body'.stage[x] = body.stage[x] /\ body'.wake[x] = body.wake[x]
  BY MovedAt
<1>4. AdmissionOf(w)'
  BY <1>1, AdmissionKept
<1>5. EndedOf(w)'
  BY <1>3 DEF EndedOf, Busy
<1>6. SkippedOf(w)'
  <2>1. \A j \in DOMAIN att'[w] : att'[w][j].prep = att[w][j].prep
    BY <1>2
  <2> QED
    BY <1>1, <1>2, <2>1 DEF Sound, SkippedOf, IsDelay, Owed, OpenPark
<1>7. AnsweredOf(w)'
  <2>1. Answered(w)' <=> Answered(w)
    BY DEF Answered
  <2>2. ASSUME NEW j \in DOMAIN att'[w]
        PROVE  /\ att'[w][j].woke = "resume" => Answered(w)
               /\ att'[w][j].resume = "resume" => Answered(w)
               /\ IsClaimWake(att'[w][j].resume) => exec.claim # "none"
    BY <1>1, <1>2 DEF Sound, AnsweredOf
  <2> QED
    BY <1>1, <1>3, <2>1, <2>2 DEF Sound, AnsweredOf, IsClaimWake
<1>8. \A j \in DOMAIN att[w] :
        GoesOn(w, att[w][j]) => j \in DOMAIN att'[w] /\ GoesOn(w, att'[w][j])
  BY <1>2
<1>9. \A x \in Waits \ {w} : MemoStands(x) /\ park'[x] = park[x]
  BY <1>2 DEF MemoStands
<1>10. body.stage[w] # "out"
  BY DEF Busy
<1> QED
  BY <1>1, <1>3, <1>4, <1>5, <1>6, <1>7, <1>8, <1>9, <1>10, OwnStep

(* A driven Wait, its attempt, and what its wakes say.                     *)
LEMMA DrivenSound ==
  ASSUME DInv, NEW w \in Waits, Driving(w)
  PROVE  /\ Sound(w) /\ Local(w) /\ body.at = "running" /\ body.stage[w] \in Busy
         /\ Attempt(w) \in DOMAIN att[w] /\ StopsAt(w, Attempt(w))
         /\ Current(w) \in Attempts /\ Current(w) = att[w][Attempt(w)]
         /\ AttemptSound(Current(w))
         /\ Current(w).woke = "resume" => Answered(w)
<1>1. IInv
  BY DEF DInv
<1>2. /\ Sound(w) /\ Local(w) /\ body.at = "running" /\ body.stage[w] = "drive"
      /\ Attempt(w) \in DOMAIN att[w] /\ StopsAt(w, Attempt(w))
      /\ att[w][Attempt(w)] \in Attempts /\ AttemptSound(att[w][Attempt(w)])
  BY <1>1, Found, DrivenAttempt
<1> QED
  BY <1>2 DEF Current, Busy, Sound, AnsweredOf

(* A parked attempt reads the wake its row holds, or parks the pass.       *)
LEMMA WaitForEventSound ==
  ASSUME DInv, IInv', NEW w \in Waits, WaitForEvent(w)
  PROVE  DInv'
<1>1. /\ Local(w) /\ body.at = "running" /\ body.stage[w] \in Busy
      /\ Attempt(w) \in DOMAIN att[w]
      /\ Current(w) \in Attempts /\ Current(w) = att[w][Attempt(w)]
      /\ AttemptSound(Current(w))
      /\ Current(w).prep = "parked" /\ Current(w).woke = "none"
      /\ UNCHANGED <<exec, park, answer>>
      /\ att \in [Waits -> Seq(Attempts)]
  BY DrivenSound, Found DEF WaitForEvent
<1>2. CASE park[w].wake # "none"
  <2>1. PICK a : a = [Current(w) EXCEPT !.woke = park[w].wake]
    OBVIOUS
  <2>2. att' = [att EXCEPT ![w] = [att[w] EXCEPT ![Attempt(w)] = a]]
    BY <1>1, <1>2, <2>1 DEF WaitForEvent
  <2>3. /\ a.prep = Current(w).prep /\ a.resume = Current(w).resume
        /\ a.woke = park[w].wake
    BY <1>1, <2>1 DEF Attempts
  <2>4. a.resume = "none"
    BY <1>1, <2>3 DEF AttemptSound
  <2>5. park[w].wake = "resume" => Answered(w)
    BY <1>1 DEF Local, ParkOf, ParkSound, Answered
  <2>6. Moves(w, body.stage[w], body.wake[w])
    BY <1>2 DEF WaitForEvent, Moves
  <2>7. ~GoesOn(w, att[w][Attempt(w)])
    BY <1>1, <2>3, <2>4 DEF GoesOn
  <2>8. ~IsClaimWake(a.resume) /\ a.resume # "resume"
    BY <2>4 DEF IsClaimWake, ClaimKinds
  <2>9. body.stage[w] \in Busy \cup {"check", "parked"} /\ body.stage[w] # "check"
    BY <1>1 DEF Busy
  <2> HIDE DEF Busy
  <2> QED
    BY <1>1, <2>2, <2>3, <2>5, <2>6, <2>7, <2>8, <2>9, RewrittenSound
<1>3. CASE park[w].wake = "none"
  <2>1. Moves(w, "parked", body.wake[w]) /\ UNCHANGED att
    BY <1>3, GoMoves DEF WaitForEvent, Stages
  <2> QED
    BY <1>1, <2>1, BodyOnly DEF SameRun
<1> QED
  BY <1>2, <1>3

LEMMA ResumeFenceSound ==
  ASSUME DInv, IInv', NEW w \in Waits, ResumeFence(w)
  PROVE  DInv'
<1>1. /\ body.at = "running" /\ body.stage[w] \in Busy
      /\ Current(w).woke = "resume" => Answered(w)
      /\ UNCHANGED <<park, att, answer>>
  BY DrivenSound DEF ResumeFence, Resuming
<1>2. SameRun
  BY Found DEF SameRun, ResumeFence, Execs
<1>3. CASE GoWith(w, "fenced", Current(w).woke)
  <2>1. Moves(w, "fenced", Current(w).woke) /\ "fenced" \in Busy
    BY <1>3, GoWithMoves DEF Busy
  <2> QED
    BY <1>1, <1>2, <2>1, BodyOnly
<1>4. CASE Go(w, "unfenced")
  <2>1. Moves(w, "unfenced", body.wake[w]) /\ "unfenced" \in Busy
    BY <1>4, GoMoves DEF Busy, Stages
  <2> QED
    BY <1>1, <1>2, <2>1, BodyOnly
<1> QED
  BY <1>3, <1>4, Zenon DEF ResumeFence

LEMMA ResumeRefusedSound ==
  ASSUME DInv, IInv', NEW w \in Waits, ResumeRefused(w)
  PROVE  DInv'
<1>1. body.at = "running" /\ body.stage[w] \in Busy /\ exec \in Execs
  BY Found DEF ResumeRefused, At, Busy
<1>2. CASE VersionRefused
  BY <1>2, RefusedSound
<1>3. CASE GoWith(w, "fenced", ClaimWake(w)) /\ UNCHANGED <<exec, park, att, answer>>
  <2>1. Moves(w, "fenced", ClaimWake(w)) /\ "fenced" \in Busy
    BY <1>3, GoWithMoves DEF Busy
  <2>2. ClaimWake(w) # "resume"
    BY <1>1 DEF ClaimWake, Execs, ClaimKinds
  <2>3. SameRun
    BY <1>3 DEF SameRun
  <2> QED
    BY <1>1, <1>3, <2>1, <2>2, <2>3, BodyOnly
<1> QED
  BY <1>2, <1>3, Zenon DEF ResumeRefused

(* A row is closed, and keeps its wake.                                    *)
LEMMA ClosedAt ==
  ASSUME DInv, NEW w \in Waits, NEW st \in {"cancelled", "timed_out", "resumed"},
         SameRun, OpenPark(park[w]) => park' = [park EXCEPT ![w].status = st],
         ~OpenPark(park[w]) => park' = park
  PROVE  /\ ParkGoes(w) /\ (Answered(w) => Answered(w)')
         /\ \A x \in Waits \ {w} : park'[x] = park[x]
         /\ park'[w].status # "absent" => park[w].status # "absent"
         /\ park'[w].wake = park[w].wake
         /\ park'[w].status # "waiting"
<1>1. park \in [Waits -> Parks] /\ park[w] \in Parks
  BY Found
<1>2. CASE OpenPark(park[w])
  <2>1. park'[w] = [park[w] EXCEPT !.status = st]
        /\ \A x \in Waits \ {w} : park'[x] = park[x]
    BY <1>1, <1>2
  <2>2. ParkGoes(w)
    BY <1>2, <2>1, ClosedParkGoes
  <2> QED
    BY <1>1, <1>2, <2>1, <2>2 DEF ParkGoes, Parks, OpenPark
<1>3. CASE ~OpenPark(park[w])
  BY <1>3, SameParkGoes DEF SameRun, Answered, OpenPark
<1> QED
  BY <1>2, <1>3

(* A row is settled: an Event that came before it wins over the deadline.  *)
LEMMA ResumeSettleSound ==
  ASSUME DInv, IInv', NEW w \in Waits, ResumeSettle(w)
  PROVE  DInv'
<1> DEFINE wake    == body.wake[w]
           timeout == wake = "timeout" /\ Mode[w][body.version] = "event"
           arrival == /\ park[w].wake = "resume"
                      /\ OpenPark(park[w]) \/ park[w].status = "resumed"
<1>1. /\ body.at = "running" /\ body.stage[w] \in Busy /\ body.stage[w] # "out"
      /\ SameRun /\ UNCHANGED <<att, answer>>
  BY DEF ResumeSettle, At, Busy, SameRun
<1>2. PICK next \in {wake, "resume"} :
        /\ GoWith(w, "settled", next)
        /\ next = "resume" => wake = "resume" \/ arrival
  BY DEF ResumeSettle
<1>3. PICK st \in {"cancelled", "timed_out", "resumed"} :
        /\ OpenPark(park[w]) => park' = [park EXCEPT ![w].status = st]
        /\ ~OpenPark(park[w]) => park' = park
  BY DEF ResumeSettle
<1>4. /\ ParkGoes(w) /\ (Answered(w) => Answered(w)')
      /\ \A x \in Waits \ {w} : park'[x] = park[x]
      /\ park'[w].status # "absent" => park[w].status # "absent"
      /\ park'[w].wake = park[w].wake /\ park'[w].status # "waiting"
  BY <1>1, <1>3, ClosedAt
<1>5. arrival => Answered(w)'
  BY <1>4 DEF Answered, ParkGoes, OpenPark
<1>6. Moves(w, "settled", next)
  BY <1>2, GoWithMoves
<1>7. body'.stage[w] = "settled"
  BY <1>6, MovedAt
<1>8. AdmissionOf(w)' /\ EndedOf(w)'
  BY <1>1, <1>7, AdmissionKept DEF EndedOf
<1>9. next = "resume" => body.wake[w] = "resume" \/ Answered(w)'
  BY <1>2, <1>5
<1> QED
  BY <1>1, <1>4, <1>6, <1>8, <1>9, QuietStep

(* The resume step is memoized: the Wait went on, or is halted.            *)
LEMMA ResumeEndsSound ==
  ASSUME DInv, IInv', NEW w \in Waits, ResumeEnds(w)
  PROVE  DInv'
<1>1. /\ Local(w) /\ Sound(w) /\ body.at = "running" /\ body.stage[w] = "settled"
      /\ body.stage[w] \in Busy /\ TypeOK /\ att \in [Waits -> Seq(Attempts)]
      /\ Go(w, "check") /\ UNCHANGED <<exec, park, answer>>
  BY Found DEF ResumeEnds, At, Busy
<1>2. PICK k \in DOMAIN att[w] :
        StopsAt(w, k) /\ att[w][k].woke # "none" /\ att[w][k].resume = "none"
  BY <1>1 DEF Local, StageOf
<1>3. Attempt(w) = k /\ att[w] \in Seq(Attempts) /\ att[w][k] \in Attempts
  BY <1>1, <1>2, AttemptFound
<1>4. PICK a : a = [att[w][k] EXCEPT !.resume = body.wake[w]]
  OBVIOUS
<1>5. att' = [att EXCEPT ![w] = [att[w] EXCEPT ![k] = a]]
  BY <1>1, <1>3, <1>4 DEF ResumeEnds
<1>6. /\ a.prep = att[w][k].prep /\ a.woke = att[w][k].woke /\ a.ver = att[w][k].ver
      /\ a.resume = body.wake[w]
  BY <1>3, <1>4 DEF Attempts
<1>7. Moves(w, "check", body.wake[w]) /\ body'.version = body.version
  BY <1>1, GoMoves, MovedAt DEF Stages
<1>8. EndedOf(w)'
  <2>1. /\ DOMAIN att'[w] = DOMAIN att[w] /\ att'[w][k] = a
        /\ \A j \in DOMAIN att[w] : j # k => att'[w][j] = att[w][j]
    <3>1. att'[w] = [att[w] EXCEPT ![k] = a]
      BY <1>1, <1>5
    <3> QED
      BY <1>3, <3>1
  <2>2. StopsAt(w, k)'
    <3>1. \A j \in DOMAIN att[w] :
            /\ att'[w][j].prep = att[w][j].prep /\ att'[w][j].woke = att[w][j].woke
            /\ att'[w][j].ver = att[w][j].ver
      BY <1>6, <2>1
    <3>2. \A j \in 1 .. (k - 1) : j \in DOMAIN att[w]
      BY <1>3
    <3> QED
      BY <1>2, <1>7, <2>1, <3>1, <3>2 DEF StopsAt, Superseded
  <2>3. TypeOK'
    BY DEF IInv
  <2>4. ASSUME NEW j, StopsAt(w, j)' PROVE j = k
    <3>1. DOMAIN att'[w] = 1 .. Len(att[w]) /\ Len(att[w]) \in Nat
      BY <1>3, <2>1
    <3>2. k \in 1 .. Len(att[w]) /\ j \in 1 .. Len(att[w])
      BY <2>2, <2>4, <3>1 DEF StopsAt
    <3>3. ~(j < k)
      <4>1. j < k => j \in 1 .. (k - 1)
        BY <3>2
      <4> QED
        BY <2>2, <2>4, <4>1 DEF StopsAt
    <3>4. ~(k < j)
      <4>1. k < j => k \in 1 .. (j - 1)
        BY <3>2
      <4> QED
        BY <2>2, <2>4, <4>1 DEF StopsAt
    <3> QED
      BY <3>2, <3>3, <3>4
  <2>5. att'[w][k].resume # "none"
    BY <1>1, <1>6, <2>1 DEF Local, StageOf
  <2>6. ~AllLeft(w)'
    BY <2>2 DEF AllLeft, StopsAt
  <2>7. body'.stage[w] = "check"
    BY <1>7, MovedAt
  <2> QED
    BY <2>4, <2>5, <2>6, <2>7 DEF EndedOf
<1>9. a.woke = "resume" \/ a.resume = "resume" => Answered(w)
  BY <1>1, <1>6 DEF Sound, AnsweredOf
<1>10. IsClaimWake(a.resume) => exec.claim # "none"
  BY <1>6, Running DEF DInv
<1>11. ~GoesOn(w, att[w][k])
  BY <1>2 DEF GoesOn
<1>12. "check" \in Busy \cup {"check", "parked"}
  OBVIOUS
<1> HIDE DEF Busy
<1> QED
  BY <1>1, <1>5, <1>6, <1>7, <1>8, <1>9, <1>10, <1>11, <1>12, RewrittenSound

(* A Wait past its last attempt fails.                                     *)
LEMMA AbandonSound ==
  ASSUME DInv, IInv', NEW w \in Waits, AbandonWait(w)
  PROVE  DInv'
<1>1. /\ body.at = "running" /\ body.stage[w] \in Busy /\ body.stage[w] # "out"
      /\ SameRun /\ UNCHANGED <<att, answer>> /\ Go(w, "check") /\ TypeOK
      /\ Attempt(w) > WAIT_ATTEMPT_LIMIT
  BY Found DEF AbandonWait, At, Busy, SameRun, Abandoned
<1>2. /\ OpenPark(park[w]) => park' = [park EXCEPT ![w].status = "cancelled"]
      /\ ~OpenPark(park[w]) => park' = park
  BY DEF AbandonWait
<1>3. /\ ParkGoes(w) /\ (Answered(w) => Answered(w)')
      /\ \A x \in Waits \ {w} : park'[x] = park[x]
      /\ park'[w].status # "absent" => park[w].status # "absent"
  BY <1>1, <1>2, ClosedAt
<1>4. Moves(w, "check", body.wake[w]) /\ body'.stage[w] = "check"
      /\ body'.version = body.version
  BY <1>1, GoMoves, MovedAt DEF Stages
<1>5. EndedOf(w)'
  <2>1. Len(att[w]) >= WAIT_ATTEMPT_LIMIT
    BY <1>1, AttemptIs, BoundsAssumption
  <2>2. \A k : StopsAt(w, k)' => k > WAIT_ATTEMPT_LIMIT
    <3>1. \A k : StopsAt(w, k)' => StopsAt(w, k)
      BY <1>1, <1>4 DEF StopsAt, Superseded
    <3> QED
      BY <1>1, <3>1, AttemptFound
  <2> QED
    BY <1>1, <1>4, <2>1, <2>2 DEF EndedOf
<1>6. AdmissionOf(w)'
  BY <1>1, AdmissionKept
<1> QED
  BY <1>1, <1>3, <1>4, <1>5, <1>6, QuietStep

(* A pass that finds the Wait over does nothing more to it.                *)
LEMMA ReplayedSound ==
  ASSUME DInv, IInv', NEW w \in Waits, Replayed(w)
  PROVE  DInv'
<1>1. /\ body.at = "running" /\ body.stage[w] \in Busy /\ TypeOK
      /\ SameRun /\ UNCHANGED <<exec, park, att, answer>> /\ Go(w, "check")
      /\ ~IsNew(w) /\ ~Abandoned(w) /\ Outcome(w) # "open"
      /\ StopsAt(w, Attempt(w)) /\ Current(w) = att[w][Attempt(w)]
  BY Found, DrivenSound DEF Replayed, Driving, SameRun
<1>2. Moves(w, "check", body.wake[w]) /\ body'.stage[w] = "check"
      /\ body'.version = body.version
  BY <1>1, GoMoves, MovedAt DEF Stages
<1>3. Current(w).prep # "parked" \/ Current(w).resume # "none"
  BY <1>1 DEF Outcome, IsClaimWake, ClaimKinds
<1>4. EndedOf(w)'
  <2>1. /\ AllLeft(w)' <=> AllLeft(w)
        /\ \A k : StopsAt(w, k)' <=> StopsAt(w, k)
    BY <1>1, <1>2 DEF AllLeft, StopsAt, Superseded
  <2>2. ~AllLeft(w) /\ \A k : StopsAt(w, k) => k = Attempt(w)
    BY <1>1, AttemptFound
  <2> QED
    BY <1>1, <1>2, <1>3, <2>1, <2>2 DEF EndedOf
<1>5. "check" \in Busy \cup {"check", "parked"}
  OBVIOUS
<1> QED
  BY <1>1, <1>2, <1>4, <1>5, BodyOnly

(* A Wait that went on releases those below it; no other does.             *)
LEMMA CheckSound ==
  ASSUME DInv, IInv', NEW w \in Waits, Check(w)
  PROVE  DInv'
<1>1. /\ Sound(w) /\ body.at = "running" /\ body.stage[w] = "check"
      /\ body.stage[w] # "out" /\ SameRun /\ TypeOK
      /\ UNCHANGED <<exec, park, att>>
      /\ body \in Bodies /\ answer \in Answers
  BY Found DEF Check, At, SameRun
<1> DEFINE found == IF w \in Canceled THEN "none"
                    ELSE IF answer.check[w] # "unread" THEN answer.check[w]
                    ELSE IF exec.claim = "cancel" THEN "cancel" ELSE "none"
           entered == w \notin Canceled /\ (body.entered \/ found = "cancel")
           admitted == w \in Gated => answer.admit[w] = "admitted"
           goesOn == ~entered /\ admitted /\ Outcome(w) = "continued"
<1>2. /\ answer' = IF w \in Canceled THEN answer
                        ELSE [answer EXCEPT !.check[w] = found]
      /\ body' = [body EXCEPT !.stage[w] = "done",
                         !.entered = @ \/ entered,
                         !.released = IF goesOn THEN @ \cup {w} ELSE @]
      /\ entered => exec.claim = "cancel"
      /\ goesOn <=> /\ ~entered
                    /\ w \in Gated => answer.admit[w] = "admitted"
                    /\ Outcome(w) = "continued"
  <2>1. entered => exec.claim = "cancel"
    BY DEF DInv, IInv, CancelRead
  <2>2. /\ answer' = IF w \in Canceled THEN answer
                        ELSE [answer EXCEPT !.check[w] = found]
        /\ body' = [body EXCEPT !.stage[w] = "done",
                         !.entered = @ \/ entered,
                         !.released = IF goesOn THEN @ \cup {w} ELSE @]
    BY DEF Check
  <2>3. goesOn <=> /\ ~entered
                   /\ w \in Gated => answer.admit[w] = "admitted"
                   /\ Outcome(w) = "continued"
    OBVIOUS
  <2> HIDE DEF found, entered, goesOn
  <2> QED
    BY <2>1, <2>2, <2>3
<1> HIDE DEF found, entered, admitted, goesOn
<1>3. /\ body'.at = body.at /\ body'.version = body.version
      /\ body'.released = IF goesOn THEN body.released \cup {w} ELSE body.released
      /\ body'.stage[w] = "done" /\ body'.wake = body.wake
      /\ \A x \in Waits \ {w} : body'.stage[x] = body.stage[x]
  BY <1>1, <1>2 DEF Bodies
<1>4. answer'.admit = answer.admit /\ answer'.plan = answer.plan
  BY <1>1, <1>2 DEF Answers
<1>5. Outcome(w) = "continued" =>
        StopsAt(w, Attempt(w)) /\ GoesOn(w, att[w][Attempt(w)])
  <2> SUFFICES ASSUME Outcome(w) = "continued"
               PROVE  StopsAt(w, Attempt(w)) /\ GoesOn(w, att[w][Attempt(w)])
    OBVIOUS
  <2>1. ~IsNew(w) /\ ~Abandoned(w)
    BY DEF Outcome
  <2>2. StopsAt(w, Attempt(w)) /\ att[w][Attempt(w)] \in Attempts
    <3>1. StopsAt(w, Attempt(w))
      BY <1>1, <2>1, AttemptFound
    <3>2. att[w] \in Seq(Attempts)
      BY <1>1 DEF TypeOK
    <3> QED
      BY <3>1, <3>2 DEF StopsAt
  <2> QED
    BY <2>1, <2>2 DEF Outcome, Current, GoesOn, Attempts
<1>6. goesOn => Went(w)
  BY <1>2, <1>5 DEF Went, StopsAt
<1>7. ASSUME exec.claim = "none", Outcome(w) # "continued",
             NEW k, StopsAt(w, k), GoesOn(w, att[w][k])
      PROVE  k > WAIT_ATTEMPT_LIMIT
  <2>1. Attempt(w) = k /\ ~IsNew(w)
    BY <1>1, <1>7, AttemptFound
  <2>2. Abandoned(w)
    BY <1>7, <2>1 DEF Outcome, Current, GoesOn
  <2> QED
    BY <2>1, <2>2 DEF Abandoned
<1>8. EndedOf(w)'
  <2>1. /\ AllLeft(w)' <=> AllLeft(w)
        /\ \A k : StopsAt(w, k)' <=> StopsAt(w, k)
    BY <1>1, <1>3 DEF AllLeft, StopsAt, Superseded
  <2>2. exec.claim = "none" => ~entered /\ (w \in Gated => answer.admit[w] = "admitted")
    BY <1>1, <1>2 DEF Sound, AdmissionOf
  <2>3. exec.claim = "none" /\ w \notin body'.released => Outcome(w) # "continued"
    BY <1>2, <1>3, <2>2
  <2>4. \A k : GoesOn(w, att[w][k])' <=> GoesOn(w, att[w][k])
    BY <1>1 DEF GoesOn
  <2> QED
    BY <1>1, <1>3, <1>7, <2>1, <2>3, <2>4 DEF Sound, EndedOf
<1>9. AdmissionOf(w)'
  BY <1>1, <1>3, <1>4 DEF Sound, AdmissionOf
<1>10. SkippedOf(w)' /\ AnsweredOf(w)'
  BY <1>1, <1>3, <1>4 DEF Sound, SkippedOf, AnsweredOf, Owed, OpenPark, IsDelay, Answered,
                    IsClaimWake
<1>11. \A x \in Waits : MemoStands(x)
  BY <1>1, <1>4 DEF MemoStands
<1>12. body'.released \subseteq body.released \cup {w} /\ body.released \subseteq body'.released
       /\ (w \in body'.released => w \in body.released \/ Went(w))
  BY <1>3, <1>6
<1> QED
  BY <1>1, <1>3, <1>8, <1>9, <1>10, <1>11, <1>12, OwnStep

(* Every step keeps the invariant.                                         *)
LEMMA StepSound ==
  ASSUME DInv, ModesStand, [Next]_vars
  PROVE  DInv'
<1>1. IInv'
  BY StepIInv DEF DInv
<1>2. ASSUME NEW w \in Waits, WaitStep(w) PROVE DInv'
  BY <1>1, <1>2, AdmitSound, ExitSound, ResolveSound, PrepareEndsSound, StartWaitSound,
     ReparkWaitSound, PrepareParksSound, PrepareRefusedSound, WaitForEventSound,
     ResumeFenceSound, ResumeRefusedSound, ResumeSettleSound, ResumeEndsSound,
     AbandonSound, ReplayedSound, CheckSound, Zenon DEF WaitStep
<1> QED
  BY <1>1, <1>2, PassSound, DrainSound, ProducerSound, Zenon DEF Next, PassStep

(* The invariant holds of every run whose Waits keep their mode.           *)
LEMMA SoundAlways == ASSUME ModesStand PROVE Spec => []DInv
<1>1. Init => DInv
  BY InitSound
<1>2. DInv /\ [Next]_vars => DInv'
  BY StepSound
<1> QED
  BY <1>1, <1>2, PTL DEF Spec

-----------------------------------------------------------------------------
(* The step that completes a run                                           *)

(* A Wait some workflow has another below.                                 *)
HasBelow(x) ==
  \E f \in DOMAIN Workflows, y \in Waits : x \in Workflows[f].above[y]

(* A Wait with another below skips on a timeout in every version it is     *)
(* moved to, or in none.                                                   *)
SkipsStand ==
  \A x \in Waits : HasBelow(x) =>
    \A v, y \in Versions : <<x, v>> \in SkipsOnTimeout => <<x, y>> \in SkipsOnTimeout

(* No Wait that may skip on a timeout, with another below, is at its last  *)
(* attempt.                                                                *)
AttemptsLeft ==
  \A x \in Waits :
    HasBelow(x) /\ (\E v \in Versions : <<x, v>> \in SkipsOnTimeout) =>
      Len(att[x]) < WAIT_ATTEMPT_LIMIT

(* Only the recorded end of an unclaimed run completes it: no pass on the  *)
(* Canceled outlet, and no Wait that failed.                               *)
LEMMA CompletedBy ==
  ASSUME IInv, [Next]_vars, exec.status # "completed", exec'.status = "completed"
  PROVE  /\ Walked /\ exec.claim = "none" /\ ~body.entered
         /\ \A x \in Waits : body.stage[x] = "done" => Outcome(x) # "failed"
<1>1. exec \in Execs
  BY Shapes DEF IInv
<1>2. ASSUME \/ exec' = exec
             \/ exec' = [exec EXCEPT !.status = "running"]
             \/ exec' = [exec EXCEPT !.status = "waiting"]
             \/ exec' = [exec EXCEPT !.status = "superseded"]
             \/ exec' = [exec EXCEPT !.status = "exited"]
             \/ \E kind \in ClaimKinds : exec' = [exec EXCEPT !.claim = kind]
             \/ \E v \in Versions : exec' = [exec EXCEPT !.version = v]
      PROVE  FALSE
  BY <1>1, <1>2 DEF Execs
<1>3. exec' # exec /\ exec' # [exec EXCEPT !.status = "waiting"]
  BY <1>2
<1>4. ASSUME NEW w \in Waits, WaitStep(w) PROVE FALSE
  <2>1. CASE RequestExit(w)
    BY <1>2, <2>1 DEF RequestExit, CanAdmitNode, ClaimKinds
  <2>2. CASE \/ StartWait(w) \/ ReparkWait(w) \/ ResumeFence(w)
             \/ PrepareRefused(w) \/ ResumeRefused(w)
    BY <1>2, <2>2
       DEF StartWait, ReparkWait, ResumeFence, PrepareRefused, ResumeRefused,
           VersionRefused
  <2>3. CASE \/ AdmitOpen(w) \/ AdmitClose(w) \/ Admitted(w) \/ Resolve(w)
             \/ PrepareEnds(w) \/ PrepareParks(w) \/ WaitForEvent(w)
             \/ ResumeSettle(w) \/ ResumeEnds(w) \/ AbandonWait(w)
             \/ Replayed(w) \/ Check(w)
    BY <1>2, <2>3
       DEF AdmitOpen, AdmitClose, Admitted, Resolve, PrepareEnds, PrepareParks,
           WaitForEvent, ResumeSettle, ResumeEnds, AbandonWait, Replayed, Check
  <2> QED
    BY <1>4, <2>1, <2>2, <2>3, Zenon DEF WaitStep
<1>5. CASE Producer
  <2>1. CASE RequestCancel
    BY <1>2, <2>1 DEF RequestCancel, ClaimKinds
  <2>2. CASE \E v \in Versions : Migrate(v)
    BY <1>2, <2>2 DEF Migrate
  <2>3. CASE EndInFlight
    BY <1>2, <2>3 DEF EndInFlight, EndRun
  <2>4. CASE \E w \in Waits : DeliverEvent(w)
    BY <1>3, <2>4 DEF DeliverEvent
  <2> QED
    BY <1>5, <2>1, <2>2, <2>3, <2>4 DEF Producer
<1>6. CASE \/ MarkWaitingIfParked \/ Claim \/ Open \/ Drain \/ ReleaseParked
           \/ ReadOutcome \/ PassCut \/ BackoffEnds
           \/ (\E w \in Waits : DeadlinePasses(w)) \/ UNCHANGED vars
  <2>1. CASE MarkWaitingIfParked
    BY <1>3, <2>1, Zenon DEF MarkWaitingIfParked
  <2>2. CASE Claim \/ Open \/ Drain \/ ReleaseParked \/ ReadOutcome \/ PassCut
    BY <1>3, <2>2, Zenon DEF Claim, Open, Drain, ReleaseParked, ReadOutcome, PassCut
  <2>3. CASE BackoffEnds \/ (\E w \in Waits : DeadlinePasses(w)) \/ UNCHANGED vars
    BY <1>3, <2>3, Zenon DEF BackoffEnds, DeadlinePasses, vars
  <2> QED
    BY <1>6, <2>1, <2>2, <2>3
<1>7. CASE RecordEnd
  <2>1. FinishAdmits(TerminalStatus) /\ EndRun(TerminalStatus)
    BY <1>2, <1>7 DEF RecordEnd, EndRun
  <2>2. TerminalStatus = "completed"
    BY <1>1, <2>1 DEF EndRun, Execs
  <2>3. exec.claim = "none"
    BY <2>1, <2>2 DEF FinishAdmits
  <2> QED
    BY <1>7, <2>2, <2>3 DEF RecordEnd, TerminalStatus
<1> QED
  BY <1>4, <1>5, <1>6, <1>7, Zenon DEF Next, PassStep

(* The attempt at which a Wait done in a pass of an unclaimed run stands.  *)
LEMMA DoneStops ==
  ASSUME DInv, exec.claim = "none", NEW x \in Waits, body.stage[x] = "done",
         Outcome(x) # "failed"
  PROVE  \E k \in DOMAIN att[x] :
           /\ StopsAt(x, k) /\ att[x][k] \in Attempts
           /\ att[x][k].prep = "skipped" \/ att[x][k].resume # "none"
           /\ x \notin body.released => ~GoesOn(x, att[x][k])
<1>1. Sound(x) /\ TypeOK /\ att[x] \in Seq(Attempts)
  BY Found
<1>2. ~Abandoned(x)
  BY DEF Outcome
<1>3. ~AllLeft(x)
  <2> SUFFICES ASSUME AllLeft(x) PROVE FALSE
    OBVIOUS
  <2>1. Attempt(x) = Len(att[x]) + 1 /\ Len(att[x]) \in Nat
    BY <1>1, AttemptFound, AttemptIs DEF IsNew
  <2>2. Len(att[x]) >= WAIT_ATTEMPT_LIMIT
    BY <1>1 DEF Sound, EndedOf
  <2> QED
    BY <1>2, <2>1, <2>2, BoundsAssumption DEF Abandoned
<1>4. PICK k : k = Attempt(x)
  OBVIOUS
<1>5. ~IsNew(x) /\ StopsAt(x, k)
  BY <1>1, <1>3, <1>4, AttemptFound
<1>6. k \in DOMAIN att[x] /\ att[x][k] \in Attempts /\ k \in Nat
  BY <1>1, <1>5 DEF StopsAt
<1>7. ~(k > WAIT_ATTEMPT_LIMIT)
  BY <1>2, <1>4 DEF Abandoned
<1>8. att[x][k].prep # "error"
  BY <1>2, <1>4, <1>5 DEF Outcome, Current
<1>9. /\ att[x][k].prep # "parked" \/ att[x][k].resume # "none"
      /\ x \notin body.released => ~GoesOn(x, att[x][k])
  BY <1>1, <1>5, <1>6, <1>7 DEF Sound, EndedOf
<1> QED
  BY <1>5, <1>6, <1>8, <1>9 DEF Attempts

(* A Wait the run went on below is released again by the pass that         *)
(* completes it: it neither timed out where it skips nor lost its Event.   *)
LEMMA WentReleased ==
  ASSUME DInv, SkipsStand, AttemptsLeft, exec.claim = "none", body.at = "running",
         NEW x \in Waits, HasBelow(x), Went(x), body.stage[x] = "done",
         Outcome(x) # "failed"
  PROVE  x \in body.released
<1> SUFFICES ASSUME x \notin body.released PROVE FALSE
  OBVIOUS
<1>1. /\ Sound(x) /\ Local(x) /\ att[x] \in Seq(Attempts)
      /\ exec.status \notin Verdicts
  BY Found, Running DEF DInv
<1>2. PICK k \in DOMAIN att[x] :
        /\ att[x][k] \in Attempts /\ ~GoesOn(x, att[x][k])
        /\ att[x][k].prep = "skipped" \/ att[x][k].resume # "none"
  BY DoneStops
<1>3. PICK j \in DOMAIN att[x] : GoesOn(x, att[x][j])
  BY DEF Went
<1>4. att[x][j] \in Attempts /\ DOMAIN att[x] = 1 .. Len(att[x])
  BY <1>1, <1>3
<1>5. j # k
  BY <1>2, <1>3
<1>6. att[x][k].prep = "parked"
  <2>1. att[x][k].prep # "skipped"
    BY <1>1, <1>4, <1>5 DEF Sound, SkippedOf
  <2>2. att[x][k].woke # "none"
    BY <1>1, <1>2, <2>1 DEF Local, ParkOf, AttemptSound
  <2> QED
    BY <1>1, <2>2 DEF Local, ParkOf, AttemptSound
<1>7. att[x][k].resume # "none" /\ ~IsClaimWake(att[x][k].resume)
  BY <1>1, <1>2, <1>6 DEF Sound, AnsweredOf
<1>8. att[x][k].resume = "timeout" /\ <<x, att[x][k].ver>> \in SkipsOnTimeout
  BY <1>2, <1>6, <1>7 DEF GoesOn
<1>9. att[x][k].ver \in Versions /\ att[x][j].ver \in Versions
  BY <1>2, <1>4 DEF Attempts
<1>10. att[x][j].resume = "resume"
  <2>1. <<x, att[x][j].ver>> \in SkipsOnTimeout
    BY <1>8, <1>9 DEF SkipsStand
  <2>2. att[x][j].resume \in Wakes \ {"migrate"}
    BY <1>4 DEF Attempts
  <2> QED
    BY <1>3, <2>1, <2>2 DEF GoesOn, Wakes, IsClaimWake, ClaimKinds
<1>11. park[x].wake = "resume"
  BY <1>1, <1>10 DEF Sound, AnsweredOf, Answered
<1>12. Mode[x][att[x][k].ver] = "event"
  BY <1>8, <1>9, GraphAssumption
<1>13. park[x].status = "cancelled"
  BY <1>1, <1>8, <1>11, <1>12 DEF Local
<1>14. Len(att[x]) < WAIT_ATTEMPT_LIMIT /\ Len(att[x]) \in Nat
  <2>1. Len(att[x]) < WAIT_ATTEMPT_LIMIT
    BY <1>8, <1>9, Zenon DEF AttemptsLeft
  <2>2. Len(att[x]) \in Nat
    BY <1>1
  <2> QED
    BY <2>1, <2>2
<1>15. Len(att[x]) >= WAIT_ATTEMPT_LIMIT
  BY <1>1, <1>13, Zenon DEF Local, ClaimedBy
<1> QED
  BY <1>14, <1>15, BoundsAssumption

(* Of the Waits the run went on below, the one with none of them above it  *)
(* would be held back, were it not released.                               *)
LEMMA AllReleased ==
  ASSUME DInv, SkipsStand, AttemptsLeft, Walked, exec.claim = "none", ~body.entered,
         \A x \in Waits : body.stage[x] = "done" => Outcome(x) # "failed"
  PROVE  \A x \in Waits : HasBelow(x) /\ Went(x) => x \in body.released
<1> DEFINE U == {x \in Waits : HasBelow(x) /\ Went(x) /\ x \notin body.released}
<1> SUFFICES ASSUME U # {} PROVE FALSE
  OBVIOUS
<1>1. exec.workflow \in DOMAIN Workflows
  BY DEF DInv, IInv, TypeOK
<1>2. PICK x \in U : Above[x] \cap U = {}
  <2>1. U \in (SUBSET Waits) \ {{}}
    OBVIOUS
  <2> HIDE DEF U
  <2> QED
    BY <1>1, <2>1, AcyclicAssumption DEF Above
<1>3. /\ Sound(x) /\ Local(x) /\ att[x] \in Seq(Attempts) /\ x \in Waits
  BY <1>2, Found
<1>4. body.stage[x] \in {"out", "done"} /\ body.at = "running"
  BY <1>3 DEF Walked, Quiet, IsParked
<1>5. body.stage[x] # "done"
  BY <1>2, <1>4, WentReleased
<1>6. att[x] # <<>>
  BY <1>2, <1>3 DEF Went
<1>7. x \notin Canceled
  BY <1>3, <1>6 DEF Local, OutletOf
<1>8. Above[x] \subseteq body.released
  <2> SUFFICES ASSUME NEW y \in Above[x] PROVE y \in body.released
    OBVIOUS
  <2>1. y \in Waits
    BY <1>1, <1>3, GraphAssumption DEF Above
  <2>2. HasBelow(y)
    BY <1>1, <1>3 DEF HasBelow, Above
  <2>3. Went(y)
    BY <1>3, <1>6 DEF Sound, BelowOf
  <2> QED
    BY <1>2, <2>1, <2>2, <2>3
<1> QED
  BY <1>3, <1>4, <1>5, <1>7, <1>8 DEF Walked, Held

(* The park of a run that completes holds no more than a Migration's wake: *)
(* its Wait was released, driven and is over, which closed the park.       *)
LEMMA CompletedAnswered ==
  ASSUME DInv, SkipsStand, AttemptsLeft, [Next]_vars,
         exec.status # "completed", exec'.status = "completed",
         NEW w \in Waits, OpenPark(park[w])
  PROVE  park[w].wake = "migrate"
<1> SUFFICES ASSUME Owed(park[w]) PROVE FALSE
  BY DEF Owed
<1>1. /\ Walked /\ exec.claim = "none" /\ ~body.entered
      /\ \A x \in Waits : body.stage[x] = "done" => Outcome(x) # "failed"
  BY CompletedBy DEF DInv
<1>2. /\ Sound(w) /\ Local(w) /\ att[w] \in Seq(Attempts) /\ park[w].status # "absent"
  BY Found DEF OpenPark
<1>3. body.stage[w] \in {"out", "done"}
  BY <1>1 DEF Walked, Quiet, IsParked
<1>4. w \notin Canceled
  BY <1>1, <1>2 DEF Sound, AnsweredOf
<1>5. exec.workflow \in DOMAIN Workflows
  BY DEF DInv, IInv, TypeOK
<1>6. Above[w] \subseteq body.released
  <2> SUFFICES ASSUME NEW y \in Above[w] PROVE y \in body.released
    OBVIOUS
  <2>1. y \in Waits
    BY <1>5, GraphAssumption DEF Above
  <2>2. HasBelow(y)
    BY <1>5 DEF HasBelow, Above
  <2>3. Went(y)
    BY <1>2 DEF Sound, BelowOf
  <2> QED
    BY <1>1, <2>1, <2>2, <2>3, AllReleased
<1>7. body.stage[w] = "done"
  BY <1>1, <1>3, <1>4, <1>6 DEF Walked, Held
<1>8. PICK k \in DOMAIN att[w] :
        att[w][k].prep = "skipped" \/ att[w][k].resume # "none"
  BY <1>1, <1>7, DoneStops
<1>9. att[w][k].resume = "none"
  BY <1>2 DEF Local, ParkOf
<1>10. att[w][k].prep # "skipped"
  BY <1>1, <1>2 DEF Sound, SkippedOf
<1> QED
  BY <1>8, <1>9, <1>10

(* A run that completes had acted on every Event it accepted, provided its *)
(* Waits keep their mode from version to version, those with others below  *)
(* them also whether they skip on a timeout, and none of the latter that   *)
(* skips is at its last attempt: the writes of terminal-record.ts and      *)
(* repo/schedule.ts close no park on an Event.                             *)
THEOREM CompletedRunsAnswered ==
  ASSUME ModesStand, SkipsStand
  PROVE  Spec /\ []AttemptsLeft => CompletionDropsNoEvent
<1>1. DInv /\ AttemptsLeft /\ [Next]_vars =>
        [exec.status # "completed" /\ exec'.status = "completed" =>
           \A w \in Waits : OpenPark(park[w]) => park[w].wake = "migrate"]_vars
  BY CompletedAnswered
<1> QED
  BY <1>1, SoundAlways, PTL DEF Spec, CompletionDropsNoEvent
===============================================================================
