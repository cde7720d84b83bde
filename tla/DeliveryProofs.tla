---------------------------- MODULE DeliveryProofs ----------------------------
(***************************************************************************)
(* What an arrival decides, proved for any number of arrivals, passes and  *)
(* runs.                                                                   *)
(*                                                                         *)
(* TypeInv is the state's shape with the fence: the pass that holds a      *)
(* row's lease remembers its memo as it stands.  The decisions themselves  *)
(* are not fenced - a pass that lost its lease still opens a run, records  *)
(* a refusal or commits a Cancel - so what keeps them apart is the Ledger: *)
(* a refused arrival opened no run, an arrival opens one, each of these    *)
(* rows lives as long as the inbox row, a decision stands while its        *)
(* arrival is kept, and where every version compares the runs in flight    *)
(* there is one.  PassRoles adds what a pass between its read and its      *)
(* write was told by the published version.  With the Ledger a step that   *)
(* decides finds no decision, which is the step of Arrival; every other    *)
(* one moves an inbox row or maps to a stutter.                            *)
(***************************************************************************)
EXTENDS Delivery, TLAPS, FiniteSetTheorems, WellFoundedInduction

(***************************************************************************)
(* The types.                                                              *)
(***************************************************************************)
OrNone == Deliveries \cup {NoDelivery}

Lives ==
  [kind : {"unread", "none", "unrunnable", "declined", "refused", "started", "canceled"},
   runs : SUBSET Runs]

Saved == [run : Runs, pos : Nat, token : Nat]
Offered == [run : Runs, pos : Nat, token : Nat, step : {"claim", "reread"}]

Books ==
  [listed : BOOLEAN, roles : SUBSET {"start", "cancel", "wait"}, life : Lives,
   pages : Seq(SUBSET Saved), more : BOOLEAN, woken : Nat, fails : Nat]

Views == [inFlight : SUBSET Runs, own : SUBSET Runs, refused : BOOLEAN]

PassStates ==
  [at : Points, d : OrNone, book : Books, life : Lives, concurrency : Policies,
   view : Views, todo : SUBSET Offered]

RunRows ==
  [status : {"absent", "live", "over", "swept"}, by : OrNone, claim : OrNone]

ParkRows ==
  [pos : Nat, st : {"none", "waiting", "resuming"}, token : Nat,
   wake : [kind : {"none", "resume", "migrate", "cancel"}, by : OrNone]]

Counts == [resends : Nat, expiries : Nat, crashes : Nat, migrations : Nat]

Waits == Runs \X Nat

FlowTypes ==
  /\ inbox \in [Deliveries -> Rows]
  /\ sched \in [Deliveries -> {"none", "queued"} \cup Passes]
  /\ memo \in [Deliveries -> Books]
  /\ pass \in [Passes -> PassStates]

RunTypes ==
  /\ setting \in DOMAIN Settings
  /\ version \in DOMAIN Publications
  /\ run \in [Runs -> RunRows]
  /\ park \in [Runs -> ParkRows]
  /\ refusal \in [Deliveries -> BOOLEAN]
  /\ decided \in [Deliveries -> BOOLEAN]
  /\ count \in Counts
  /\ woke \in [Deliveries -> SUBSET Waits]
  /\ owed \in [Deliveries -> SUBSET Waits]
  /\ after \in [Runs -> SUBSET Deliveries]

Types == FlowTypes /\ RunTypes

Arrived(d) == inbox[d] # "absent"

(* A pass that is not idle has an arrival, and it has come.                *)
PassesNamed ==
  \A p \in Passes :
    pass[p].at # "idle" => pass[p].d \in Deliveries /\ Arrived(pass[p].d)

(* A scheduled arrival is pending, and a row nobody schedules has no memo. *)
Scheduled ==
  \A d \in Deliveries :
    /\ sched[d] = "none" => memo[d] = NoMemo
    /\ sched[d] # "none" => inbox[d] = "pending"

SameBook(b, c) == [b EXCEPT !.fails = 0] = [c EXCEPT !.fails = 0]

(* The pass that holds the lease remembers the memo as it stands.          *)
Fenced ==
  \A p \in Passes :
    pass[p].at \notin {"idle", "open"} /\ Holds(p) =>
      SameBook(pass[p].book, memo[pass[p].d])

(* Some published version gives the arrival this role.                     *)
HasRole(d, role) == \E v \in DOMAIN Publications : Publications[v].role[d] = role

(* A pass comes to a start or a Cancel by a version that says so.          *)
PassRoles ==
  \A p \in Passes :
    /\ pass[p].at = "refuse" => Guarded
    /\ pass[p].at \in {"refuse", "admit", "admitting"} =>
         /\ HasRole(pass[p].d, "start")
         /\ \E v \in DOMAIN Publications :
              pass[p].concurrency = Publications[v].concurrency
    /\ pass[p].at = "cancel" => HasRole(pass[p].d, "cancel")

RunsOfArrivals ==
  \A r \in Runs :
    LET d == run[r].by IN
    /\ run[r].status = "absent" => d = NoDelivery /\ run[r].claim = NoDelivery
    /\ d # NoDelivery =>
         /\ Arrived(d) /\ HasRole(d, "start")
         /\ Kept(d) => run[r].status \in {"live", "over"}

OneRun ==
  \A r, q \in Runs :
    run[r].by = run[q].by /\ run[r].by # NoDelivery /\ Kept(run[r].by) => r = q

Refusals ==
  \A d \in Deliveries : refusal[d] =>
    /\ Guarded /\ Arrived(d) /\ HasRole(d, "start")
    /\ Kept(d) => \A r \in Runs : run[r].by # d

Cancels ==
  \A d \in Deliveries : decided[d] =>
    Arrived(d) /\ Kept(d) /\ HasRole(d, "cancel")

(* A decision committed before a run opened stands, or its arrival is gone. *)
EarlierStand ==
  \A r \in Runs : \A d \in after[r] : decided[d] \/ ~Kept(d)

AllCompare ==
  \A v \in DOMAIN Publications : Publications[v].concurrency \in Comparing

OneAtATime == AllCompare => \A r, q \in InFlight : r = q

Ledger ==
  /\ RunsOfArrivals /\ OneRun /\ Refusals /\ Cancels
  /\ EarlierStand /\ CancelReachesEarlierRuns /\ OneAtATime
FlowInv == FlowTypes /\ PassesNamed /\ Scheduled /\ Fenced
TypeInv == RunTypes /\ FlowInv

-----------------------------------------------------------------------------
(* Pages                                                                   *)

(* A finite set of candidates of different runs has a first one.           *)
LEMMA FirstCandidate ==
  ASSUME NEW U \in SUBSET Saved, IsFiniteSet(U), U # {},
         \A x, y \in U : x.run = y.run => x = y
  PROVE  \E m \in U : \A e \in U \ {m} : Before(m, e)
<1> DEFINE Below(x) == {y \in U : y.run <= x.run}
           Family == {Below(x) : x \in U}
<1>1. Family \subseteq FiniteSubsetsOf(U) /\ Family # {}
  <2>1. FiniteSubsetsOf(U) = SUBSET U
    BY FS_FiniteSubsetsOfFinite, Zenon
  <2>2. Family \in SUBSET (SUBSET U)
    OBVIOUS
  <2>3. PICK t \in U : TRUE
    OBVIOUS
  <2>4. Below(t) \in Family
    BY <2>3
  <2> QED
    BY <2>1, <2>2, <2>4, Zenon
<1>2. PICK V \in Family : \A W \in Family : <<W, V>> \notin StrictSubsetOrdering(U)
  BY <1>1, FS_StrictSubsetOrderingWellFounded, WFMin, Zenon
<1>3. PICK m \in U : V = Below(m)
  BY Zenon
<1>4. \A e \in U : e.run \in Nat
  BY RunsAreIds DEF Saved
<1>5. ASSUME NEW e \in U, e.run < m.run PROVE FALSE
  <2>1. m.run <= m.run /\ ~(m.run <= e.run)
    BY <1>4, <1>5
  <2>2. \A z \in U : z.run <= e.run => z.run <= m.run
    BY <1>4, <1>5
  <2>3. Below(e) \subseteq Below(m) /\ m \in Below(m) /\ m \notin Below(e)
    BY <2>1, <2>2, Zenon
  <2>4. <<Below(e), V>> \in StrictSubsetOrdering(U)
    BY <1>3, <2>3, Zenon DEF StrictSubsetOrdering
  <2> QED
    BY <1>2, <2>4, Zenon
<1>6. \A e \in U \ {m} : m.run < e.run
  BY <1>4, <1>5
<1> QED
  BY <1>6 DEF Before

Fits(S, T) ==
  /\ Cardinality(T) = IF Cardinality(S) < PAGE_SIZE THEN Cardinality(S) ELSE PAGE_SIZE
  /\ \A c \in T, e \in S \ T : Before(c, e)

(* A page can be taken: the longest first part that is not too long is one. *)
LEMMA PageFits ==
  ASSUME NEW S \in SUBSET Saved, IsFiniteSet(S),
         \A x, y \in S : x.run = y.run => x = y
  PROVE  PageOf(S) \in SUBSET S /\ Fits(S, PageOf(S))
<1> DEFINE n == IF Cardinality(S) < PAGE_SIZE THEN Cardinality(S) ELSE PAGE_SIZE
           First(T) == Cardinality(T) <= n /\ \A c \in T, e \in S \ T : Before(c, e)
           Rests == {S \ T : T \in {U \in SUBSET S : First(U)}}
<1>1. Cardinality(S) \in Nat /\ n \in Nat /\ n <= Cardinality(S)
  BY FS_CardinalityType, PagesHoldSome
<1>2. Rests \subseteq FiniteSubsetsOf(S) /\ Rests # {}
  <2>1. FiniteSubsetsOf(S) = SUBSET S
    BY FS_FiniteSubsetsOfFinite, Zenon
  <2>2. Rests \in SUBSET (SUBSET S)
    OBVIOUS
  <2>3. First({})
    BY <1>1, FS_EmptySet
  <2>4. S \ {} \in Rests
    BY <2>3
  <2> QED
    BY <2>1, <2>2, <2>4, Zenon
<1>3. PICK R \in Rests : \A Q \in Rests : <<Q, R>> \notin StrictSubsetOrdering(S)
  BY <1>2, FS_StrictSubsetOrderingWellFounded, WFMin, Zenon
<1>4. PICK T \in SUBSET S : First(T) /\ R = S \ T
  BY Zenon
<1>5. IsFiniteSet(T) /\ Cardinality(T) \in Nat
  BY FS_Subset, FS_CardinalityType
<1>6. ASSUME Cardinality(T) # n PROVE FALSE
  <2> DEFINE U == S \ T
  <2>1. Cardinality(T) < n
    BY <1>1, <1>4, <1>5, <1>6
  <2>2. U # {}
    <3>1. CASE T = S
      BY <1>1, <2>1, <3>1
    <3>2. CASE T # S
      BY <3>2
    <3> QED
      BY <3>1, <3>2
  <2>3. U \in SUBSET Saved /\ U \in SUBSET S
    OBVIOUS
  <2>4. IsFiniteSet(U)
    BY <2>3, FS_Subset, Zenon
  <2>5. PICK m \in U : \A e \in U \ {m} : Before(m, e)
    <3> HIDE DEF U
    <3> QED
      BY <2>2, <2>3, <2>4, FirstCandidate
  <2> DEFINE More == T \cup {m}
  <2>6. Cardinality(More) = Cardinality(T) + 1
    BY <1>5, <2>5, FS_AddElement
  <2>7. First(More)
    <3>1. Cardinality(More) <= n
      BY <1>1, <1>5, <2>1, <2>6
    <3>2. \A c \in More, e \in S \ More : Before(c, e)
      BY <1>4, <2>5, Zenon
    <3> QED
      BY <3>1, <3>2, Zenon
  <2>8. S \ More \in Rests
    <3>1. More \in SUBSET S
      BY <2>5
    <3> QED
      BY <2>7, <3>1, Zenon
  <2>9. <<S \ More, R>> \in StrictSubsetOrdering(S)
    BY <1>4, <2>5, Zenon DEF StrictSubsetOrdering
  <2> QED
    BY <1>3, <2>8, <2>9, Zenon
<1>7. T \in SUBSET S /\ Fits(S, T)
  BY <1>4, <1>6, Zenon DEF Fits
<1>8. PageOf(S) = CHOOSE V \in SUBSET S : Fits(S, V)
  BY Zenon DEF PageOf, Fits
<1> QED
  BY <1>7, <1>8, Zenon

-----------------------------------------------------------------------------
(* What the operators answer                                               *)

LEMMA Surroundings ==
  ASSUME Types
  PROVE  /\ Standing \subseteq Runs
         /\ Publications \in Seq([role : [Deliveries -> EventRoles], concurrency : Policies])
         /\ DOMAIN Publications \subseteq Nat \ {0}
         /\ \A v \in DOMAIN Publications :
              /\ Publications[v].concurrency \in Policies
              /\ \A d \in Deliveries : Publications[v].role[d] \in EventRoles
<1>1. setting \in DOMAIN Settings
  BY DEF Types, FlowTypes, RunTypes
<1> DEFINE seq == Settings[setting].publications
<1>2. /\ Settings[setting].standing \subseteq Runs
      /\ seq \in Seq([role : [Deliveries -> EventRoles], concurrency : Policies])
  BY <1>1, SettingsAreSound
<1> HIDE DEF seq
<1>3. DOMAIN seq = 1 .. Len(seq) /\ Len(seq) \in Nat
  BY <1>2
<1>4. DOMAIN seq \subseteq Nat \ {0}
  BY <1>3
<1>5. ASSUME NEW v \in DOMAIN seq
      PROVE  /\ seq[v].concurrency \in Policies
             /\ \A d \in Deliveries : seq[v].role[d] \in EventRoles
  <2>1. seq[v] \in [role : [Deliveries -> EventRoles], concurrency : Policies]
    <3> DEFINE all == [role : [Deliveries -> EventRoles], concurrency : Policies]
    <3>1. seq \in Seq(all)
      BY <1>2
    <3> HIDE DEF all
    <3>2. seq[v] \in all
      BY <1>3, <1>5, <3>1
    <3> QED
      BY <3>2 DEF all
  <2> QED
    BY <2>1
<1> QED
  BY <1>2, <1>4, <1>5 DEF Standing, Publications, Here, seq

LEMMA NothingIsTyped ==
  /\ NoLife \in Lives /\ NoMemo \in Books /\ NoView \in Views /\ Idle \in PassStates
  /\ NoPark \in ParkRows
  /\ NoMemo.life = NoLife /\ ~NoMemo.listed /\ NoMemo.pages = <<>>
  /\ Idle.at = "idle" /\ Idle.todo = {}
<1>1. NoLife \in Lives /\ NoView \in Views
  BY DEF NoLife, Lives, NoView, Views
<1>2. <<>> \in Seq(SUBSET Saved)
  OBVIOUS
<1>3. NoMemo \in Books
  BY <1>1, <1>2 DEF NoMemo, Books
<1>4. Idle \in PassStates
  BY <1>1, <1>3 DEF Idle, PassStates, Points, StepPoints, OrNone, Policies
<1>5. NoPark \in ParkRows
  BY DEF NoPark, NoWake, ParkRows, OrNone
<1> QED
  BY <1>1, <1>3, <1>4, <1>5 DEF NoMemo, Idle

LEMMA NextSteps ==
  ASSUME NEW b \in Books
  PROVE  /\ NextStep(b) \in {"subscribers", "lifecycle", "list", "wake", "settle"}
         /\ NextStep(b) = "wake" => b.woken + 1 \in DOMAIN b.pages
<1>1. b.woken \in Nat /\ Len(b.pages) \in Nat /\ DOMAIN b.pages = 1 .. Len(b.pages)
  BY DEF Books
<1> QED
  BY <1>1 DEF NextStep

(* A pass that goes on has the memo's next step to do.                     *)
LEMMA GoesOn ==
  ASSUME Types, NEW p \in Passes, NEW b \in Books
  PROVE  /\ Continue(p, b) \in PassStates
         /\ Continue(p, b).at = NextStep(b) /\ Continue(p, b).book = b
         /\ Continue(p, b).d = pass[p].d /\ Continue(p, b).life = NoLife
         /\ Continue(p, b).view = NoView
         /\ Continue(p, b).todo = IF NextStep(b) = "wake"
              THEN {Candidate(c, "claim") : c \in b.pages[b.woken + 1]} ELSE {}
<1> DEFINE offered == IF NextStep(b) = "wake"
              THEN {Candidate(c, "claim") : c \in b.pages[b.woken + 1]} ELSE {}
<1>1. NextStep(b) \in {"subscribers", "lifecycle", "list", "wake", "settle"}
  BY NextSteps
<1>2. offered \in SUBSET Offered
  <2>1. CASE NextStep(b) = "wake"
    <3>1. b.pages[b.woken + 1] \in SUBSET Saved
      BY <2>1, NextSteps DEF Books
    <3>2. \A c \in b.pages[b.woken + 1] : Candidate(c, "claim") \in Offered
      BY <3>1 DEF Candidate, Saved, Offered
    <3> QED
      BY <2>1, <3>2
  <2>2. CASE NextStep(b) # "wake"
    BY <2>2
  <2> QED
    BY <2>1, <2>2
<1>3. pass[p] \in PassStates
  BY DEF Types, FlowTypes, RunTypes
<1>4. Continue(p, b) = [pass[p] EXCEPT
     !.at = NextStep(b), !.book = b, !.life = NoLife, !.view = NoView, !.todo = offered]
  BY Zenon DEF Continue
<1> HIDE DEF offered
<1>5. NextStep(b) \in Points
  BY <1>1 DEF Points, StepPoints
<1>6. /\ Continue(p, b) \in PassStates
      /\ Continue(p, b).at = NextStep(b) /\ Continue(p, b).book = b
      /\ Continue(p, b).d = pass[p].d /\ Continue(p, b).life = NoLife
      /\ Continue(p, b).view = NoView /\ Continue(p, b).todo = offered
  BY <1>2, <1>3, <1>4, <1>5, NothingIsTyped DEF PassStates
<1> QED
  BY <1>6 DEF offered

LEMMA RolesTyped ==
  ASSUME NEW d \in Deliveries
  PROVE  RolesOf(d) \in SUBSET {"start", "cancel", "wait"}
BY DEF RolesOf

LEMMA CandidatesTyped ==
  ASSUME Types, NEW b \in Books
  PROVE  /\ Candidates(b) \in SUBSET Saved
         /\ PageOf(Candidates(b)) \in SUBSET Candidates(b)
         /\ Fits(Candidates(b), PageOf(Candidates(b)))
         /\ IsFiniteSet(Candidates(b))
<1> DEFINE parked == ParkedOnEvent \ Settled(b)
           all == {[run |-> r, pos |-> park[r].pos, token |-> park[r].token] : r \in parked}
<1>1. parked \in SUBSET Runs
  BY DEF ParkedOnEvent
<1>2. \A r \in Runs : park[r].pos \in Nat /\ park[r].token \in Nat
  BY DEF Types, FlowTypes, RunTypes, ParkRows
<1>3. Candidates(b) \subseteq all
  BY Zenon DEF Candidates
<1>4. all \in SUBSET Saved
  BY <1>1, <1>2 DEF Saved
<1>5. \A x, y \in all : x.run = y.run => x = y
  OBVIOUS
<1>6. IsFiniteSet(all)
  <2>1. IsFiniteSet(parked)
    BY <1>1, RunsAreIds, FS_Subset
  <2> DEFINE row == [r \in parked |->
               [run |-> r, pos |-> park[r].pos, token |-> park[r].token]]
  <2>2. row \in [parked -> all]
    OBVIOUS
  <2>3. \A c \in all : \E r \in parked : row[r] = c
    OBVIOUS
  <2>4. row \in Surjection(parked, all)
    BY <2>2, <2>3, Zenon DEF Surjection
  <2> QED
    BY <2>1, <2>4, FS_Surjection, Zenon
<1> HIDE DEF all
<1>7. IsFiniteSet(Candidates(b))
  BY <1>3, <1>6, FS_Subset
<1>8. Candidates(b) \in SUBSET Saved
  BY <1>3, <1>4
<1>9. \A x, y \in Candidates(b) : x.run = y.run => x = y
  BY <1>3, <1>5, Zenon
<1> QED
  BY <1>7, <1>8, <1>9, PageFits

(* What the fan-out adds to a memo is typed.                               *)
LEMMA BooksGrow ==
  ASSUME Types, NEW b \in Books
  PROVE  /\ \A d \in Deliveries : [b EXCEPT !.listed = TRUE, !.roles = RolesOf(d)] \in Books
         /\ \A life \in Lives : [b EXCEPT !.life = life] \in Books
         /\ [b EXCEPT !.pages = Append(b.pages, PageOf(Candidates(b))),
                      !.more = HasMore(PageOf(Candidates(b)))] \in Books
         /\ [b EXCEPT !.woken = b.woken + 1] \in Books
<1>1. ASSUME NEW d \in Deliveries
      PROVE  [b EXCEPT !.listed = TRUE, !.roles = RolesOf(d)] \in Books
  BY RolesTyped DEF Books
<1>2. ASSUME NEW life \in Lives PROVE [b EXCEPT !.life = life] \in Books
  BY DEF Books
<1>3. [b EXCEPT !.pages = Append(b.pages, PageOf(Candidates(b))),
                !.more = HasMore(PageOf(Candidates(b)))] \in Books
  <2> DEFINE page == PageOf(Candidates(b))
  <2>1. page \in SUBSET Saved
    BY CandidatesTyped
  <2> HIDE DEF page
  <2>2. HasMore(page) \in BOOLEAN
    BY DEF HasMore
  <2>3. Append(b.pages, page) \in Seq(SUBSET Saved)
    <3>1. b.pages \in Seq(SUBSET Saved)
      BY DEF Books
    <3> QED
      BY <2>1, <3>1
  <2>4. [b EXCEPT !.pages = Append(b.pages, page), !.more = HasMore(page)] \in Books
    BY <2>2, <2>3 DEF Books
  <2> QED
    BY <2>4 DEF page
<1>4. [b EXCEPT !.woken = b.woken + 1] \in Books
  <2>1. b.woken + 1 \in Nat
    BY DEF Books
  <2> QED
    BY <2>1 DEF Books
<1> QED
  BY <1>1, <1>2, <1>3, <1>4
-----------------------------------------------------------------------------
(* A step's effect on the delivery's rows and passes                       *)

(* A pass goes on to another point with the memo it knows.                 *)
LEMMA PassMovesOn ==
  ASSUME FlowInv, NEW p \in Passes, pass[p].at \notin {"idle", "open"},
         NEW X \in PassStates, X.d = pass[p].d, X.book = pass[p].book,
         pass' = [pass EXCEPT ![p] = X], UNCHANGED rows
  PROVE  FlowInv'
<1>1. FlowTypes'
  BY DEF FlowInv, FlowTypes, rows
<1>2. pass[p].d \in Deliveries /\ Arrived(pass[p].d)
  BY DEF FlowInv, PassesNamed
<1>3. \A q \in Passes : pass'[q] = IF q = p THEN X ELSE pass[q]
  BY DEF FlowInv, FlowTypes
<1>4. PassesNamed'
  BY <1>2, <1>3 DEF FlowInv, PassesNamed, Arrived, rows
<1>5. Scheduled'
  BY DEF FlowInv, Scheduled, rows
<1>6. Fenced'
  <2> SUFFICES ASSUME NEW q \in Passes, pass'[q].at \notin {"idle", "open"},
                      sched[pass'[q].d] = q
               PROVE  SameBook(pass'[q].book, memo[pass'[q].d])
    BY DEF Fenced, Holds, SameBook, rows
  <2>1. pass'[q].d = pass[q].d /\ pass'[q].book = pass[q].book
    BY <1>3
  <2>2. pass[q].at \notin {"idle", "open"}
    BY <1>3
  <2> QED
    BY <2>1, <2>2 DEF FlowInv, Fenced, Holds
<1> QED
  BY <1>1, <1>4, <1>5, <1>6 DEF FlowInv

(* A pass stops, and leaves the rows as they are.                          *)
LEMMA PassStops ==
  ASSUME FlowInv, NEW p \in Passes,
         pass' = [pass EXCEPT ![p] = Idle], UNCHANGED rows
  PROVE  FlowInv'
<1>1. FlowTypes'
  BY NothingIsTyped DEF FlowInv, FlowTypes, rows
<1>2. \A q \in Passes : pass'[q] = IF q = p THEN Idle ELSE pass[q]
  BY DEF FlowInv, FlowTypes
<1>3. PassesNamed'
  BY <1>2, NothingIsTyped DEF FlowInv, PassesNamed, Arrived, rows
<1>4. Scheduled'
  BY DEF FlowInv, Scheduled, rows
<1>5. Fenced'
  <2> SUFFICES ASSUME NEW q \in Passes, pass'[q].at \notin {"idle", "open"},
                      sched[pass'[q].d] = q
               PROVE  SameBook(pass'[q].book, memo[pass'[q].d])
    BY DEF Fenced, Holds, SameBook, rows
  <2>1. pass'[q] = pass[q]
    BY <1>2, NothingIsTyped
  <2> QED
    BY <2>1 DEF FlowInv, Fenced, Holds
<1> QED
  BY <1>1, <1>3, <1>4, <1>5 DEF FlowInv

LEMMA UnfailedIsTyped ==
  ASSUME NEW b \in Books
  PROVE  [b EXCEPT !.fails = 0] \in Books
BY DEF Books

(* A step is saved, or its pass stops at the fence.                        *)
LEMMA MemoIsWritten ==
  ASSUME FlowInv, RunTypes, NEW p \in Passes, pass[p].at \notin {"idle", "open"},
         NEW b \in Books, WriteMemo(p, b), UNCHANGED <<inbox, sched>>
  PROVE  FlowInv'
<1> DEFINE clean == [b EXCEPT !.fails = 0]
           d == pass[p].d
<1>1. CASE ~Holds(p)
  <2>1. pass' = [pass EXCEPT ![p] = Idle] /\ UNCHANGED rows
    BY <1>1 DEF WriteMemo, rows
  <2> QED
    BY <2>1, PassStops
<1>2. CASE Holds(p)
  <2>1. memo' = [memo EXCEPT ![d] = clean] /\ pass' = [pass EXCEPT ![p] = Continue(p, clean)]
    BY <1>2 DEF WriteMemo
  <2>2. clean \in Books
    BY UnfailedIsTyped
  <2> HIDE DEF clean
  <2>3. d \in Deliveries /\ Arrived(d)
    BY DEF FlowInv, PassesNamed
  <2>4. Continue(p, clean) \in PassStates /\ Continue(p, clean).d = d
          /\ Continue(p, clean).book = clean
    BY <2>2, GoesOn DEF FlowInv, Types
  <2> DEFINE X == Continue(p, clean)
  <2> HIDE DEF X
  <2>5. FlowTypes'
    BY <2>1, <2>2, <2>4 DEF FlowInv, FlowTypes, X
  <2>6. /\ \A q \in Passes : pass'[q] = IF q = p THEN X ELSE pass[q]
        /\ \A e \in Deliveries : memo'[e] = IF e = d THEN clean ELSE memo[e]
    BY <2>1 DEF FlowInv, FlowTypes, X
  <2>7. X.d = d /\ X.book = clean
    BY <2>4 DEF X
  <2>8. PassesNamed'
    BY <2>3, <2>6, <2>7 DEF FlowInv, PassesNamed, Arrived
  <2>9. sched[d] = p /\ sched[d] # "none"
    BY <1>2, PassesAreNoMarks DEF Holds
  <2>10. Scheduled'
    BY <2>6, <2>9 DEF FlowInv, Scheduled
  <2>11. Fenced'
    <3> SUFFICES ASSUME NEW q \in Passes, pass'[q].at \notin {"idle", "open"},
                        sched[pass'[q].d] = q
                 PROVE  SameBook(pass'[q].book, memo'[pass'[q].d])
      BY DEF Fenced, Holds, SameBook
    <3>1. CASE q = p
      BY <2>3, <2>6, <2>7, <3>1 DEF SameBook
    <3>2. CASE q # p
      <4>1. pass[q].d # d /\ pass[q].d \in Deliveries
        BY <2>6, <2>9, <3>2 DEF FlowInv, PassesNamed
      <4> QED
        BY <2>6, <3>2, <4>1 DEF FlowInv, Fenced, Holds
    <3> QED
      BY <3>1, <3>2
  <2> QED
    BY <2>5, <2>8, <2>10, <2>11 DEF FlowInv
<1> QED
  BY <1>1, <1>2

(* A delivery settles, or its pass stops at the fence.                     *)
LEMMA DeliverySettles ==
  ASSUME FlowInv, NEW p \in Passes, pass[p].at # "idle",
         NEW status \in {"delivered", "failed"}, Settle(p, status)
  PROVE  FlowInv'
<1> DEFINE d == pass[p].d
<1>1. CASE ~Holds(p)
  <2>1. pass' = [pass EXCEPT ![p] = Idle] /\ UNCHANGED rows
    BY <1>1 DEF Settle
  <2> QED
    BY <2>1, PassStops
<1>2. CASE Holds(p)
  <2>1. /\ pass' = [pass EXCEPT ![p] = Idle]
        /\ inbox' = [inbox EXCEPT ![d] = IF inbox[d] = "pending" THEN status ELSE inbox[d]]
        /\ sched' = [sched EXCEPT ![d] = "none"]
        /\ memo' = [memo EXCEPT ![d] = NoMemo]
    BY <1>2 DEF Settle
  <2>2. d \in Deliveries
    BY DEF FlowInv, PassesNamed
  <2>3. FlowTypes'
    BY <2>1, <2>2, NothingIsTyped DEF FlowInv, FlowTypes, Rows
  <2>4. /\ \A q \in Passes : pass'[q] = IF q = p THEN Idle ELSE pass[q]
        /\ \A e \in Deliveries : e # d =>
             inbox'[e] = inbox[e] /\ sched'[e] = sched[e] /\ memo'[e] = memo[e]
        /\ sched'[d] = "none" /\ memo'[d] = NoMemo
    BY <2>1, <2>2 DEF FlowInv, FlowTypes
  <2>5. PassesNamed'
    <3>1. \A e \in Deliveries : Arrived(e) => inbox'[e] # "absent"
      BY <2>1, <2>2 DEF FlowInv, FlowTypes, Arrived
    <3> QED
      BY <2>4, <3>1, NothingIsTyped DEF FlowInv, PassesNamed, Arrived
  <2>6. Scheduled'
    BY <2>4 DEF FlowInv, Scheduled
  <2>7. Fenced'
    <3> SUFFICES ASSUME NEW q \in Passes, pass'[q].at \notin {"idle", "open"},
                        sched'[pass'[q].d] = q
                 PROVE  SameBook(pass'[q].book, memo'[pass'[q].d])
      BY DEF Fenced, Holds, SameBook
    <3>1. q # p /\ pass'[q] = pass[q]
      BY <2>4, NothingIsTyped
    <3>2. pass[q].d # d /\ pass[q].d \in Deliveries
      BY <2>4, <3>1, PassesAreNoMarks DEF FlowInv, PassesNamed
    <3> QED
      BY <2>4, <3>1, <3>2 DEF FlowInv, Fenced, Holds
  <2> QED
    BY <2>3, <2>5, <2>6, <2>7 DEF FlowInv
<1> QED
  BY <1>1, <1>2

(* No pass is touched.  A row may be opened, queued anew, or swept.        *)
LEMMA RowsMove ==
  ASSUME FlowInv, FlowTypes', UNCHANGED pass,
         \A d \in Deliveries :
           /\ sched'[d] = sched[d] \/ sched'[d] \notin Passes
           /\ sched'[d] = sched[d] => memo'[d] = memo[d]
           /\ sched'[d] = "none" => memo'[d] = memo[d] /\ (sched[d] = "none")
           /\ sched'[d] # "none" => inbox'[d] = "pending"
           /\ inbox'[d] = "absent" => inbox[d] = "absent"
  PROVE  FlowInv'
<1>1. PassesNamed'
  BY DEF FlowInv, PassesNamed, Arrived
<1>2. Scheduled'
  BY DEF FlowInv, Scheduled
<1>3. Fenced'
  BY DEF FlowInv, Fenced, Holds, SameBook, PassesNamed
<1> QED
  BY <1>1, <1>2, <1>3 DEF FlowInv

-----------------------------------------------------------------------------
(* Every step keeps the types and the fence                                *)

LEMMA RunsStay ==
  ASSUME RunTypes, UNCHANGED <<runs, decisions, workflow, count, history>>
  PROVE  RunTypes'
BY DEF RunTypes, runs, decisions, workflow, history, Publications, Here

LEMMA OutcomeComes ==
  ASSUME FlowInv, NEW p \in Passes, pass[p].at \notin {"idle", "open"},
         NEW outcome \in Lives, Comes(p, outcome), UNCHANGED rows
  PROVE  FlowInv'
<1> DEFINE X == [pass[p] EXCEPT !.at = "outcome", !.life = outcome, !.view = NoView]
<1>1. pass[p] \in PassStates
  BY DEF FlowInv, FlowTypes
<1>2. X \in PassStates /\ X.d = pass[p].d /\ X.book = pass[p].book
  BY <1>1, NothingIsTyped DEF PassStates, Points
<1>3. pass' = [pass EXCEPT ![p] = X]
  BY <1>1 DEF Comes, PassStates
<1> HIDE DEF X
<1> QED
  BY <1>2, <1>3, PassMovesOn

LEMMA ParksTyped ==
  ASSUME NEW k \in ParkRows
  PROVE  /\ Gone(k) \in ParkRows /\ NextPark(k) \in ParkRows
         /\ \A kind \in {"resume", "migrate", "cancel"}, d \in OrNone :
              Resolved(k, kind, d) \in ParkRows
<1> DEFINE wakes == [kind : {"none", "resume", "migrate", "cancel"}, by : OrNone]
<1>1. NoWake \in wakes
  BY DEF NoWake, OrNone
<1>2. \A kind \in {"resume", "migrate", "cancel"}, d \in OrNone :
         [kind |-> kind, by |-> d] \in wakes
  OBVIOUS
<1>3. ParkRows = [pos : Nat, st : {"none", "waiting", "resuming"}, token : Nat, wake : wakes]
  BY DEF ParkRows
<1> HIDE DEF wakes
<1>4. Gone(k) \in ParkRows
  BY <1>1, <1>3 DEF Gone
<1>5. NextPark(k) \in ParkRows
  BY <1>1, <1>3 DEF NextPark
<1>6. ASSUME NEW kind \in {"resume", "migrate", "cancel"}, NEW d \in OrNone
      PROVE  Resolved(k, kind, d) \in ParkRows
  <2>1. [kind |-> kind, by |-> d] \in wakes
    BY <1>2
  <2> DEFINE w == [kind |-> kind, by |-> d]
  <2>2. Resolved(k, kind, d) = [k EXCEPT !.st = "resuming", !.wake = w]
    BY DEF Resolved
  <2> HIDE DEF w
  <2> QED
    BY <1>3, <2>1, <2>2 DEF w
<1> QED
  BY <1>4, <1>5, <1>6

LEMMA OutcomesTyped ==
  /\ \A k \in {"none", "unrunnable", "declined", "refused", "started", "canceled"} :
       \A R \in SUBSET Runs :
          /\ Outcome(k, R) \in Lives
          /\ Outcome(k, R).kind = k /\ Outcome(k, R).runs = R
  /\ \A d : OpenedBy(d) \in SUBSET Runs
  /\ InFlight \in SUBSET Runs
<1>1. \A k \in {"none", "unrunnable", "declined", "refused", "started", "canceled"} :
       \A R \in SUBSET Runs :
          /\ Outcome(k, R) \in Lives
          /\ Outcome(k, R).kind = k /\ Outcome(k, R).runs = R
  BY DEF Outcome, Lives
<1> QED
  BY <1>1 DEF OpenedBy, InFlight

LEMMA ViewsTyped ==
  ASSUME RunTypes, NEW p \in Passes, pass[p].d \in Deliveries
  PROVE  View(p) \in Views
<1>1. (Guarded /\ refusal[pass[p].d]) \in BOOLEAN
  OBVIOUS
<1> QED
  BY <1>1, OutcomesTyped DEF View, Views

(* What the arrival, its polls, resends and sweeps leave.                  *)
LEMMA ArrivalsTyped ==
  ASSUME TypeInv, NEW d \in Deliveries,
         Receive(d) \/ PollInbox(d) \/ Resend(d) \/ SweepInbox(d) \/ SweepRefusal(d)
           \/ LeaseExpires(d)
  PROVE  TypeInv'
<1> USE DEF TypeInv
<1>1. CASE Receive(d)
  <2>0. FlowInv /\ d \in Deliveries /\ UNCHANGED <<memo, pass>>
        /\ inbox[d] = "absent" /\ inbox' = [inbox EXCEPT ![d] = "pending"]
        /\ \E m \in {"none", "queued"} : sched' = [sched EXCEPT ![d] = m]
    BY <1>1 DEF Receive
  <2>1. sched[d] = "none" /\ memo[d] = NoMemo
    BY <2>0 DEF FlowInv, Scheduled
  <2>2. FlowTypes'
    BY <2>0 DEF FlowInv, FlowTypes, Rows
  <2>3. FlowInv'
    BY <2>0, <2>1, <2>2, RowsMove, PassesAreNoMarks DEF FlowInv, FlowTypes, Scheduled
  <2>4. RunTypes'
    <3>1. {<<r, park[r].pos>> : r \in OpenOnEvent} \in SUBSET Waits
      BY DEF RunTypes, ParkRows, OpenOnEvent, Waits
    <3> DEFINE found == IF d \in Here.wakes THEN {<<r, park[r].pos>> : r \in OpenOnEvent} ELSE {}
    <3>2. found \in SUBSET Waits
      BY <3>1
    <3>3. owed' = [owed EXCEPT ![d] = found]
      BY <1>1 DEF Receive
    <3> HIDE DEF found
    <3> QED
      BY <1>1, <3>2, <3>3 DEF Receive, RunTypes, runs, decisions, workflow,
         Publications, Here
  <2> QED
    BY <2>3, <2>4
<1>2. CASE PollInbox(d)
  <2>1. FlowTypes'
    BY <1>2 DEF PollInbox, FlowInv, FlowTypes
  <2>2. FlowInv'
    BY <1>2, <2>1, RowsMove, PassesAreNoMarks DEF PollInbox, FlowInv, FlowTypes, Scheduled
  <2>3. RunTypes'
    BY <1>2, RunsStay DEF PollInbox
  <2> QED
    BY <2>2, <2>3
<1>3. CASE Resend(d)
  <2>1. sched[d] = "none" /\ memo[d] = NoMemo
    BY <1>3 DEF Resend, FlowInv, Scheduled
  <2>2. FlowTypes'
    BY <1>3 DEF Resend, FlowInv, FlowTypes, Rows
  <2>3. FlowInv'
    BY <1>3, <2>1, <2>2, RowsMove, PassesAreNoMarks
       DEF Resend, FlowInv, FlowTypes, Scheduled
  <2>4. RunTypes'
    BY <1>3 DEF Resend, RunTypes, Counts, runs, decisions, workflow, history,
       Publications, Here
  <2> QED
    BY <2>3, <2>4
<1>4. CASE SweepInbox(d)
  <2>1. sched[d] = "none"
    BY <1>4 DEF SweepInbox, FlowInv, Scheduled
  <2>2. FlowTypes'
    BY <1>4 DEF SweepInbox, FlowInv, FlowTypes, Rows
  <2>3. FlowInv'
    BY <1>4, <2>1, <2>2, RowsMove DEF SweepInbox, FlowInv, FlowTypes, Scheduled
  <2>4. RunTypes'
    BY <1>4 DEF SweepInbox, RunTypes, runs, workflow, history, Publications, Here
  <2> QED
    BY <2>3, <2>4
<1>5. CASE SweepRefusal(d)
  <2>1. UNCHANGED rows /\ UNCHANGED pass
    BY <1>5 DEF SweepRefusal
  <2>2. FlowTypes'
    BY <2>1 DEF FlowInv, FlowTypes, rows
  <2>3. FlowInv'
    BY <2>1, <2>2, RowsMove DEF rows, FlowInv, Scheduled
  <2>4. RunTypes'
    BY <1>5 DEF SweepRefusal, RunTypes, runs, workflow, history, Publications, Here
  <2> QED
    BY <2>3, <2>4
<1>6. CASE LeaseExpires(d)
  <2>1. memo[d] \in Books /\ sched[d] # "none" /\ sched[d] # "queued"
    BY <1>6, PassesAreNoMarks DEF LeaseExpires, FlowInv, FlowTypes
  <2>2. [memo[d] EXCEPT !.fails = memo[d].fails + 1] \in Books
    BY <2>1 DEF Books
  <2>3. memo' = [memo EXCEPT ![d] = [memo[d] EXCEPT !.fails = memo[d].fails + 1]]
    BY <1>6 DEF LeaseExpires
  <2>4. FlowTypes'
    BY <1>6, <2>2, <2>3 DEF LeaseExpires, FlowInv, FlowTypes
  <2>5. FlowInv'
    BY <1>6, <2>1, <2>3, <2>4, RowsMove, PassesAreNoMarks
       DEF LeaseExpires, FlowInv, FlowTypes, Scheduled
  <2>6. RunTypes'
    BY <1>6 DEF LeaseExpires, RunTypes, Counts, runs, decisions, workflow, history,
       Publications, Here
  <2> QED
    BY <2>5, <2>6
<1> QED
  BY <1>1, <1>2, <1>3, <1>4, <1>5, <1>6

(* What the runs, a Publish and a Migration leave.                         *)
LEMMA RunsTyped ==
  ASSUME TypeInv, Publish \/ \E r \in Runs : RunStep(r)
  PROVE  TypeInv'
<1> USE DEF TypeInv
<1>1. UNCHANGED rows /\ UNCHANGED pass
  BY DEF Publish, RunStep, RunParks, RunWakes, RunEnds, Migrate, SweepRun
<1>2. FlowTypes'
  BY <1>1 DEF FlowInv, FlowTypes, rows
<1>3. FlowInv'
  BY <1>1, <1>2, RowsMove DEF rows, FlowInv, Scheduled
<1>4. RunTypes'
  <2>1. CASE Publish
    <3>1. DOMAIN Publications = 1 .. Len(Publications) /\ version \in Nat
      BY Surroundings DEF Types, FlowInv, RunTypes
    <3> QED
      BY <2>1, <3>1 DEF Publish, RunTypes, runs, decisions, history, Publications, Here
  <2>2. ASSUME NEW r \in Runs, RunStep(r) PROVE RunTypes'
    <3>0. park[r] \in ParkRows /\ run[r] \in RunRows
      BY DEF RunTypes
    <3> USE DEF runs, decisions, workflow, history, Publications, Here
    <3>1. CASE RunParks(r)
      <4>1. NextPark(park[r]) \in ParkRows
        BY <3>0, ParksTyped
      <4> QED
        BY <3>1, <4>1 DEF RunParks, RunTypes
    <3>2. CASE RunWakes(r)
      <4> DEFINE Y == IF park[r].wake.kind = "migrate"
              THEN [park[r] EXCEPT !.st = "waiting", !.token = park[r].token + 1, !.wake = NoWake]
              ELSE Gone(park[r])
      <4>1. Y \in ParkRows
        <5>1. NoWake \in [kind : {"none", "resume", "migrate", "cancel"}, by : OrNone]
          BY DEF NoWake, OrNone
        <5> HIDE DEF NoWake
        <5> DEFINE next == park[r].token + 1
        <5>0. next \in Nat
          BY <3>0 DEF ParkRows
        <5> HIDE DEF next
        <5>2. [park[r] EXCEPT !.st = "waiting", !.token = next, !.wake = NoWake] \in ParkRows
          BY <3>0, <5>0, <5>1 DEF ParkRows
        <5>3. Gone(park[r]) \in ParkRows
          BY <3>0, ParksTyped
        <5> QED
          BY <5>2, <5>3 DEF next
      <4>2. park' = [park EXCEPT ![r] = Y]
        BY <3>2 DEF RunWakes
      <4> HIDE DEF Y
      <4> QED
        BY <3>2, <4>1, <4>2 DEF RunWakes, RunTypes
    <3>3. CASE RunEnds(r)
      BY <3>0, <3>3 DEF RunEnds, RunTypes, RunRows
    <3>4. CASE Migrate(r)
      <4>1. Resolved(park[r], "migrate", NoDelivery) \in ParkRows
        BY <3>0, ParksTyped DEF OrNone
      <4> QED
        BY <3>4, <4>1 DEF Migrate, RunTypes, Counts
    <3>5. CASE SweepRun(r)
      BY <3>0, <3>5 DEF SweepRun, RunTypes, RunRows
    <3> QED
      BY <2>2, <3>1, <3>2, <3>3, <3>4, <3>5 DEF RunStep
  <2> QED
    BY <2>1, <2>2
<1> QED
  BY <1>3, <1>4

(* What a pass's claim, its settling, its failures and its crash leave.     *)
LEMMA PassEndsTyped ==
  ASSUME TypeInv, NEW p \in Passes,
         \/ \E d \in Deliveries : Claim(p, d)
         \/ Open(p) \/ FinishDelivery(p) \/ StepThrows(p) \/ Crash(p)
  PROVE  TypeInv'
<1> USE DEF TypeInv
<1>1. ASSUME NEW d \in Deliveries, Claim(p, d) PROVE TypeInv'
  <2> DEFINE X == [Idle EXCEPT !.at = "open", !.d = d]
  <2>1. X \in PassStates /\ X.at = "open" /\ X.d = d
    BY NothingIsTyped DEF PassStates, Points, OrNone
  <2>2. /\ pass[p].at = "idle" /\ sched[d] = "queued"
        /\ sched' = [sched EXCEPT ![d] = p] /\ pass' = [pass EXCEPT ![p] = X]
        /\ UNCHANGED <<inbox, memo>>
    BY <1>1 DEF Claim
  <2> HIDE DEF X
  <2>3. FlowTypes'
    BY <2>1, <2>2 DEF FlowInv, FlowTypes
  <2>4. /\ \A q \in Passes : pass'[q] = IF q = p THEN X ELSE pass[q]
        /\ \A e \in Deliveries : sched'[e] = IF e = d THEN p ELSE sched[e]
    BY <2>2 DEF FlowInv, FlowTypes
  <2>5. PassesNamed'
    <3>1. Arrived(d)
      BY <2>2 DEF FlowInv, Scheduled, Arrived
    <3> QED
      BY <2>1, <2>2, <2>4, <3>1 DEF FlowInv, PassesNamed, Arrived
  <2>6. Scheduled'
    BY <2>2, <2>4, PassesAreNoMarks DEF FlowInv, Scheduled
  <2>7. Fenced'
    <3> SUFFICES ASSUME NEW q \in Passes, pass'[q].at \notin {"idle", "open"},
                        sched'[pass'[q].d] = q
                 PROVE  SameBook(pass'[q].book, memo[pass'[q].d])
      BY <2>2 DEF Fenced, Holds, SameBook
    <3>1. q # p /\ pass'[q] = pass[q]
      BY <2>1, <2>4
    <3>2. pass[q].d \in Deliveries /\ pass[q].d # d
      BY <2>4, <3>1 DEF FlowInv, PassesNamed
    <3> QED
      BY <2>4, <3>1, <3>2 DEF FlowInv, Fenced, Holds
  <2>8. RunTypes'
    BY <1>1, RunsStay DEF Claim
  <2> QED
    BY <2>3, <2>5, <2>6, <2>7, <2>8 DEF FlowInv
<1>2. CASE Open(p)
  <2> DEFINE d == pass[p].d
  <2>1. d \in Deliveries /\ pass[p].at = "open"
    BY <1>2 DEF Open, FlowInv, PassesNamed
  <2>2. RunTypes'
    BY <1>2, RunsStay DEF Open
  <2>3. \/ pass' = [pass EXCEPT ![p] = Idle] /\ UNCHANGED rows
        \/ \E status \in {"delivered", "failed"} : Settle(p, status)
        \/ pass' = [pass EXCEPT ![p] = Continue(p, memo[d])] /\ UNCHANGED rows
    <3>1. inbox[d] \in Rows
      BY <2>1 DEF FlowInv, FlowTypes
    <3>2. CASE inbox[d] \in {"delivered", "failed"}
      <4>1. Settle(p, inbox[d])
        BY <1>2, <3>2 DEF Open
      <4> QED
        BY <3>2, <4>1
    <3>3. CASE inbox[d] = "swept"
      BY <1>2, <3>3 DEF Open
    <3>4. CASE inbox[d] = "pending"
      BY <1>2, <3>4 DEF Open
    <3>5. CASE inbox[d] = "absent"
      BY <1>2, <3>5 DEF Open, FlowInv, PassesNamed, Arrived
    <3> QED
      BY <3>1, <3>2, <3>3, <3>4, <3>5 DEF Rows
  <2>4. CASE pass' = [pass EXCEPT ![p] = Idle] /\ UNCHANGED rows
    BY <2>2, <2>4, PassStops
  <2>5. ASSUME NEW status \in {"delivered", "failed"}, Settle(p, status) PROVE TypeInv'
    BY <2>1, <2>2, <2>5, DeliverySettles
  <2>6. CASE pass' = [pass EXCEPT ![p] = Continue(p, memo[d])] /\ UNCHANGED rows
    <3> DEFINE X == Continue(p, memo[d])
    <3>1. memo[d] \in Books
      BY <2>1 DEF FlowInv, FlowTypes
    <3>2. X \in PassStates /\ X.d = d /\ X.book = memo[d]
      BY <3>1, GoesOn DEF Types, FlowInv
    <3> HIDE DEF X
    <3>3. FlowTypes'
      BY <2>6, <3>2 DEF FlowInv, FlowTypes, rows, X
    <3>4. \A q \in Passes : pass'[q] = IF q = p THEN X ELSE pass[q]
      BY <2>6 DEF FlowInv, FlowTypes, X
    <3>5. PassesNamed'
      BY <2>1, <2>6, <3>2, <3>4 DEF FlowInv, PassesNamed, Arrived, rows
    <3>6. Scheduled'
      BY <2>6 DEF FlowInv, Scheduled, rows
    <3>7. Fenced'
      <4> SUFFICES ASSUME NEW q \in Passes, pass'[q].at \notin {"idle", "open"},
                          sched[pass'[q].d] = q
                   PROVE  SameBook(pass'[q].book, memo[pass'[q].d])
        BY <2>6 DEF Fenced, Holds, SameBook, rows
      <4>1. CASE q = p
        BY <3>2, <3>4, <4>1 DEF SameBook
      <4>2. CASE q # p
        BY <3>4, <4>2 DEF FlowInv, Fenced, Holds
      <4> QED
        BY <4>1, <4>2
    <3> QED
      BY <2>2, <3>3, <3>5, <3>6, <3>7 DEF FlowInv
  <2> QED
    BY <2>3, <2>4, <2>5, <2>6
<1>3. CASE FinishDelivery(p)
  BY <1>3, DeliverySettles, RunsStay DEF FinishDelivery
<1>4. CASE StepThrows(p)
  <2> DEFINE d == pass[p].d
  <2>1. RunTypes'
    BY <1>4, RunsStay DEF StepThrows
  <2>2. pass[p].at # "idle" /\ d \in Deliveries
    BY <1>4 DEF StepThrows, StepPoints, FlowInv, PassesNamed
  <2>3. CASE Settle(p, "failed")
    BY <2>1, <2>2, <2>3, DeliverySettles
  <2>4. CASE ~Settle(p, "failed")
    <3>1. /\ Holds(p) /\ pass' = [pass EXCEPT ![p] = Idle]
          /\ sched' = [sched EXCEPT ![d] = "queued"]
          /\ memo' = [memo EXCEPT ![d] = [memo[d] EXCEPT !.fails = memo[d].fails + 1]]
          /\ UNCHANGED inbox
      BY <1>4, <2>4 DEF StepThrows
    <3>2. memo[d] \in Books
      BY <2>2 DEF FlowInv, FlowTypes
    <3>3. [memo[d] EXCEPT !.fails = memo[d].fails + 1] \in Books
      BY <3>2 DEF Books
    <3>4. FlowTypes'
      BY <3>1, <3>3, NothingIsTyped DEF FlowInv, FlowTypes
    <3>5. /\ \A q \in Passes : pass'[q] = IF q = p THEN Idle ELSE pass[q]
          /\ \A e \in Deliveries : e # d => sched'[e] = sched[e] /\ memo'[e] = memo[e]
          /\ sched'[d] = "queued"
      BY <2>2, <3>1 DEF FlowInv, FlowTypes
    <3>6. PassesNamed'
      BY <3>1, <3>5, NothingIsTyped DEF FlowInv, PassesNamed, Arrived
    <3>7. inbox[d] = "pending"
      BY <2>2, <3>1, PassesAreNoMarks DEF Holds, FlowInv, Scheduled
    <3>8. Scheduled'
      BY <3>1, <3>5, <3>7 DEF FlowInv, Scheduled
    <3>9. Fenced'
      <4> SUFFICES ASSUME NEW q \in Passes, pass'[q].at \notin {"idle", "open"},
                          sched'[pass'[q].d] = q
                   PROVE  SameBook(pass'[q].book, memo'[pass'[q].d])
        BY DEF Fenced, Holds, SameBook
      <4>1. q # p /\ pass'[q] = pass[q]
        BY <3>5, NothingIsTyped
      <4>2. pass[q].d # d /\ pass[q].d \in Deliveries
        BY <3>5, <4>1, PassesAreNoMarks DEF FlowInv, PassesNamed
      <4> QED
        BY <3>5, <4>1, <4>2 DEF FlowInv, Fenced, Holds
    <3> QED
      BY <2>1, <3>4, <3>6, <3>8, <3>9 DEF FlowInv
  <2> QED
    BY <2>3, <2>4
<1>5. CASE Crash(p)
  <2>1. FlowInv'
    BY <1>5, PassStops DEF Crash
  <2>2. RunTypes'
    BY <1>5 DEF Crash, RunTypes, Counts, runs, decisions, workflow, history,
       Publications, Here
  <2> QED
    BY <2>1, <2>2
<1> QED
  BY <1>1, <1>2, <1>3, <1>4, <1>5

(* What the steps of the Lifecycle Rules leave.                            *)
LEMMA RulesTyped ==
  ASSUME TypeInv, NEW p \in Passes,
         \/ ReadLifecycle(p) \/ RecordRefusal(p) \/ BeginStart(p) \/ CommitStart(p)
         \/ DeclineStart(p) \/ RequestCancel(p)
  PROVE  TypeInv'
<1> USE DEF TypeInv
<1> DEFINE d == pass[p].d
<1>0. /\ pass[p] \in PassStates /\ pass[p].at \notin {"idle", "open"}
      /\ d \in Deliveries /\ UNCHANGED rows
  <2>1. pass[p].at \notin {"idle", "open"} /\ UNCHANGED rows
    BY DEF ReadLifecycle, RecordRefusal, BeginStart, CommitStart, DeclineStart, RequestCancel
  <2> QED
    BY <2>1 DEF FlowInv, FlowTypes, PassesNamed
<1>a. ASSUME NEW k \in {"none", "unrunnable", "declined", "refused", "started", "canceled"},
             NEW R \in SUBSET Runs, Comes(p, Outcome(k, R))
      PROVE  FlowInv'
  BY <1>0, <1>a, OutcomesTyped, OutcomeComes
<1>b. ASSUME NEW at \in Points, NEW c \in Policies, NEW v \in Views,
             pass' = [pass EXCEPT ![p] = [pass[p] EXCEPT !.at = at, !.concurrency = c, !.view = v]]
      PROVE  FlowInv'
  <2> DEFINE X == [pass[p] EXCEPT !.at = at, !.concurrency = c, !.view = v]
  <2>1. X \in PassStates /\ X.d = d /\ X.book = pass[p].book
    BY <1>0 DEF PassStates
  <2>2. pass' = [pass EXCEPT ![p] = X]
    BY <1>b
  <2> HIDE DEF X, d
  <2> QED
    BY <1>0, <2>1, <2>2, PassMovesOn DEF d
<1>c. pass[p].concurrency \in Policies /\ pass[p].view \in Views
  BY <1>0 DEF PassStates
<1>d. {"cancel", "decline", "admit", "refuse", "admitting"} \subseteq Points
  BY DEF Points, StepPoints
<1>1. CASE ReadLifecycle(p)
  <2>1. RunTypes'
    BY <1>1, RunsStay DEF ReadLifecycle
  <2>2. Publications[version].concurrency \in Policies
    BY Surroundings DEF Types, FlowInv, RunTypes
  <2>3. \/ \E k \in {"none", "unrunnable", "refused", "started"}, R \in SUBSET Runs :
             Comes(p, Outcome(k, R))
        \/ FlowInv'
    <3>1. ASSUME NEW at \in {"cancel", "decline", "admit", "refuse"},
                 pass' = [pass EXCEPT ![p].at = at,
                            ![p].concurrency = Publications[version].concurrency]
          PROVE  FlowInv'
      <4> DEFINE c == Publications[version].concurrency
      <4>1. pass' = [pass EXCEPT ![p] = [pass[p] EXCEPT !.at = at, !.concurrency = c,
                               !.view = pass[p].view]]
        BY <1>0, <3>1 DEF PassStates, FlowInv, FlowTypes
      <4>2. at \in Points
        BY <1>d
      <4> HIDE DEF c
      <4>3. c \in Policies
        BY <2>2 DEF c
      <4> QED
        BY <1>b, <1>c, <4>1, <4>2, <4>3
    <3>2. CASE "start" \in pass[p].book.roles /\ (refusal[d] \/ OpenedBy(d) # {})
      <4>1. \/ Comes(p, Outcome("refused", {}))
            \/ Comes(p, Outcome("started", OpenedBy(d)))
        BY <1>1, <3>2, Zenon DEF ReadLifecycle
      <4> QED
        BY <4>1, OutcomesTyped
    <3>3. CASE ~("start" \in pass[p].book.roles /\ (refusal[d] \/ OpenedBy(d) # {}))
      <4>1. \/ \E k \in {"none", "unrunnable"} : Comes(p, Outcome(k, {}))
            \/ \E at \in {"cancel", "decline", "admit", "refuse"} :
                 pass' = [pass EXCEPT ![p].at = at,
                            ![p].concurrency = Publications[version].concurrency]
        BY <1>1, <3>3 DEF ReadLifecycle
      <4> QED
        BY <3>1, <4>1
    <3> QED
      BY <3>2, <3>3
  <2>4. FlowInv'
    BY <1>a, <2>3
  <2> QED
    BY <2>1, <2>4
<1>2. CASE RecordRefusal(p)
  <2>1. RunTypes'
    <3>1. refusal' \in [Deliveries -> BOOLEAN]
      BY <1>0, <1>2 DEF RecordRefusal, RunTypes
    <3> QED
      BY <1>2, <3>1 DEF RecordRefusal, RunTypes, runs, workflow, history, Publications, Here
  <2>2. CASE OpenedBy(d) # {}
    <3>1. pass' = [pass EXCEPT ![p] = [pass[p] EXCEPT !.at = "admit",
              !.concurrency = pass[p].concurrency, !.view = pass[p].view]]
      BY <1>0, <1>2, <2>2 DEF RecordRefusal, PassStates
    <3> QED
      BY <1>b, <1>c, <1>d, <2>1, <3>1
  <2>3. CASE OpenedBy(d) = {}
    BY <1>2, <1>a, <2>1, <2>3 DEF RecordRefusal
  <2> QED
    BY <2>2, <2>3
<1>3. CASE BeginStart(p)
  <2>1. RunTypes'
    BY <1>3, RunsStay DEF BeginStart
  <2>2. View(p) \in Views
    BY <1>0, ViewsTyped
  <2>3. pass' = [pass EXCEPT ![p] = [pass[p] EXCEPT !.at = "admitting",
            !.concurrency = pass[p].concurrency, !.view = View(p)]]
    BY <1>0, <1>3 DEF BeginStart, PassStates
  <2> QED
    BY <1>b, <1>c, <1>d, <2>1, <2>2, <2>3
<1>4. CASE CommitStart(p)
  <2> DEFINE seen == pass[p].view
  <2>1. CASE UNCHANGED <<runs, after>>
    <3>1. RunTypes'
      BY <1>4, <2>1, RunsStay DEF CommitStart, history
    <3>2. seen.own \in SUBSET Runs
      BY <1>c DEF Views
    <3>3. ASSUME NEW at \in {"decline", "admit"},
                 pass' = [pass EXCEPT ![p].at = at, ![p].view = NoView]
          PROVE  FlowInv'
      <4>1. pass' = [pass EXCEPT ![p] = [pass[p] EXCEPT !.at = at,
                       !.concurrency = pass[p].concurrency, !.view = NoView]]
        BY <1>0, <3>3 DEF PassStates, FlowInv, FlowTypes
      <4>2. at \in Points
        BY <1>d
      <4> QED
        BY <1>b, <1>c, <4>1, <4>2, NothingIsTyped
    <3>4. \/ \E k \in {"refused", "started"}, R \in SUBSET Runs : Comes(p, Outcome(k, R))
          \/ \E at \in {"decline", "admit"} : pass' = [pass EXCEPT ![p].at = at, ![p].view = NoView]
          \/ OpenRun(p, seen.inFlight \cap InFlight)
      <4>1. \/ Comes(p, Outcome("refused", {}))
            \/ Comes(p, Outcome("started", seen.own))
            \/ Comes(p, Outcome("started", OpenedBy(d)))
            \/ pass' = [pass EXCEPT ![p].at = "decline", ![p].view = NoView]
            \/ pass' = [pass EXCEPT ![p].at = "admit", ![p].view = NoView]
            \/ OpenRun(p, seen.inFlight \cap InFlight)
        BY <1>4, Zenon DEF CommitStart
      <4> QED
        BY <3>2, <4>1, OutcomesTyped
    <3>5. CASE OpenRun(p, seen.inFlight \cap InFlight)
      <4>1. PICK r \in Runs \ Standing :
              Comes(p, Outcome("started", {r} \cup (seen.inFlight \cap InFlight)))
        BY <3>5 DEF OpenRun
      <4>2. {r} \cup (seen.inFlight \cap InFlight) \in SUBSET Runs
        BY OutcomesTyped
      <4> QED
        BY <1>a, <3>1, <4>1, <4>2
    <3> QED
      BY <1>a, <3>1, <3>3, <3>4, <3>5
  <2>2. CASE ~UNCHANGED <<runs, after>>
    <3> DEFINE displaced == seen.inFlight \cap InFlight
    <3>1. OpenRun(p, displaced)
      BY <1>4, <2>2 DEF CommitStart
    <3>2. displaced \in SUBSET Runs
      BY OutcomesTyped
    <3> HIDE DEF displaced
    <3>3. PICK r \in Runs \ Standing :
        /\ run' = [s \in Runs |->
             IF s = r THEN [status |-> "live", by |-> pass[p].d, claim |-> NoDelivery]
             ELSE IF s \in displaced THEN [run[s] EXCEPT !.status = "over"]
             ELSE run[s]]
        /\ park' = [s \in Runs |-> IF s \in displaced THEN Gone(park[s]) ELSE park[s]]
        /\ after' = [after EXCEPT ![r] = {e \in Deliveries : decided[e]}]
        /\ Comes(p, Outcome("started", {r} \cup displaced))
      BY <3>1 DEF OpenRun
    <3>4. run' \in [Runs -> RunRows]
      <4>1. [status |-> "live", by |-> d, claim |-> NoDelivery] \in RunRows
        BY <1>0 DEF RunRows, OrNone
      <4>2. \A s \in Runs : run[s] \in RunRows /\ [run[s] EXCEPT !.status = "over"] \in RunRows
        BY DEF RunTypes, RunRows
      <4> QED
        BY <3>3, <4>1, <4>2
    <3>5. park' \in [Runs -> ParkRows]
      <4>2. \A s \in Runs : park[s] \in ParkRows /\ Gone(park[s]) \in ParkRows
        BY ParksTyped DEF RunTypes
      <4> QED
        BY <3>3, <4>2
    <3>6. after' \in [Runs -> SUBSET Deliveries]
      BY <3>3 DEF RunTypes
    <3>7. RunTypes'
      BY <1>4, <3>4, <3>5, <3>6 DEF CommitStart, RunTypes, decisions, workflow,
         Publications, Here
    <3>8. {r} \cup displaced \in SUBSET Runs
      BY <3>2
    <3> QED
      BY <1>a, <3>3, <3>7, <3>8
  <2> QED
    BY <2>1, <2>2
<1>5. CASE DeclineStart(p)
  BY <1>5, <1>a, RunsStay DEF DeclineStart
<1>6. CASE RequestCancel(p)
  <2>1. CASE inbox[d] = "swept"
    BY <1>0, <1>6, <2>1, RunsStay, PassStops DEF RequestCancel, decisions
  <2>2. CASE inbox[d] # "swept" /\ decided[d]
    <3>1. {r \in Runs : run[r].claim = d} \in SUBSET Runs
      OBVIOUS
    <3>2. Comes(p, Outcome("canceled", {r \in Runs : run[r].claim = d}))
            /\ UNCHANGED <<runs, decisions, workflow, count, history>>
      BY <1>6, <2>2 DEF RequestCancel, decisions
    <3> QED
      BY <1>a, <3>1, <3>2, RunsStay
  <2>3. CASE inbox[d] # "swept" /\ ~decided[d]
    <3>1. /\ decided' = [decided EXCEPT ![d] = TRUE]
          /\ run' = [r \in Runs |-> IF r \in InFlight
                                    THEN [run[r] EXCEPT !.claim = d] ELSE run[r]]
          /\ park' = [r \in Runs |-> IF r \in InFlight /\ park[r].st = "waiting"
                                     THEN Resolved(park[r], "cancel", d) ELSE park[r]]
          /\ Comes(p, Outcome("canceled", InFlight))
      BY <1>6, <2>3 DEF RequestCancel
    <3>2. run' \in [Runs -> RunRows]
      <4>1. \A r \in Runs : run[r] \in RunRows /\ [run[r] EXCEPT !.claim = d] \in RunRows
        BY <1>0 DEF RunTypes, RunRows, OrNone
      <4> QED
        BY <3>1, <4>1
    <3>3. park' \in [Runs -> ParkRows]
      <4>1. \A r \in Runs : park[r] \in ParkRows /\ Resolved(park[r], "cancel", d) \in ParkRows
        BY <1>0, ParksTyped DEF RunTypes, OrNone
      <4> QED
        BY <3>1, <4>1
    <3>4. RunTypes'
      BY <1>6, <3>1, <3>2, <3>3 DEF RequestCancel, RunTypes, workflow, history,
         Publications, Here
    <3> QED
      BY <1>a, <3>1, <3>4, OutcomesTyped
  <2> QED
    BY <2>1, <2>2, <2>3
<1> QED
  BY <1>1, <1>2, <1>3, <1>4, <1>5, <1>6

(* What the steps that save the memo and those that wake Waits leave.      *)
LEMMA WaitsTyped ==
  ASSUME TypeInv, NEW p \in Passes,
         \/ ListSubscribers(p) \/ SaveOutcome(p) \/ ListPage(p) \/ SavePage(p)
         \/ \E c \in pass[p].todo : WakeWait(p, c) \/ RereadWait(p, c)
  PROVE  TypeInv'
<1> USE DEF TypeInv
<1> DEFINE d == pass[p].d
           b == pass[p].book
<1>0. /\ pass[p] \in PassStates /\ pass[p].at \notin {"idle", "open"}
      /\ d \in Deliveries
  <2>1. pass[p].at \notin {"idle", "open"}
    BY DEF ListSubscribers, SaveOutcome, ListPage, SavePage, WakeWait, RereadWait
  <2> QED
    BY <2>1 DEF FlowInv, FlowTypes, PassesNamed
<1>a. b \in Books /\ pass[p].life \in Lives /\ pass[p].todo \in SUBSET Offered
  BY <1>0 DEF PassStates
<1>b. ASSUME NEW e \in Books, WriteMemo(p, e),
             UNCHANGED <<inbox, sched, runs, decisions, workflow, count, history>>
      PROVE  TypeInv'
  <2> HIDE DEF d, b
  <2> QED
    BY <1>0, <1>b, MemoIsWritten, RunsStay
<1>c. ASSUME NEW T \in SUBSET Offered, pass' = [pass EXCEPT ![p].todo = T], UNCHANGED rows
      PROVE  FlowInv'
  <2> DEFINE X == [pass[p] EXCEPT !.todo = T]
  <2>1. X \in PassStates /\ X.d = d /\ X.book = b
    BY <1>0 DEF PassStates
  <2>2. pass' = [pass EXCEPT ![p] = X]
    BY <1>c
  <2> HIDE DEF X, d, b
  <2> QED
    BY <1>0, <1>c, <2>1, <2>2, PassMovesOn DEF d, b
<1>1. CASE ListSubscribers(p)
  BY <1>0, <1>1, <1>a, <1>b, BooksGrow DEF ListSubscribers, Types, FlowInv
<1>2. CASE SaveOutcome(p)
  BY <1>2, <1>a, <1>b, BooksGrow DEF SaveOutcome, Types, FlowInv
<1>3. CASE ListPage(p)
  BY <1>3, <1>a, <1>b, BooksGrow DEF ListPage, Types, FlowInv
<1>4. CASE SavePage(p)
  BY <1>4, <1>a, <1>b, BooksGrow DEF SavePage, Types, FlowInv
<1>5. ASSUME NEW c \in pass[p].todo, WakeWait(p, c) PROVE TypeInv'
  <2>1. c \in Offered /\ c.run \in Runs /\ park[c.run] \in ParkRows /\ c.pos \in Nat
    BY <1>a DEF Offered, RunTypes
  <2>2. Candidate(c, "reread") \in Offered
    BY <2>1 DEF Candidate, Offered
  <2>3. \E T \in SUBSET Offered : pass' = [pass EXCEPT ![p].todo = T]
    BY <1>5, <1>a, <2>2 DEF WakeWait
  <2>4. FlowInv'
    BY <1>5, <1>c, <2>3 DEF WakeWait
  <2>5. park' \in [Runs -> ParkRows]
    <3>1. d \in OrNone
      BY <1>0 DEF OrNone
    <3>2. Resolved(park[c.run], "resume", d) \in ParkRows
      BY <2>1, <3>1, ParksTyped
    <3>3. park' = park \/ park' = [park EXCEPT ![c.run] = Resolved(park[c.run], "resume", d)]
      BY <1>5 DEF WakeWait
    <3> QED
      BY <2>1, <3>2, <3>3 DEF RunTypes
  <2>6. woke' \in [Deliveries -> SUBSET Waits]
    <3>1. <<c.run, c.pos>> \in Waits
      BY <2>1 DEF Waits
    <3>2. woke' = woke \/ woke' = [woke EXCEPT ![d] = woke[d] \cup {<<c.run, c.pos>>}]
      BY <1>5 DEF WakeWait
    <3> QED
      BY <1>0, <3>1, <3>2 DEF RunTypes
  <2>7. RunTypes'
    BY <1>5, <2>5, <2>6 DEF WakeWait, RunTypes, decisions, workflow, Publications, Here
  <2> QED
    BY <2>4, <2>7
<1>6. ASSUME NEW c \in pass[p].todo, RereadWait(p, c) PROVE TypeInv'
  <2>1. c \in Offered /\ c.run \in Runs /\ park[c.run].token \in Nat
    BY <1>a DEF Offered, RunTypes, ParkRows
  <2>2. [c EXCEPT !.token = park[c.run].token, !.step = "claim"] \in Offered
    BY <2>1 DEF Offered
  <2>3. \E T \in SUBSET Offered : pass' = [pass EXCEPT ![p].todo = T]
    <3> DEFINE again == IF Refreshable(c, pass[p].d)
          THEN {[c EXCEPT !.token = park[c.run].token, !.step = "claim"]} ELSE {}
    <3>1. again \in SUBSET Offered
      BY <2>2
    <3>2. pass' = [pass EXCEPT ![p].todo = (pass[p].todo \ {c}) \cup again]
      BY <1>6 DEF RereadWait
    <3> HIDE DEF again
    <3> QED
      BY <1>a, <3>1, <3>2
  <2>4. FlowInv'
    BY <1>6, <1>c, <2>3 DEF RereadWait
  <2>5. RunTypes'
    BY <1>6, RunsStay DEF RereadWait
  <2> QED
    BY <2>4, <2>5
<1> QED
  BY <1>1, <1>2, <1>3, <1>4, <1>5, <1>6

LEMMA Begins == Init => TypeInv
<1> SUFFICES ASSUME Init PROVE TypeInv
  OBVIOUS
<1>1. setting \in DOMAIN Settings /\ Publications # <<>> /\ version = 1
      /\ Publications \in Seq([role : [Deliveries -> EventRoles], concurrency : Policies])
  BY SettingsAreSound DEF Init, Publications, Here
<1>2. version \in DOMAIN Publications
  <2> DEFINE all == [role : [Deliveries -> EventRoles], concurrency : Policies]
  <2>1. Publications \in Seq(all)
    BY <1>1
  <2> HIDE DEF all
  <2> QED
    BY <1>1, <2>1
<1>3. run \in [Runs -> RunRows]
  BY DEF Init, RunRows, OrNone
<1>4. park \in [Runs -> ParkRows]
  BY NothingIsTyped, ParksTyped DEF Init
<1>5. RunTypes
  BY <1>1, <1>2, <1>3, <1>4 DEF Init, RunTypes, Counts
<1>6. FlowTypes
  BY NothingIsTyped DEF Init, FlowTypes, Rows
<1>7. PassesNamed /\ Scheduled /\ Fenced
  BY NothingIsTyped DEF Init, PassesNamed, Scheduled, Fenced
<1> QED
  BY <1>5, <1>6, <1>7 DEF TypeInv, FlowInv

LEMMA Continues == TypeInv /\ [Next]_vars => TypeInv'
<1> SUFFICES ASSUME TypeInv, [Next]_vars PROVE TypeInv'
  OBVIOUS
<1>1. ASSUME NEW d \in Deliveries,
             Receive(d) \/ PollInbox(d) \/ Resend(d) \/ LeaseExpires(d)
               \/ SweepInbox(d) \/ SweepRefusal(d)
      PROVE  TypeInv'
  BY <1>1, ArrivalsTyped
<1>2. ASSUME NEW p \in Passes,
             (\E d \in Deliveries : Claim(p, d)) \/ PassStep(p) \/ StepThrows(p) \/ Crash(p)
      PROVE  TypeInv'
  BY <1>2, PassEndsTyped, RulesTyped, WaitsTyped DEF PassStep
<1>3. CASE Publish \/ \E r \in Runs : RunStep(r)
  BY <1>3, RunsTyped
<1>4. CASE UNCHANGED vars
  <2>1. RunTypes'
    BY <1>4, RunsStay DEF TypeInv, vars
  <2>2. FlowTypes'
    BY <1>4 DEF vars, TypeInv, FlowInv, FlowTypes, rows
  <2>3. FlowInv'
    BY <1>4, <2>2, RowsMove DEF vars, TypeInv, FlowInv, rows, Scheduled
  <2> QED
    BY <2>1, <2>3 DEF TypeInv
<1> QED
  BY <1>1, <1>2, <1>3, <1>4 DEF Next

(* A memo belongs to a scheduled delivery, a scheduled row to a pending    *)
(* arrival, and the pass that holds the lease knows the memo as it stands, *)
(* whatever passes lost the same lease before (the owner-token fence of    *)
(* executor/runtime.ts and repo/inbox-policy.ts).                          *)
THEOREM TypeCorrect == Spec => []TypeOK
<1>1. TypeInv => TypeOK
  <2> SUFFICES ASSUME TypeInv PROVE TypeOK
    OBVIOUS
  <2>1. \A p \in Passes : pass[p].at \in Points
    BY DEF TypeInv, FlowInv, FlowTypes, PassStates
  <2>2. \A p \in Passes :
          pass[p].at \notin {"idle", "open"} /\ Holds(p) =>
            [pass[p].book EXCEPT !.fails = 0] = [memo[pass[p].d] EXCEPT !.fails = 0]
    BY DEF TypeInv, FlowInv, Fenced, SameBook
  <2> QED
    BY <2>1, <2>2 DEF TypeOK, TypeInv, FlowInv, FlowTypes, RunTypes, Scheduled
<1> QED
  BY <1>1, Begins, Continues, PTL DEF Spec

-----------------------------------------------------------------------------
(* What a step can do to the rows the decisions are kept in                *)

(* No step leaves the setting.                                             *)
LEMMA SettingStays ==
  ASSUME [Next]_vars
  PROVE  /\ setting' = setting
         /\ Publications' = Publications /\ Standing' = Standing /\ Guarded' = Guarded
         /\ \A d, role : HasRole(d, role)' <=> HasRole(d, role)
         /\ AllCompare' <=> AllCompare
<1>1. setting' = setting
  <2> USE DEF workflow
  <2>1. ASSUME NEW d \in Deliveries,
               \/ Receive(d) \/ PollInbox(d) \/ Resend(d) \/ LeaseExpires(d)
               \/ SweepInbox(d) \/ SweepRefusal(d) \/ \E p \in Passes : Claim(p, d)
        PROVE  setting' = setting
    BY <2>1, Zenon DEF Receive, PollInbox, Resend, LeaseExpires, SweepInbox, SweepRefusal, Claim
  <2>2. ASSUME NEW p \in Passes, PassStep(p) \/ StepThrows(p) \/ Crash(p)
        PROVE  setting' = setting
    BY <2>2, Zenon DEF PassStep, Open, ListSubscribers, ReadLifecycle, RecordRefusal,
       BeginStart, CommitStart, DeclineStart, RequestCancel, SaveOutcome, ListPage,
       SavePage, FinishDelivery, WakeWait, RereadWait, StepThrows, Crash
  <2>3. ASSUME NEW r \in Runs, RunStep(r) PROVE setting' = setting
    BY <2>3, Zenon DEF RunStep, RunParks, RunWakes, RunEnds, Migrate, SweepRun
  <2>4. CASE Publish
    BY <2>4 DEF Publish
  <2>5. CASE UNCHANGED vars
    BY <2>5 DEF vars
  <2> QED
    BY <2>1, <2>2, <2>3, <2>4, <2>5 DEF Next
<1>2. Publications' = Publications /\ Standing' = Standing /\ Guarded' = Guarded
  BY <1>1 DEF Publications, Standing, Guarded, Here
<1> QED
  BY <1>1, <1>2 DEF HasRole, AllCompare

RowMoves ==
  {<<"absent", "pending">>, <<"failed", "pending">>, <<"pending", "delivered">>,
   <<"pending", "failed">>, <<"delivered", "swept">>, <<"failed", "swept">>}

LEMMA SettlingMoves ==
  ASSUME TypeInv, NEW p \in Passes, pass[p].at # "idle",
         NEW status \in {"delivered", "failed"}, Settle(p, status)
  PROVE  \/ inbox' = inbox
         \/ \E d \in Deliveries : \E s \in {"delivered", "failed"} :
              inbox[d] = "pending" /\ inbox' = [inbox EXCEPT ![d] = s]
<1>1. CASE ~Holds(p)
  BY <1>1 DEF Settle, rows
<1>2. CASE Holds(p)
  <2>1. pass[p].d \in Deliveries /\ sched[pass[p].d] = p
    BY <1>2 DEF TypeInv, FlowInv, PassesNamed, Holds
  <2>2. inbox[pass[p].d] = "pending"
    BY <2>1, PassesAreNoMarks DEF TypeInv, FlowInv, Scheduled
  <2>3. inbox' = [inbox EXCEPT ![pass[p].d] = status]
    BY <1>2, <2>2 DEF Settle
  <2> QED
    BY <2>1, <2>2, <2>3
<1> QED
  BY <1>1, <1>2

(* An inbox row moves alone, and along its way.                            *)
LEMMA InboxMoves ==
  ASSUME TypeInv, [Next]_vars
  PROVE  \/ inbox' = inbox
         \/ \E d \in Deliveries : SweepInbox(d)
         \/ \E d \in Deliveries : \E s \in {"pending", "delivered", "failed"} :
              <<inbox[d], s>> \in RowMoves /\ inbox' = [inbox EXCEPT ![d] = s]
<1> USE DEF rows
<1>1. ASSUME NEW d \in Deliveries, Receive(d) \/ Resend(d)
      PROVE  /\ <<inbox[d], "pending">> \in RowMoves
             /\ inbox' = [inbox EXCEPT ![d] = "pending"]
  BY <1>1 DEF Receive, Resend, RowMoves
<1>2. ASSUME NEW d \in Deliveries,
             PollInbox(d) \/ LeaseExpires(d) \/ SweepRefusal(d) \/ \E p \in Passes : Claim(p, d)
      PROVE  inbox' = inbox
  BY <1>2, Zenon DEF PollInbox, LeaseExpires, SweepRefusal, Claim
<1>3. ASSUME NEW p \in Passes, PassStep(p) \/ StepThrows(p) \/ Crash(p)
      PROVE  \/ inbox' = inbox
             \/ \E d \in Deliveries : \E s \in {"delivered", "failed"} :
                  inbox[d] = "pending" /\ inbox' = [inbox EXCEPT ![d] = s]
  <2>1. ASSUME NEW status \in {"delivered", "failed"}, Settle(p, status), pass[p].at # "idle"
        PROVE  \/ inbox' = inbox
               \/ \E d \in Deliveries : \E s \in {"delivered", "failed"} :
                    inbox[d] = "pending" /\ inbox' = [inbox EXCEPT ![d] = s]
    BY <2>1, SettlingMoves
  <2>2. CASE Open(p)
    <3>1. pass[p].at # "idle"
      BY <2>2 DEF Open
    <3>2. inbox' = inbox \/ \E s \in {"delivered", "failed"} : Settle(p, s)
      <4>1. inbox[pass[p].d] \in {"pending", "delivered", "failed", "swept"}
        BY <3>1 DEF TypeInv, FlowInv, FlowTypes, PassesNamed, Arrived, Rows
      <4> QED
        BY <2>2, <4>1 DEF Open
    <3> QED
      BY <2>1, <3>1, <3>2
  <2>3. CASE FinishDelivery(p)
    BY <2>1, <2>3 DEF FinishDelivery
  <2>4. CASE StepThrows(p)
    <3>1. pass[p].at # "idle"
      BY <2>4 DEF StepThrows, StepPoints
    <3>2. inbox' = inbox \/ Settle(p, "failed")
      BY <2>4 DEF StepThrows
    <3> QED
      BY <2>1, <3>1, <3>2
  <2>5. CASE ~(Open(p) \/ FinishDelivery(p) \/ StepThrows(p))
    BY <1>3, <2>5, Zenon DEF PassStep, ListSubscribers, ReadLifecycle, RecordRefusal,
       BeginStart, CommitStart, DeclineStart, RequestCancel, SaveOutcome, ListPage,
       SavePage, WakeWait, RereadWait, Crash
  <2> QED
    BY <2>2, <2>3, <2>4, <2>5
<1>4. ASSUME NEW r \in Runs, RunStep(r) PROVE inbox' = inbox
  BY <1>4, Zenon DEF RunStep, RunParks, RunWakes, RunEnds, Migrate, SweepRun
<1>5. CASE Publish \/ UNCHANGED vars
  BY <1>5 DEF Publish, vars
<1> QED
  <2>1. CASE \E d \in Deliveries : Receive(d) \/ Resend(d)
    BY <1>1, <2>1
  <2>2. CASE \E p \in Passes : PassStep(p) \/ StepThrows(p) \/ Crash(p)
    BY <1>3, <2>2 DEF RowMoves
  <2> QED
    BY <1>2, <1>4, <1>5, <2>1, <2>2 DEF Next

(* What has arrived has arrived, and a row that is kept was kept: only the *)
(* inbox sweep ends that.                                                  *)
LEMMA RowsGoOn ==
  ASSUME TypeInv, [Next]_vars, NEW d \in Deliveries
  PROVE  /\ Arrived(d) => Arrived(d)'
         /\ Kept(d)' => Kept(d)
         /\ Kept(d) => Kept(d)' \/ SweepInbox(d)
<1>1. inbox \in [Deliveries -> Rows]
  BY DEF TypeInv, FlowInv, FlowTypes
<1>2. CASE inbox' = inbox
  BY <1>2 DEF Arrived, Kept
<1>3. ASSUME NEW e \in Deliveries, SweepInbox(e)
      PROVE  /\ Arrived(d) => Arrived(d)'
             /\ Kept(d)' => Kept(d)
             /\ Kept(d) => Kept(d)' \/ SweepInbox(d)
  <2>1. inbox' = [inbox EXCEPT ![e] = "swept"]
    BY <1>3 DEF SweepInbox
  <2>2. CASE e = d
    BY <1>1, <1>3, <2>1, <2>2 DEF Arrived, Kept, SweepInbox
  <2>3. CASE e # d
    BY <1>1, <2>1, <2>3 DEF Arrived, Kept
  <2> QED
    BY <2>2, <2>3
<1>4. ASSUME NEW e \in Deliveries, NEW s \in {"pending", "delivered", "failed"},
             <<inbox[e], s>> \in RowMoves, inbox' = [inbox EXCEPT ![e] = s]
      PROVE  /\ Arrived(d) => Arrived(d)'
             /\ Kept(d)' <=> Kept(d)
  <2>1. inbox[e] # "swept"
    BY <1>4 DEF RowMoves
  <2> QED
    BY <1>1, <1>4, <2>1 DEF Arrived, Kept
<1> QED
  BY <1>2, <1>3, <1>4, InboxMoves
-----------------------------------------------------------------------------
(* The points at which a pass is about to decide its arrival.              *)
Deciding == {"refuse", "admit", "admitting", "cancel"}

SamePoint(x, y) ==
  x.at = y.at /\ x.d = y.d /\ x.concurrency = y.concurrency /\ x.view = y.view

LEMMA GoesOnElsewhere ==
  ASSUME TypeInv, NEW p \in Passes, NEW b \in Books
  PROVE  Continue(p, b).at \notin Deciding
BY GoesOn, NextSteps DEF Deciding, TypeInv, Types, FlowInv

(* Only the steps of the Lifecycle Rules bring a pass to a decision.       *)
LEMMA OthersDecideNothing ==
  ASSUME TypeInv, [Next]_vars, NEW q \in Passes,
         ~(ReadLifecycle(q) \/ RecordRefusal(q) \/ BeginStart(q) \/ CommitStart(q)),
         pass'[q].at \in Deciding
  PROVE  SamePoint(pass'[q], pass[q])
<1> DEFINE Goal == pass'[q].at \in Deciding => SamePoint(pass'[q], pass[q])
<1> SUFFICES Goal
  OBVIOUS
<1>0. pass \in [Passes -> PassStates]
  BY DEF TypeInv, FlowInv, FlowTypes
<1>a. CASE pass' = pass
  BY <1>a DEF SamePoint
<1>b. ASSUME NEW p \in Passes, NEW X, pass' = [pass EXCEPT ![p] = X],
             p = q => X.at \notin Deciding \/ SamePoint(X, pass[q])
      PROVE  Goal
  BY <1>0, <1>b DEF SamePoint
<1>c. Idle.at \notin Deciding
  BY NothingIsTyped DEF Deciding
<1>1. ASSUME NEW p \in Passes, NEW d \in Deliveries, Claim(p, d) PROVE Goal
  <2> DEFINE X == [Idle EXCEPT !.at = "open", !.d = d]
  <2>1. X.at = "open"
    BY DEF Idle
  <2>2. pass' = [pass EXCEPT ![p] = X]
    BY <1>1 DEF Claim
  <2> HIDE DEF X, Goal
  <2> QED
    BY <1>b, <2>1, <2>2 DEF Deciding
<1>d. ASSUME NEW p \in Passes, NEW s, Settle(p, s) PROVE Goal
  <2>1. pass' = [pass EXCEPT ![p] = Idle]
    BY <1>d DEF Settle
  <2> HIDE DEF Goal
  <2> QED
    BY <1>b, <1>c, <2>1
<1>e. ASSUME NEW p \in Passes, NEW b \in Books, WriteMemo(p, b) PROVE Goal
  <2>1. [b EXCEPT !.fails = 0] \in Books
    BY UnfailedIsTyped
  <2>2. Continue(p, [b EXCEPT !.fails = 0]).at \notin Deciding
    BY <2>1, GoesOnElsewhere
  <2>3. \/ pass' = [pass EXCEPT ![p] = Idle]
        \/ pass' = [pass EXCEPT ![p] = Continue(p, [b EXCEPT !.fails = 0])]
    BY <1>e DEF WriteMemo
  <2> HIDE DEF Goal
  <2> QED
    BY <1>b, <1>c, <2>2, <2>3
<1>f. ASSUME NEW p \in Passes, NEW o, Comes(p, o) PROVE Goal
  <2> DEFINE X == [pass[p] EXCEPT !.at = "outcome", !.life = o, !.view = NoView]
  <2>1. X.at = "outcome"
    BY <1>0 DEF PassStates
  <2>2. pass' = [pass EXCEPT ![p] = X]
    BY <1>0, <1>f DEF Comes, PassStates
  <2> HIDE DEF X, Goal
  <2> QED
    BY <1>b, <2>1, <2>2 DEF Deciding
<1>g. ASSUME NEW p \in Passes, NEW T, pass' = [pass EXCEPT ![p].todo = T] PROVE Goal
  <2> DEFINE X == [pass[p] EXCEPT !.todo = T]
  <2>1. SamePoint(X, pass[p])
    BY <1>0 DEF PassStates, SamePoint
  <2>2. pass' = [pass EXCEPT ![p] = X]
    BY <1>g
  <2> HIDE DEF X, Goal
  <2> QED
    BY <1>b, <2>1, <2>2
<1>2. ASSUME NEW p \in Passes,
             ReadLifecycle(p) \/ RecordRefusal(p) \/ BeginStart(p) \/ CommitStart(p)
      PROVE  Goal
  <2>1. p # q
    BY <1>2
  <2>2. \A s \in Passes : s # p => pass'[s] = pass[s]
    <3>1. CASE ReadLifecycle(p)
      BY <1>0, <3>1 DEF ReadLifecycle, Comes
    <3>2. CASE RecordRefusal(p)
      BY <1>0, <3>2 DEF RecordRefusal, Comes
    <3>3. CASE BeginStart(p)
      BY <1>0, <3>3 DEF BeginStart
    <3>4. CASE CommitStart(p)
      <4>1. \/ \E o : Comes(p, o)
            \/ \E at : pass' = [pass EXCEPT ![p].at = at, ![p].view = NoView]
        BY <3>4 DEF CommitStart, OpenRun
      <4> QED
        BY <1>0, <4>1 DEF Comes
    <3> QED
      BY <1>2, <3>1, <3>2, <3>3, <3>4
  <2> QED
    BY <2>1, <2>2 DEF SamePoint
<1>3. ASSUME NEW p \in Passes, Open(p) PROVE Goal
  <2>1. /\ pass[p].d \in Deliveries /\ inbox[pass[p].d] \in {"pending", "delivered", "failed", "swept"}
        /\ memo[pass[p].d] \in Books
    BY <1>3 DEF Open, TypeInv, FlowInv, FlowTypes, PassesNamed, Arrived, Rows
  <2>2. \/ pass' = [pass EXCEPT ![p] = Idle]
        \/ \E s : Settle(p, s)
        \/ pass' = [pass EXCEPT ![p] = Continue(p, memo[pass[p].d])]
    BY <1>3, <2>1, Zenon DEF Open
  <2>3. Continue(p, memo[pass[p].d]).at \notin Deciding
    BY <2>1, GoesOnElsewhere
  <2> HIDE DEF Goal
  <2> QED
    BY <1>b, <1>c, <1>d, <2>2, <2>3
<1>4. ASSUME NEW p \in Passes,
             DeclineStart(p) \/ RequestCancel(p) \/ FinishDelivery(p) \/ StepThrows(p) \/ Crash(p)
      PROVE  Goal
  <2>1. \/ pass' = [pass EXCEPT ![p] = Idle]
        \/ \E s : Settle(p, s)
        \/ \E o : Comes(p, o)
    BY <1>4, Zenon DEF DeclineStart, RequestCancel, FinishDelivery, StepThrows, Crash
  <2> HIDE DEF Goal
  <2> QED
    BY <1>b, <1>c, <1>d, <1>f, <2>1
<1>5. ASSUME NEW p \in Passes,
             ListSubscribers(p) \/ SaveOutcome(p) \/ ListPage(p) \/ SavePage(p)
      PROVE  Goal
  <2>1. pass[p].book \in Books /\ pass[p].life \in Lives /\ pass[p].d \in Deliveries
    BY <1>5 DEF TypeInv, FlowInv, FlowTypes, PassStates, PassesNamed,
       ListSubscribers, SaveOutcome, ListPage, SavePage
  <2>2. \E b \in Books : WriteMemo(p, b)
    BY <1>5, <2>1, BooksGrow DEF ListSubscribers, SaveOutcome, ListPage, SavePage, Types, TypeInv, FlowInv
  <2> HIDE DEF Goal
  <2> QED
    BY <1>e, <2>2
<1>6. ASSUME NEW p \in Passes, NEW c \in pass[p].todo, WakeWait(p, c) \/ RereadWait(p, c)
      PROVE  Goal
  <2>1. \E T : pass' = [pass EXCEPT ![p].todo = T]
    BY <1>6 DEF WakeWait, RereadWait
  <2> HIDE DEF Goal
  <2> QED
    BY <1>g, <2>1
<1>7. CASE UNCHANGED pass
  BY <1>7, <1>a
<1> QED
  <2> HIDE DEF Goal
  <2>1. ASSUME NEW p \in Passes, PassStep(p) PROVE Goal
    BY <1>2, <1>3, <1>4, <1>5, <1>6, <2>1 DEF PassStep
  <2>2. ASSUME NEW d \in Deliveries,
               \/ Receive(d) \/ PollInbox(d) \/ Resend(d) \/ LeaseExpires(d)
               \/ SweepInbox(d) \/ SweepRefusal(d)
        PROVE  UNCHANGED pass
    BY <2>2, Zenon DEF Receive, PollInbox, Resend, LeaseExpires, SweepInbox, SweepRefusal
  <2>3. ASSUME NEW r \in Runs, RunStep(r) PROVE UNCHANGED pass
    BY <2>3, Zenon DEF RunStep, RunParks, RunWakes, RunEnds, Migrate, SweepRun
  <2>4. CASE Publish \/ UNCHANGED vars
    BY <1>7, <2>4 DEF Publish, vars
  <2> QED
    BY <1>1, <1>4, <1>7, <2>1, <2>2, <2>3, <2>4 DEF Next
LEMMA RolesKept ==
  ASSUME TypeInv, PassRoles, [Next]_vars
  PROVE  PassRoles'
<1>1. /\ Publications' = Publications /\ Guarded' = Guarded
      /\ \A d, role : HasRole(d, role)' <=> HasRole(d, role)
  BY SettingStays
<1> DEFINE Rightful(x) ==
      /\ x.at = "refuse" => Guarded
      /\ x.at \in {"refuse", "admit", "admitting"} =>
           /\ HasRole(x.d, "start")
           /\ \E v \in DOMAIN Publications : x.concurrency = Publications[v].concurrency
      /\ x.at = "cancel" => HasRole(x.d, "cancel")
<1>2. \A q \in Passes : Rightful(pass[q])
  BY DEF PassRoles
<1>3. ASSUME NEW q \in Passes PROVE Rightful(pass'[q])
  <2>0. pass[q] \in PassStates /\ pass \in [Passes -> PassStates]
    BY DEF TypeInv, FlowInv, FlowTypes
  <2>a. version \in DOMAIN Publications
    BY DEF TypeInv, RunTypes
  <2>b. ASSUME NEW o, Comes(q, o) PROVE pass'[q].at = "outcome"
    BY <2>0, <2>b DEF Comes, PassStates
  <2>1. CASE ReadLifecycle(q)
    <3>1. CASE pass'[q].at \in Deciding
      <4>1. PICK at \in {"cancel", "decline", "admit", "refuse"} :
              /\ pass' = [pass EXCEPT ![q].at = at,
                           ![q].concurrency = Publications[version].concurrency]
              /\ at \in {"admit", "refuse"} => Published(pass[q].d) = "start"
              /\ at = "cancel" => Published(pass[q].d) = "cancel"
              /\ at = "refuse" => Guarded
        <5>1. pass'[q].at # "outcome"
          BY <3>1 DEF Deciding
        <5> QED
          BY <2>1, <2>b, <5>1 DEF ReadLifecycle
      <4>2. /\ pass'[q].at = at /\ pass'[q].d = pass[q].d
            /\ pass'[q].concurrency = Publications[version].concurrency
        BY <2>0, <4>1 DEF PassStates
      <4> QED
        BY <2>a, <4>1, <4>2 DEF Published, HasRole
    <3>2. CASE pass'[q].at \notin Deciding
      BY <3>2 DEF Deciding
    <3> QED
      BY <3>1, <3>2
  <2>2. CASE RecordRefusal(q)
    <3>1. CASE OpenedBy(pass[q].d) # {}
      <4>1. /\ pass'[q].at = "admit" /\ pass'[q].d = pass[q].d /\ pass[q].at = "refuse"
            /\ pass'[q].concurrency = pass[q].concurrency
        BY <2>0, <2>2, <3>1 DEF RecordRefusal, PassStates
      <4> QED
        BY <1>2, <4>1
    <3>2. CASE OpenedBy(pass[q].d) = {}
      <4>1. pass'[q].at = "outcome"
        BY <2>2, <2>b, <3>2 DEF RecordRefusal
      <4> QED
        BY <4>1
    <3> QED
      BY <3>1, <3>2
  <2>3. CASE BeginStart(q)
    <3>1. /\ pass'[q].at = "admitting" /\ pass'[q].d = pass[q].d /\ pass[q].at = "admit"
          /\ pass'[q].concurrency = pass[q].concurrency
      BY <2>0, <2>3 DEF BeginStart, PassStates
    <3> QED
      BY <1>2, <3>1
  <2>4. CASE CommitStart(q)
    <3>1. \/ pass'[q].at = "outcome"
          \/ \E at \in {"decline", "admit"} :
               pass' = [pass EXCEPT ![q].at = at, ![q].view = NoView]
      <4>1. \/ \E o : Comes(q, o)
            \/ \E at \in {"decline", "admit"} :
                 pass' = [pass EXCEPT ![q].at = at, ![q].view = NoView]
        BY <2>4 DEF CommitStart, OpenRun
      <4> QED
        BY <2>b, <4>1
    <3>2. CASE \E at \in {"decline", "admit"} :
               pass' = [pass EXCEPT ![q].at = at, ![q].view = NoView]
      <4>1. /\ pass'[q].at \in {"decline", "admit"} /\ pass'[q].d = pass[q].d
            /\ pass'[q].concurrency = pass[q].concurrency /\ pass[q].at = "admitting"
        BY <2>0, <2>4, <3>2 DEF CommitStart, PassStates
      <4> QED
        BY <1>2, <4>1
    <3> QED
      BY <3>1, <3>2
  <2>5. CASE ~(ReadLifecycle(q) \/ RecordRefusal(q) \/ BeginStart(q) \/ CommitStart(q))
    <3>1. CASE pass'[q].at \in Deciding
      <4>1. SamePoint(pass'[q], pass[q])
        BY <2>5, <3>1, OthersDecideNothing
      <4> QED
        BY <1>2, <4>1 DEF SamePoint
    <3>2. CASE pass'[q].at \notin Deciding
      BY <3>2 DEF Deciding
    <3> QED
      BY <3>1, <3>2
  <2> QED
    BY <2>1, <2>2, <2>3, <2>4, <2>5
<1> QED
  BY <1>1, <1>3 DEF PassRoles

-----------------------------------------------------------------------------
(* The decisions                                                           *)

(* No other step writes a run's row or a decision.                         *)
LEMMA FewDecide ==
  ASSUME [Next]_vars
  PROVE  \/ UNCHANGED <<run, refusal, decided, after>>
         \/ \E d \in Deliveries : SweepInbox(d) \/ SweepRefusal(d)
         \/ \E p \in Passes : RecordRefusal(p) \/ CommitStart(p) \/ RequestCancel(p)
         \/ \E r \in Runs : RunEnds(r) \/ SweepRun(r)
<1> USE DEF runs, decisions, history
<1>1. ASSUME NEW d \in Deliveries,
             Receive(d) \/ PollInbox(d) \/ Resend(d) \/ LeaseExpires(d)
                \/ \E p \in Passes : Claim(p, d)
      PROVE  UNCHANGED <<run, refusal, decided, after>>
  BY <1>1, Zenon DEF Receive, PollInbox, Resend, LeaseExpires, Claim
<1>2. ASSUME NEW p \in Passes, PassStep(p) \/ StepThrows(p) \/ Crash(p),
             ~(RecordRefusal(p) \/ CommitStart(p) \/ RequestCancel(p))
      PROVE  UNCHANGED <<run, refusal, decided, after>>
  BY <1>2, Zenon DEF PassStep, Open, ListSubscribers, ReadLifecycle,
       BeginStart, DeclineStart, SaveOutcome, ListPage,
       SavePage, FinishDelivery, WakeWait, RereadWait, StepThrows, Crash
<1>3. ASSUME NEW r \in Runs, RunStep(r), ~(RunEnds(r) \/ SweepRun(r))
      PROVE  UNCHANGED <<run, refusal, decided, after>>
  BY <1>3, Zenon DEF RunStep, RunParks, RunWakes, Migrate
<1>4. CASE Publish \/ UNCHANGED vars
  BY <1>4 DEF Publish, vars
<1> QED
  BY <1>1, <1>2, <1>3, <1>4 DEF Next

(* The ledger is about the setting, the rows that are kept, the runs'      *)
(* origins and the decisions; the runs may meanwhile end and be swept.     *)
LEMMA RunsMayEnd ==
  ASSUME TypeInv, Ledger, [Next]_vars, UNCHANGED <<refusal, decided, after>>,
         \A d \in Deliveries : Kept(d) => Kept(d)',
         \A r \in Runs :
           /\ run'[r].by = run[r].by /\ run'[r].claim = run[r].claim
           /\ run'[r].status = run[r].status
              \/ /\ run[r].status = "live" /\ run'[r].status = "over"
              \/ /\ run[r].status = "over" /\ run'[r].status = "swept"
                 /\ run[r].by # NoDelivery => ~Kept(run[r].by)
  PROVE  Ledger'
<1>0. \A d \in Deliveries : (Arrived(d) => Arrived(d)') /\ (Kept(d)' <=> Kept(d))
  BY RowsGoOn
<1>1. /\ Publications' = Publications /\ Guarded' = Guarded
      /\ \A d, role : HasRole(d, role)' <=> HasRole(d, role)
      /\ AllCompare' <=> AllCompare
  BY SettingStays
<1>2. \A r \in Runs : run[r].by \in Deliveries \cup {NoDelivery}
  BY DEF TypeInv, RunTypes, RunRows, OrNone
<1>3. \A r \in Runs : after[r] \subseteq Deliveries
  BY DEF TypeInv, RunTypes
<1> USE DEF Ledger
<1>4. RunsOfArrivals'
  BY <1>0, <1>1, <1>2 DEF RunsOfArrivals
<1>5. OneRun'
  BY <1>0, <1>2 DEF OneRun
<1>6. Refusals'
  BY <1>0, <1>1 DEF Refusals
<1>7. Cancels'
  BY <1>0, <1>1 DEF Cancels
<1>8. EarlierStand'
  BY <1>0, <1>3 DEF EarlierStand
<1>9. CancelReachesEarlierRuns'
  BY DEF CancelReachesEarlierRuns
<1>10. OneAtATime'
  BY <1>1 DEF OneAtATime, InFlight
<1> QED
  BY <1>4, <1>5, <1>6, <1>7, <1>8, <1>9, <1>10
(* A swept row takes its Cancel decision with it.                          *)
LEMMA SweepsKeepLedger ==
  ASSUME TypeInv, Ledger, [Next]_vars, NEW d \in Deliveries, SweepInbox(d) \/ SweepRefusal(d)
  PROVE  Ledger'
<1>0. \A e \in Deliveries : (Arrived(e) => Arrived(e)') /\ (Kept(e)' => Kept(e))
  BY RowsGoOn
<1>1. /\ Publications' = Publications /\ Guarded' = Guarded
      /\ \A e, role : HasRole(e, role)' <=> HasRole(e, role)
      /\ AllCompare' <=> AllCompare
  BY SettingStays
<1>2. \A r \in Runs : run[r].by \in Deliveries \cup {NoDelivery} /\ after[r] \subseteq Deliveries
  BY DEF TypeInv, RunTypes, RunRows, OrNone
<1>3. UNCHANGED <<run, after>>
  BY DEF SweepInbox, SweepRefusal, runs, history
<1>4. /\ \A e \in Deliveries : refusal'[e] => refusal[e]
      /\ \A e \in Deliveries : decided'[e] => decided[e] /\ Kept(e)'
      /\ \A e \in Deliveries : decided[e] => decided'[e] \/ ~Kept(e)'
  <2>1. CASE SweepInbox(d)
    <3>1. /\ refusal' = refusal /\ decided' = [decided EXCEPT ![d] = FALSE]
          /\ inbox' = [inbox EXCEPT ![d] = "swept"]
      BY <2>1 DEF SweepInbox
    <3> QED
      BY <3>1 DEF TypeInv, RunTypes, FlowInv, FlowTypes, Ledger, Cancels, Kept
  <2>2. CASE SweepRefusal(d)
    <3>1. /\ refusal' = [refusal EXCEPT ![d] = FALSE] /\ decided' = decided /\ inbox' = inbox
      BY <2>2 DEF SweepRefusal, rows
    <3> QED
      BY <3>1 DEF TypeInv, RunTypes, Ledger, Cancels, Kept
  <2> QED
    BY <2>1, <2>2
<1> USE DEF Ledger
<1>5. RunsOfArrivals'
  BY <1>0, <1>1, <1>2, <1>3 DEF RunsOfArrivals
<1>6. OneRun'
  BY <1>0, <1>2, <1>3 DEF OneRun
<1>7. Refusals'
  BY <1>0, <1>1, <1>3, <1>4 DEF Refusals
<1>8. Cancels'
  BY <1>0, <1>1, <1>4 DEF Cancels
<1>9. EarlierStand'
  BY <1>0, <1>2, <1>3, <1>4 DEF EarlierStand
<1>10. CancelReachesEarlierRuns' /\ OneAtATime'
  BY <1>1, <1>3 DEF CancelReachesEarlierRuns, OneAtATime, InFlight
<1> QED
  BY <1>5, <1>6, <1>7, <1>8, <1>9, <1>10

(* A refusal is recorded in a transaction that finds no run of the arrival. *)
LEMMA RefusalKeepsLedger ==
  ASSUME TypeInv, PassRoles, Ledger, [Next]_vars, NEW p \in Passes, RecordRefusal(p)
  PROVE  Ledger'
<1> DEFINE d == pass[p].d
<1>0. \A e \in Deliveries : (Arrived(e) => Arrived(e)') /\ (Kept(e)' <=> Kept(e))
  BY DEF RecordRefusal, rows, Arrived, Kept
<1>1. /\ Publications' = Publications /\ Guarded' = Guarded
      /\ \A e, role : HasRole(e, role)' <=> HasRole(e, role)
      /\ AllCompare' <=> AllCompare
  BY SettingStays
<1>2. \A r \in Runs : run[r].by \in Deliveries \cup {NoDelivery} /\ after[r] \subseteq Deliveries
  BY DEF TypeInv, RunTypes, RunRows, OrNone
<1>3. UNCHANGED <<run, after, decided>> /\ pass[p].at = "refuse"
  BY DEF RecordRefusal, runs, history
<1>4. d \in Deliveries /\ Arrived(d) /\ Guarded /\ HasRole(d, "start")
  BY <1>3 DEF PassRoles, TypeInv, FlowInv, PassesNamed
<1>5. \/ refusal' = refusal
      \/ refusal' = [refusal EXCEPT ![d] = TRUE] /\ OpenedBy(d) = {}
  BY DEF RecordRefusal
<1>6. \A e \in Deliveries : refusal'[e] => refusal[e] \/ (e = d /\ OpenedBy(d) = {})
  BY <1>5 DEF TypeInv, RunTypes
<1> USE DEF Ledger
<1>7. RunsOfArrivals'
  BY <1>0, <1>1, <1>2, <1>3 DEF RunsOfArrivals
<1>8. OneRun'
  BY <1>0, <1>2, <1>3 DEF OneRun
<1>9. Refusals'
  <2>1. OpenedBy(d) = {} /\ Kept(d) => \A r \in Runs : run[r].by # d
    BY <1>4, NoDeliveryIsNone DEF OpenedBy, RunsOfArrivals
  <2> HIDE DEF d
  <2>2. ASSUME NEW e \in Deliveries, refusal'[e]
        PROVE  /\ Guarded /\ Arrived(e) /\ HasRole(e, "start")
               /\ Kept(e) => \A r \in Runs : run[r].by # e
    BY <1>4, <1>6, <2>1, <2>2 DEF Refusals
  <2> QED
    BY <1>0, <1>1, <1>3, <2>2 DEF Refusals
<1>10. Cancels' /\ EarlierStand'
  BY <1>0, <1>1, <1>2, <1>3 DEF Cancels, EarlierStand
<1>11. CancelReachesEarlierRuns' /\ OneAtATime'
  BY <1>1, <1>3 DEF CancelReachesEarlierRuns, OneAtATime, InFlight
<1> QED
  BY <1>7, <1>8, <1>9, <1>10, <1>11

(* A Cancel is decided once, and claims only runs that opened before.      *)
LEMMA CancelKeepsLedger ==
  ASSUME TypeInv, PassRoles, Ledger, [Next]_vars, NEW p \in Passes, RequestCancel(p),
         ~UNCHANGED <<run, refusal, decided, after>>
  PROVE  Ledger'
<1> DEFINE d == pass[p].d
<1>0. \A e \in Deliveries : (Arrived(e) => Arrived(e)') /\ (Kept(e)' <=> Kept(e))
  BY DEF RequestCancel, rows, Arrived, Kept
<1>1. /\ Publications' = Publications /\ Guarded' = Guarded
      /\ \A e, role : HasRole(e, role)' <=> HasRole(e, role)
      /\ AllCompare' <=> AllCompare
  BY SettingStays
<1>2. \A r \in Runs : run[r].by \in Deliveries \cup {NoDelivery} /\ after[r] \subseteq Deliveries
  BY DEF TypeInv, RunTypes, RunRows, OrNone
<1>3. UNCHANGED <<refusal, after>> /\ pass[p].at = "cancel"
  BY DEF RequestCancel, history
<1>4. d \in Deliveries /\ Arrived(d) /\ HasRole(d, "cancel")
  BY <1>3 DEF PassRoles, TypeInv, FlowInv, PassesNamed
<1>5. /\ inbox[d] # "swept" /\ ~decided[d]
      /\ decided' = [decided EXCEPT ![d] = TRUE]
      /\ run' = [r \in Runs |-> IF r \in InFlight
                                THEN [run[r] EXCEPT !.claim = d] ELSE run[r]]
  BY DEF RequestCancel, runs, history
<1>6. Kept(d) /\ d # NoDelivery
  BY <1>4, <1>5, NoDeliveryIsNone DEF Kept
<1> HIDE DEF d
<1>7. \A r \in Runs :
        /\ run'[r].by = run[r].by /\ run'[r].status = run[r].status
        /\ run'[r].claim = IF r \in InFlight THEN d ELSE run[r].claim
  <2>1. \A r \in Runs : run[r] \in RunRows
    BY DEF TypeInv, RunTypes
  <2> QED
    BY <1>5, <2>1 DEF RunRows
<1>8. \A e \in Deliveries : decided'[e] <=> decided[e] \/ e = d
  BY <1>4, <1>5 DEF TypeInv, RunTypes
<1> USE DEF Ledger
<1>9. RunsOfArrivals'
  BY <1>0, <1>1, <1>2, <1>7 DEF RunsOfArrivals, InFlight
<1>10. OneRun' /\ Refusals'
  BY <1>0, <1>1, <1>2, <1>3, <1>7 DEF OneRun, Refusals
<1>11. Cancels'
  BY <1>0, <1>1, <1>4, <1>6, <1>8 DEF Cancels
<1>12. EarlierStand'
  BY <1>0, <1>2, <1>3, <1>8 DEF EarlierStand
<1>13. CancelReachesEarlierRuns'
  BY <1>2, <1>3, <1>5, <1>6, <1>7 DEF CancelReachesEarlierRuns, EarlierStand
<1>14. OneAtATime'
  BY <1>1, <1>6, <1>7 DEF OneAtATime, InFlight
<1> QED
  BY <1>9, <1>10, <1>11, <1>12, <1>13, <1>14

(* A start opens a run where neither a run nor a refusal of the arrival    *)
(* stands, and, where the workflow compares, once no other is in flight.   *)
LEMMA StartKeepsLedger ==
  ASSUME TypeInv, PassRoles, Ledger, [Next]_vars, NEW p \in Passes, CommitStart(p),
         ~UNCHANGED <<run, refusal, decided, after>>
  PROVE  Ledger'
<1> DEFINE d == pass[p].d
           displaced == pass[p].view.inFlight \cap InFlight
<1>0. \A e \in Deliveries : (Arrived(e) => Arrived(e)') /\ (Kept(e)' <=> Kept(e))
  BY DEF CommitStart, rows, Arrived, Kept
<1>1. /\ Publications' = Publications /\ Guarded' = Guarded
      /\ \A e, role : HasRole(e, role)' <=> HasRole(e, role)
      /\ AllCompare' <=> AllCompare
  BY SettingStays
<1>2. \A r \in Runs : run[r].by \in Deliveries \cup {NoDelivery} /\ after[r] \subseteq Deliveries
  BY DEF TypeInv, RunTypes, RunRows, OrNone
<1>3. UNCHANGED <<refusal, decided>> /\ pass[p].at = "admitting"
  BY DEF CommitStart, decisions
<1>4. d \in Deliveries /\ Arrived(d) /\ HasRole(d, "start") /\ d # NoDelivery
  BY <1>3, NoDeliveryIsNone DEF PassRoles, TypeInv, FlowInv, PassesNamed
<1>5. /\ ~pass[p].view.refused /\ OpenedBy(d) = {} /\ Serialized(p)
      /\ pass[p].concurrency # "first-wins" \/ pass[p].view.inFlight = {}
      /\ OpenRun(p, displaced)
  BY <1>3 DEF CommitStart, runs
<1>6. PICK n \in Runs \ Standing :
        /\ run[n].status = "absent"
        /\ run' = [s \in Runs |->
             IF s = n THEN [status |-> "live", by |-> d, claim |-> NoDelivery]
             ELSE IF s \in displaced THEN [run[s] EXCEPT !.status = "over"]
             ELSE run[s]]
        /\ after' = [after EXCEPT ![n] = {e \in Deliveries : decided[e]}]
  BY <1>5 DEF OpenRun
<1>7. displaced \subseteq InFlight
  OBVIOUS
<1>8. Guarded => ~refusal[d]
  <2>1. View(p).refused = (Guarded /\ refusal[d])
    BY Zenon DEF View
  <2>2. Guarded => pass[p].view = View(p)
    BY <1>5, Zenon DEF Serialized, AdmissionReads
  <2> QED
    BY <1>5, <2>1, <2>2
<1>9. AllCompare => displaced = InFlight
  <2> SUFFICES ASSUME AllCompare PROVE displaced = InFlight
    OBVIOUS
  <2>1. pass[p].concurrency \in Comparing
    BY <1>3 DEF PassRoles, AllCompare
  <2>2. pass[p].view.inFlight = InFlight
    BY <1>5, <2>1 DEF Serialized, AdmissionReads, View
  <2> QED
    BY <2>2
<1> HIDE DEF d, displaced
<1>10. /\ run'[n].by = d /\ run'[n].status = "live" /\ run'[n].claim = NoDelivery
       /\ \A r \in Runs \ {n} :
            /\ run'[r].by = run[r].by /\ run'[r].claim = run[r].claim
            /\ run'[r].status = IF r \in displaced THEN "over" ELSE run[r].status
  <2>1. \A r \in Runs : run[r] \in RunRows
    BY DEF TypeInv, RunTypes
  <2> QED
    BY <1>6, <2>1 DEF RunRows
<1>11. /\ after'[n] = {e \in Deliveries : decided[e]}
       /\ \A r \in Runs \ {n} : after'[r] = after[r]
  BY <1>6 DEF TypeInv, RunTypes
<1>12. Kept(d) => \A r \in Runs : run[r].by # d
  BY <1>4, <1>5 DEF OpenedBy, Ledger, RunsOfArrivals
<1> USE DEF Ledger
<1>13. RunsOfArrivals'
  <2> SUFFICES ASSUME NEW r \in Runs
               PROVE  /\ run'[r].status = "absent" =>
                           run'[r].by = NoDelivery /\ run'[r].claim = NoDelivery
                      /\ run'[r].by # NoDelivery =>
                           /\ inbox'[run'[r].by] # "absent" /\ HasRole(run'[r].by, "start")
                           /\ inbox'[run'[r].by] # "swept" =>
                                run'[r].status \in {"live", "over"}
    BY <1>1 DEF RunsOfArrivals, HasRole, Arrived, Kept
  <2>1. CASE r = n
    BY <1>0, <1>4, <1>10, <2>1 DEF Arrived
  <2>2. CASE r # n
    <3>1. run'[r].by = run[r].by /\ run[r].by \in Deliveries \cup {NoDelivery}
      BY <1>2, <1>10, <2>2
    <3>2. run'[r].status = run[r].status \/ run'[r].status = "over"
      BY <1>10, <2>2
    <3> QED
      BY <1>0, <1>10, <2>2, <3>1, <3>2 DEF RunsOfArrivals, Arrived, Kept
  <2> QED
    BY <2>1, <2>2
<1>14. OneRun'
  <2> SUFFICES ASSUME NEW r \in Runs, NEW q \in Runs, run'[r].by = run'[q].by,
                      run'[r].by # NoDelivery, inbox'[run'[r].by] # "swept"
               PROVE  r = q
    BY DEF OneRun, Kept
  <2>1. \A e \in Deliveries : inbox'[e] # "swept" => Kept(e)
    BY <1>0 DEF Kept
  <2>2. run'[r].by \in Deliveries
    BY <1>2, <1>4, <1>10
  <2>3. Kept(run'[r].by)
    BY <2>1, <2>2
  <2> QED
    BY <1>10, <1>12, <2>3 DEF OneRun
<1>15. Refusals'
  <2> SUFFICES ASSUME NEW e \in Deliveries, refusal[e]
               PROVE  /\ Guarded /\ Arrived(e)' /\ HasRole(e, "start")
                      /\ Kept(e)' => \A r \in Runs : run'[r].by # e
    BY <1>1, <1>3 DEF Refusals
  <2>1. e # d
    BY <1>8 DEF Refusals
  <2> QED
    BY <1>0, <1>10, <2>1 DEF Refusals
<1>16. Cancels'
  BY <1>0, <1>1, <1>3 DEF Cancels
<1>17. EarlierStand'
  BY <1>0, <1>2, <1>3, <1>11 DEF EarlierStand
<1>18. CancelReachesEarlierRuns'
  BY <1>10, <1>11 DEF CancelReachesEarlierRuns
<1>19. OneAtATime'
  <2> SUFFICES ASSUME AllCompare PROVE \A r \in InFlight' : r = n
    BY <1>1 DEF OneAtATime
  <2>1. \A r \in Runs : r # n => ~(run'[r].status = "live" /\ run'[r].claim = NoDelivery)
    BY <1>9, <1>10 DEF InFlight
  <2> QED
    BY <2>1 DEF InFlight
<1> QED
  BY <1>13, <1>14, <1>15, <1>16, <1>17, <1>18, <1>19

LEMMA LedgerKept ==
  ASSUME TypeInv, PassRoles, Ledger, [Next]_vars
  PROVE  Ledger'
<1>1. CASE \E d \in Deliveries : SweepInbox(d) \/ SweepRefusal(d)
  BY <1>1, SweepsKeepLedger
<1>2. CASE UNCHANGED <<run, refusal, decided, after>> /\ ~\E d \in Deliveries : SweepInbox(d)
  <2>1. \A d \in Deliveries : Kept(d) => Kept(d)'
    BY <1>2, RowsGoOn
  <2> QED
    BY <1>2, <2>1, RunsMayEnd
<1>3. ASSUME NEW p \in Passes, RecordRefusal(p) \/ CommitStart(p) \/ RequestCancel(p),
             ~UNCHANGED <<run, refusal, decided, after>>
      PROVE  Ledger'
  BY <1>3, RefusalKeepsLedger, StartKeepsLedger, CancelKeepsLedger
<1>4. ASSUME NEW r \in Runs, RunEnds(r) \/ SweepRun(r) PROVE Ledger'
  <2>1. UNCHANGED <<inbox, refusal, decided, after>>
    BY <1>4 DEF RunEnds, SweepRun, rows, decisions, history
  <2>2. \A d \in Deliveries : Kept(d) => Kept(d)'
    BY <2>1 DEF Kept
  <2>3. run[r] \in RunRows /\ run \in [Runs -> RunRows]
    BY DEF TypeInv, RunTypes
  <2>4. CASE RunEnds(r)
    <3>1. run' = [run EXCEPT ![r] = [run[r] EXCEPT !.status = "over"]] /\ run[r].status = "live"
      BY <2>4 DEF RunEnds
    <3>2. \A q \in Runs :
            /\ run'[q].by = run[q].by /\ run'[q].claim = run[q].claim
            /\ run'[q].status = run[q].status
               \/ (run[q].status = "live" /\ run'[q].status = "over")
      <4>1. \A q \in Runs :
              run'[q] = IF q = r THEN [run[r] EXCEPT !.status = "over"] ELSE run[q]
        BY <2>3, <3>1
      <4> QED
        BY <2>3, <3>1, <4>1 DEF RunRows
    <3> QED
      BY <2>1, <2>2, <3>2, RunsMayEnd
  <2>5. CASE SweepRun(r)
    <3>1. /\ run' = [run EXCEPT ![r] = [run[r] EXCEPT !.status = "swept"]]
          /\ run[r].status = "over" /\ (run[r].by # NoDelivery => ~Kept(run[r].by))
      BY <2>5 DEF SweepRun, Sweepable, Kept
    <3>2. \A q \in Runs :
            /\ run'[q].by = run[q].by /\ run'[q].claim = run[q].claim
            /\ run'[q].status = run[q].status
               \/ /\ run[q].status = "over" /\ run'[q].status = "swept"
                  /\ run[q].by # NoDelivery => ~Kept(run[q].by)
      BY <2>3, <3>1 DEF RunRows
    <3> QED
      BY <2>1, <2>2, <3>2, RunsMayEnd
  <2> QED
    BY <1>4, <2>4, <2>5
<1> QED
  BY <1>1, <1>2, <1>3, <1>4, FewDecide
DecisionInv == TypeInv /\ PassRoles /\ Ledger

LEMMA DecisionsBegin == Init => DecisionInv
<1> SUFFICES ASSUME Init PROVE DecisionInv
  OBVIOUS
<1>1. TypeInv
  BY Begins
<1>2. PassRoles
  BY NothingIsTyped DEF Init, PassRoles
<1>3. \A r \in Runs : run[r].by = NoDelivery /\ run[r].claim = NoDelivery /\ after[r] = {}
  BY DEF Init
<1>4. RunsOfArrivals /\ OneRun /\ EarlierStand /\ CancelReachesEarlierRuns
  BY <1>3 DEF RunsOfArrivals, OneRun, EarlierStand, CancelReachesEarlierRuns
<1>5. Refusals /\ Cancels
  BY DEF Init, Refusals, Cancels
<1>6. OneAtATime
  <2>1. AllCompare => \A r, q \in Standing : r = q
    BY <1>1, SettingsAreSound DEF AllCompare, Publications, Standing, Here, TypeInv, RunTypes
  <2>2. InFlight \subseteq Standing
    BY DEF Init, InFlight
  <2> QED
    BY <2>1, <2>2 DEF OneAtATime
<1> QED
  BY <1>1, <1>2, <1>4, <1>5, <1>6 DEF DecisionInv, Ledger

LEMMA DecisionsGoOn == DecisionInv /\ [Next]_vars => DecisionInv'
BY Continues, RolesKept, LedgerKept DEF DecisionInv

LEMMA DecisionsHold == Spec => []DecisionInv
BY DecisionsBegin, DecisionsGoOn, PTL DEF Spec

LEMMA AtMostOne ==
  ASSUME NEW S, \A x, y \in S : x = y
  PROVE  Cardinality(S) <= 1
<1>1. CASE S = {}
  BY <1>1, FS_EmptySet
<1>2. CASE S # {}
  <2>1. PICK x \in S : TRUE
    BY <1>2
  <2>2. S = {x}
    BY <2>1
  <2> QED
    BY <2>2, FS_Singleton
<1> QED
  BY <1>1, <1>2

(* One arrival opens at most one run for as long as its inbox row is kept: *)
(* retries, a pass that lost its lease, a reopened row and the run sweep   *)
(* included (openRun, findByDelivery, sweepableExecution).                 *)
THEOREM OneRunEach == Spec => []OneRunPerArrival
<1>1. DecisionInv => OneRunPerArrival
  <2> SUFFICES ASSUME DecisionInv, NEW d \in Deliveries, Kept(d)
               PROVE  Cardinality({r \in Runs : run[r].by = d}) <= 1
    BY DEF OneRunPerArrival
  <2> DEFINE S == {r \in Runs : run[r].by = d}
  <2>1. \A x, y \in S : x = y
    BY NoDeliveryIsNone DEF DecisionInv, Ledger, OneRun
  <2> HIDE DEF S
  <2>2. Cardinality(S) <= 1
    BY <2>1, AtMostOne
  <2> QED
    BY <2>2 DEF S
<1> QED
  BY <1>1, DecisionsHold, PTL

(* While every version compares the entity's runs, at most one is in       *)
(* flight without a claim, though starts race each other, a Cancel and the *)
(* runs' own ends (admitWithConcurrency's serializable transaction).       *)
THEOREM OneAdmitted == Spec => []OneInFlight
<1>1. DecisionInv => OneInFlight
  <2> SUFFICES ASSUME DecisionInv, AllCompare PROVE Cardinality(InFlight) <= 1
    BY DEF OneInFlight, AllCompare
  <2>1. \A x, y \in InFlight : x = y
    BY DEF DecisionInv, Ledger, OneAtATime
  <2> QED
    BY <2>1, AtMostOne
<1> QED
  BY <1>1, DecisionsHold, PTL

(* A Cancel decided once claims no run that opened afterwards, however     *)
(* often its delivery is retried (workflow_cancel_decisions).              *)
THEOREM CancelStaysEarlier == Spec => []CancelReachesEarlierRuns
<1>1. DecisionInv => CancelReachesEarlierRuns
  BY DEF DecisionInv, Ledger
<1> QED
  BY <1>1, DecisionsHold, PTL

-----------------------------------------------------------------------------
(* The refinement of Arrival                                               *)

LEMMA RolesApart ==
  ASSUME RolesStay, TypeInv, NEW d \in Deliveries
  PROVE  ~(HasRole(d, "cancel") /\ HasRole(d, "start"))
BY DEF RolesStay, HasRole, Publications, Here, TypeInv, RunTypes

LEMMA PromiseStutters ==
  ASSUME \A d \in Deliveries : Row(d)' = Row(d) /\ DecisionsOf(d)' = DecisionsOf(d)
  PROVE  UNCHANGED Promise!vars
BY DEF Promise!vars

LEMMA RowsAlone ==
  ASSUME NEW d \in Deliveries, NEW to,
         \A e \in Deliveries : Row(e)' = IF e = d THEN to ELSE Row(e)
  PROVE  Promise!Move(d, Row(d), to)
BY DEF Promise!Move

LEMMA PromiseDecides ==
  ASSUME NEW d \in Deliveries, NEW k \in {"started", "refused", "canceled"},
         Row(d) \in {"pending", "settled"}, DecisionsOf(d) = {},
         \A e \in Deliveries : Row(e)' = Row(e),
         \A e \in Deliveries : DecisionsOf(e)' = IF e = d THEN {k} ELSE DecisionsOf(e)
  PROVE  Promise!Next
<1>1. Promise!Decide(d)
  BY DEF Promise!Decide, Promise!Outcomes
<1> QED
  BY <1>1 DEF Promise!Next

(* The row of an arrival moves as the promise has it.                      *)
LEMMA RowMovesMap ==
  ASSUME TypeInv, NEW d \in Deliveries, NEW s \in {"pending", "delivered", "failed"},
         <<inbox[d], s>> \in RowMoves, inbox' = [inbox EXCEPT ![d] = s],
         UNCHANGED <<run, refusal, decided>>
  PROVE  Promise!Next
<1> DEFINE to == IF s = "pending" THEN "pending" ELSE "settled"
<1>1. inbox \in [Deliveries -> Rows]
  BY DEF TypeInv, FlowInv, FlowTypes
<1>2. \A e \in Deliveries : inbox'[e] = IF e = d THEN s ELSE inbox[e]
  BY <1>1
<1>3. \A e \in Deliveries : Row(e)' = IF e = d THEN to ELSE Row(e)
  BY <1>2 DEF Row
<1>4. \A e \in Deliveries : DecisionsOf(e)' = DecisionsOf(e)
  BY <1>2 DEF DecisionsOf, Kept, RowMoves
<1>5. [e \in Deliveries |-> DecisionsOf(e)]' = [e \in Deliveries |-> DecisionsOf(e)]
  BY <1>4
<1>6. Promise!Move(d, Row(d), to)
  BY <1>3, RowsAlone
<1>7. \/ Row(d) = "new" /\ to = "pending"
      \/ Row(d) = "pending" /\ to = "settled"
      \/ Row(d) = "settled" /\ to = "pending"
  BY DEF Row, RowMoves
<1>8. Promise!Arrive(d) \/ Promise!Settle(d) \/ Promise!Reopen(d)
  BY <1>5, <1>6, <1>7 DEF Promise!Arrive, Promise!Settle, Promise!Reopen
<1> QED
  BY <1>8 DEF Promise!Next

LEMMA SweepMaps ==
  ASSUME TypeInv, NEW d \in Deliveries, SweepInbox(d)
  PROVE  Promise!Next
<1>1. /\ inbox \in [Deliveries -> Rows] /\ inbox' = [inbox EXCEPT ![d] = "swept"]
      /\ decided \in [Deliveries -> BOOLEAN] /\ decided' = [decided EXCEPT ![d] = FALSE]
      /\ UNCHANGED <<run, refusal>> /\ inbox[d] \in {"delivered", "failed"}
  BY DEF TypeInv, FlowInv, FlowTypes, RunTypes, SweepInbox, runs
<1>2. \A e \in Deliveries : Row(e)' = IF e = d THEN "gone" ELSE Row(e)
  BY <1>1 DEF Row
<1>3. \A e \in Deliveries : DecisionsOf(e)' = IF e = d THEN {} ELSE DecisionsOf(e)
  BY <1>1 DEF DecisionsOf, Kept
<1>4. Row(d) = "settled"
  BY <1>1 DEF Row
<1>5. Promise!Forget(d)
  BY <1>2, <1>3, <1>4, RowsAlone DEF Promise!Forget
<1> QED
  BY <1>5 DEF Promise!Next

LEMMA PromiseStep ==
  ASSUME RolesStay, DecisionInv, [Next]_vars
  PROVE  [Promise!Next]_(Promise!vars)
<1> USE DEF DecisionInv
<1>0. /\ run \in [Runs -> RunRows] /\ refusal \in [Deliveries -> BOOLEAN]
      /\ decided \in [Deliveries -> BOOLEAN] /\ inbox \in [Deliveries -> Rows]
  BY DEF TypeInv, FlowInv, FlowTypes, RunTypes
<1>1. CASE \E d \in Deliveries : SweepInbox(d)
  BY <1>1, SweepMaps
<1>2. CASE UNCHANGED <<run, refusal, decided>> /\ ~\E d \in Deliveries : SweepInbox(d)
  <2>1. CASE inbox' = inbox
    <3>1. \A d \in Deliveries : Row(d)' = Row(d) /\ DecisionsOf(d)' = DecisionsOf(d)
      BY <1>2, <2>1 DEF Row, DecisionsOf, Kept
    <3> QED
      BY <3>1, PromiseStutters
  <2>2. CASE inbox' # inbox
    BY <1>2, <2>2, InboxMoves, RowMovesMap
  <2> QED
    BY <2>1, <2>2
<1>3. ASSUME NEW d \in Deliveries, SweepRefusal(d) PROVE UNCHANGED Promise!vars
  <2>1. /\ UNCHANGED <<inbox, run, decided>> /\ ~Kept(d)
        /\ refusal' = [refusal EXCEPT ![d] = FALSE]
    BY <1>3 DEF SweepRefusal, rows, runs, Kept
  <2>2. \A e \in Deliveries : Row(e)' = Row(e) /\ DecisionsOf(e)' = DecisionsOf(e)
    BY <1>0, <2>1 DEF Row, DecisionsOf, Kept
  <2> QED
    BY <2>2, PromiseStutters
<1>4. ASSUME NEW r \in Runs, RunEnds(r) \/ SweepRun(r) PROVE UNCHANGED Promise!vars
  <2>1. /\ UNCHANGED <<inbox, refusal, decided>>
        /\ \E s \in {"over", "swept"} : run' = [run EXCEPT ![r] = [run[r] EXCEPT !.status = s]]
    BY <1>4 DEF RunEnds, SweepRun, rows, decisions
  <2>2. \A q \in Runs : run'[q].by = run[q].by
    BY <1>0, <2>1 DEF RunRows
  <2>3. \A e \in Deliveries : Row(e)' = Row(e) /\ DecisionsOf(e)' = DecisionsOf(e)
    BY <2>1, <2>2 DEF Row, DecisionsOf, Kept
  <2> QED
    BY <2>3, PromiseStutters
<1>5. ASSUME NEW p \in Passes, RecordRefusal(p) \/ CommitStart(p) \/ RequestCancel(p),
             ~UNCHANGED <<run, refusal, decided>>
      PROVE  [Promise!Next]_(Promise!vars)
  <2>1. PICK d \in Deliveries :
           /\ pass[p].at \in {"refuse", "admitting", "cancel"} /\ inbox' = inbox
           /\ d = pass[p].d /\ Arrived(d) /\ d # NoDelivery
    <3>1. pass[p].at \in {"refuse", "admitting", "cancel"} /\ inbox' = inbox
      BY <1>5 DEF RecordRefusal, CommitStart, RequestCancel, rows
    <3> QED
      BY <3>1, NoDeliveryIsNone DEF TypeInv, FlowInv, PassesNamed
  <2>2. \A e \in Deliveries : Row(e)' = Row(e) /\ (Kept(e)' <=> Kept(e))
    BY <2>1 DEF Row, Kept
  <2>3. Kept(d) => Row(d) \in {"pending", "settled"}
    BY <1>0, <2>1 DEF Row, Kept, Arrived, Rows
  <2>a. pass[p].at \in {"refuse", "admitting"} => HasRole(d, "start") /\ ~decided[d]
    BY <2>1, RolesApart DEF PassRoles, Ledger, Cancels
  <2>b. OpenedBy(d) = {} /\ Kept(d) => \A r \in Runs : run[r].by # d
    BY <2>1 DEF OpenedBy, Ledger, RunsOfArrivals
  <2>4. \E k \in {"started", "refused", "canceled"} :
           /\ Kept(d) => DecisionsOf(d) = {} /\ DecisionsOf(d)' = {k}
           /\ \A e \in Deliveries : e # d => DecisionsOf(e)' = DecisionsOf(e)
    <3>1. CASE RecordRefusal(p)
      <4>1. /\ refusal' = [refusal EXCEPT ![d] = TRUE] /\ OpenedBy(d) = {}
            /\ UNCHANGED <<run, decided>> /\ ~refusal[d] /\ pass[p].at = "refuse"
        <5>1. UNCHANGED <<run, decided>> /\ refusal' # refusal /\ pass[p].at = "refuse"
          BY <1>5, <3>1 DEF RecordRefusal, runs
        <5>2. refusal' = [refusal EXCEPT ![d] = TRUE] /\ OpenedBy(d) = {}
          BY <2>1, <3>1, <5>1 DEF RecordRefusal
        <5>3. refusal[d] = TRUE => [refusal EXCEPT ![d] = TRUE] = refusal
          BY <1>0
        <5> QED
          BY <1>0, <5>1, <5>2, <5>3
      <4>2. Kept(d) => DecisionsOf(d) = {} /\ DecisionsOf(d)' = {"refused"}
        BY <1>0, <2>1, <2>2, <2>a, <2>b, <4>1 DEF DecisionsOf
      <4>3. \A e \in Deliveries : e # d => DecisionsOf(e)' = DecisionsOf(e)
        BY <1>0, <2>2, <4>1 DEF DecisionsOf
      <4> QED
        BY <4>2, <4>3
    <3>2. CASE CommitStart(p)
      <4>1. /\ UNCHANGED <<refusal, decided>> /\ pass[p].at = "admitting"
            /\ ~pass[p].view.refused /\ OpenedBy(d) = {} /\ Serialized(p)
            /\ \E displaced : OpenRun(p, displaced)
        BY <1>5, <2>1, <3>2 DEF CommitStart, decisions, runs
      <4>a. PICK displaced : OpenRun(p, displaced)
        BY <4>1
      <4>2. PICK n \in Runs :
              /\ run[n].status = "absent"
              /\ run' = [s \in Runs |->
                 IF s = n THEN [status |-> "live", by |-> d, claim |-> NoDelivery]
                 ELSE IF s \in displaced THEN [run[s] EXCEPT !.status = "over"]
                 ELSE run[s]]
        BY <2>1, <4>a DEF OpenRun
      <4>3. \A r \in Runs : run'[r].by = IF r = n THEN d ELSE run[r].by
        BY <1>0, <4>2 DEF RunRows
      <4>4. run[n].by = NoDelivery
        BY <4>2 DEF Ledger, RunsOfArrivals
      <4>5. Kept(d) => ~refusal[d]
        <5>1. View(p).refused = (Guarded /\ refusal[d])
          BY <2>1, Zenon DEF View
        <5>2. Guarded => pass[p].view = View(p)
          BY <4>1, Zenon DEF Serialized, AdmissionReads
        <5> QED
          BY <2>1, <4>1, <5>1, <5>2 DEF Ledger, Refusals
      <4>6. Kept(d) => DecisionsOf(d) = {} /\ DecisionsOf(d)' = {"started"}
        BY <2>1, <2>2, <2>a, <2>b, <4>1, <4>3, <4>5 DEF DecisionsOf
      <4>7. \A e \in Deliveries : e # d => DecisionsOf(e)' = DecisionsOf(e)
        <5>1. ASSUME NEW e \in Deliveries, e # d
              PROVE  (\E r \in Runs : run'[r].by = e) <=> (\E r \in Runs : run[r].by = e)
          BY <4>3, <4>4, <5>1, NoDeliveryIsNone
        <5> QED
          BY <2>2, <4>1, <5>1 DEF DecisionsOf
      <4> QED
        BY <4>6, <4>7
    <3>3. CASE RequestCancel(p)
      <4>1. /\ decided' = [decided EXCEPT ![d] = TRUE] /\ ~decided[d]
            /\ run' = [r \in Runs |-> IF r \in InFlight
                                      THEN [run[r] EXCEPT !.claim = d] ELSE run[r]]
            /\ refusal' = refusal /\ pass[p].at = "cancel"
        BY <1>5, <2>1, <3>3 DEF RequestCancel, runs
      <4>2. \A r \in Runs : run'[r].by = run[r].by
        BY <1>0, <4>1 DEF RunRows
      <4>3. HasRole(d, "cancel") /\ ~HasRole(d, "start")
        BY <2>1, <4>1, RolesApart DEF PassRoles
      <4>4. ~refusal[d] /\ \A r \in Runs : run[r].by # d
        BY <2>1, <4>3 DEF Ledger, Refusals, RunsOfArrivals
      <4>5. Kept(d) => DecisionsOf(d) = {} /\ DecisionsOf(d)' = {"canceled"}
        BY <1>0, <2>1, <2>2, <4>1, <4>2, <4>4 DEF DecisionsOf
      <4>6. \A e \in Deliveries : e # d => DecisionsOf(e)' = DecisionsOf(e)
        BY <1>0, <2>2, <4>1, <4>2 DEF DecisionsOf
      <4> QED
        BY <4>5, <4>6
    <3> QED
      BY <1>5, <3>1, <3>2, <3>3
  <2>5. CASE Kept(d)
    <3>1. PICK k \in {"started", "refused", "canceled"} :
           /\ DecisionsOf(d) = {} /\ DecisionsOf(d)' = {k}
           /\ \A e \in Deliveries : e # d => DecisionsOf(e)' = DecisionsOf(e)
      BY <2>4, <2>5
    <3>2. \A e \in Deliveries : DecisionsOf(e)' = IF e = d THEN {k} ELSE DecisionsOf(e)
      BY <3>1, Zenon
    <3> QED
      BY <2>1, <2>2, <2>3, <2>5, <3>1, <3>2, PromiseDecides
  <2>6. CASE ~Kept(d)
    <3>1. DecisionsOf(d) = {} /\ DecisionsOf(d)' = {}
      BY <2>1, <2>2, <2>6 DEF DecisionsOf
    <3>2. \A e \in Deliveries : Row(e)' = Row(e) /\ DecisionsOf(e)' = DecisionsOf(e)
      BY <2>2, <2>4, <3>1
    <3> QED
      BY <3>2, PromiseStutters
  <2> QED
    BY <2>5, <2>6
<1> QED
  BY <1>1, <1>2, <1>3, <1>4, <1>5, FewDecide

(* Where no Publish makes an Event that cancelled here start here, or the  *)
(* other way round, an arrival is decided at most once and its decision is *)
(* kept while its row is: the detailed delivery implements Arrival.        *)
THEOREM PromiseKept ==
  ASSUME RolesStay
  PROVE  Spec => KeepsPromise
<1>1. Init => Promise!Init
  <2> SUFFICES ASSUME Init PROVE Promise!Init
    OBVIOUS
  <2>1. ASSUME NEW d \in Deliveries PROVE Row(d) = "new" /\ DecisionsOf(d) = {}
    <3>1. inbox[d] = "absent" /\ ~refusal[d] /\ ~decided[d]
      BY DEF Init
    <3>2. \A r \in Runs : run[r].by # d
      BY NoDeliveryIsNone DEF Init
    <3> QED
      BY <3>1, <3>2 DEF Row, DecisionsOf
  <2> QED
    BY <2>1 DEF Promise!Init
<1>2. DecisionInv /\ [Next]_vars => [Promise!Next]_(Promise!vars)
  BY PromiseStep
<1> QED
  BY <1>1, <1>2, DecisionsHold, PTL DEF Spec, KeepsPromise, Promise!Spec
=============================================================================
