------------------------------ MODULE OAuthGrant ------------------------------
(***************************************************************************)
(* The OAuth grant of one stored connection.                               *)
(*                                                                         *)
(* Runs that need its credentials refresh a grant about to expire, an      *)
(* operator reconnects, disconnects or edits it, each in its own process.  *)
(* Before any of them but the edit talks to the provider it claims the     *)
(* connection's row; its later writes are fenced on that claim and on the  *)
(* revision of the configuration it read.  A claim that is never released  *)
(* grows stale, and whoever waits for it then fences the row until the     *)
(* operator reconnects (ADR 0014).                                         *)
(*                                                                         *)
(* The provider is external: it may consume a refresh token whatever the   *)
(* caller hears.  The reconnects of other connections, the creation of one *)
(* and its deletion are left out.                                          *)
(***************************************************************************)
EXTENDS Naturals, FiniteSets

CONSTANTS
  Resolvers,     \* callers that resolve the connection's credentials
  Reconnects,    \* authorization attempts, each with its callback
  Disconnects,   \* requests that revoke the grant
  Editors,       \* requests that change the manual configuration
  Renewable,     \* the grants that carry a refresh token
  MaxGrants,     \* bound: grants issued, the first one stored
  MaxChanges,    \* bound: edits and disconnects asked for
  MaxFaults,     \* bound: crashes and database calls that fail
  None

Actors == Resolvers \cup Reconnects \cup Disconnects \cup Editors
Grants == 1 .. MaxGrants
NoGrant == 0

ASSUME NoneIsNoActor == None \notin Actors
ASSUME BoundsAreNumbers == MaxGrants \in Nat \ {0} /\ MaxChanges \in Nat /\ MaxFaults \in Nat

VARIABLES
  row,      \* the connection: its grant and manual configuration, the
            \*   revision of both, its refresh state, claim and claim's age
  attempt,  \* the authorization attempt of each reconnect
  actor,    \* what each actor is doing, and what it read
  issued,   \* how many grants the provider has issued
  sent,     \* history: the grants whose refresh token was sent
  count     \* how often each bounded event has happened

provider == <<issued, sent>>
vars == <<row, attempt, actor, provider, count>>

-----------------------------------------------------------------------------
Idle == [at |-> "idle", grant |-> NoGrant, manual |-> 0, rev |-> 0,
         claim |-> None, got |-> NoGrant]

(* What `x` knows once it has read the row.                                *)
Reading(x, at) ==
  [at |-> at, grant |-> row.grant, manual |-> row.manual, rev |-> row.rev,
   claim |-> x, got |-> NoGrant]

Goes(x, at) == actor' = [actor EXCEPT ![x].at = at]
(* Only the fence is left to use.                                          *)
GivesUp(x, at) ==
  actor' = [actor EXCEPT ![x] = [Idle EXCEPT !.at = at, !.rev = actor[x].rev, !.claim = x]]
(* Succeeded, failed or swept: no callback is let in.                      *)
Over == [st |-> "over", rev |-> 0]
(* A reconnect that ends for any reason but success fails its attempt,     *)
(* `failOAuthAuthorizationAttempt`.                                        *)
Ends(x) ==
  /\ actor' = [actor EXCEPT ![x] = Idle]
  /\ attempt' = IF x \in Reconnects /\ attempt[x].st = "processing"
                THEN [attempt EXCEPT ![x] = Over] ELSE attempt

(* `ownedRefreshClaim`.                                                    *)
Owned(x) ==
  row.st = "refreshing" /\ row.claim = actor[x].claim /\ row.rev = actor[x].rev

(* Mutant: the state is written and the claim left in its columns.         *)
Unclaimed_KeepsClaim(st) == [row EXCEPT !.st = st]
(* What every write that ends a claim sets.                                *)
Unclaimed(st) == [row EXCEPT !.st = st, !.claim = None, !.stale = FALSE]

Change ==
  /\ count.changes < MaxChanges
  /\ count' = [count EXCEPT !.changes = @ + 1]
NoFault == UNCHANGED count
Fault ==
  /\ count.faults < MaxFaults
  /\ count' = [count EXCEPT !.faults = @ + 1]

-----------------------------------------------------------------------------
(* Who begins                                                              *)

(* `resolveIntegrationCredentials`: a caller goes on past its first read   *)
(* only when a refresh is under way, or required: its grant may be about   *)
(* to expire at any time.                                                  *)
Resolve(r) ==
  /\ actor[r].at = "idle" /\ row.grant # NoGrant
  /\ \/ /\ row.st = "refreshing"
        /\ Goes(r, "await")
     \/ /\ row.st = "idle"
        /\ actor' = [actor EXCEPT ![r] = Reading(r, "claim")]
  /\ UNCHANGED <<row, attempt, provider, count>>

(* An attempt that expires still processing may have exchanged its code,   *)
(* so a row it claims is fenced.                                           *)
Fenced(swept) ==
  IF /\ row.st = "refreshing" /\ row.claim \in swept
     /\ attempt[row.claim].st = "processing"
  THEN Unclaimed("reauthorize") ELSE row

(* `createOAuthAuthorizationAttempt`, for this connection's reconnect `a`  *)
(* or, with no `a`, for another connection: every attempt that has expired *)
(* is swept first.                                                         *)
Start(started) ==
  \E swept \in SUBSET {b \in Reconnects : attempt[b].st \in {"pending", "processing"}} :
    /\ attempt' = [b \in Reconnects |->
         IF b \in started THEN [st |-> "pending", rev |-> row.rev]
         ELSE IF b \in swept THEN Over ELSE attempt[b]]
    /\ row' = Fenced(swept)
    /\ UNCHANGED <<actor, provider, count>>

StartReconnect(a) == attempt[a].st = "none" /\ row.exists /\ Start({a})
StartElsewhere == Start({})

(* `completeIntegrationOAuth` up to its claim: the attempt is taken once,  *)
(* and a callback with no code, or of a connection deleted, fails it.      *)
Callback(a) ==
  /\ attempt[a].st = "pending"
  /\ \/ /\ row.exists
        /\ attempt' = [attempt EXCEPT ![a].st = "processing"]
        /\ actor' = [actor EXCEPT ![a] =
             [Reading(a, "claim") EXCEPT !.rev = attempt[a].rev]]
     \/ /\ attempt' = [attempt EXCEPT ![a] = Over]
        /\ UNCHANGED actor
  /\ UNCHANGED <<row, provider, count>>

(* `deleteIntegrationOAuth` up to its claim.                               *)
Disconnect(d) ==
  /\ actor[d].at = "idle" /\ row.grant # NoGrant /\ row.st # "reauthorize"
  /\ actor' = [actor EXCEPT ![d] = Reading(d, "claim")]
  /\ Change
  /\ UNCHANGED <<row, attempt, provider>>

(* `putIntegration` up to its write.                                       *)
Edit(e) ==
  /\ actor[e].at = "idle" /\ row.exists
  /\ actor' = [actor EXCEPT ![e] = Reading(e, "write")]
  /\ Change
  /\ UNCHANGED <<row, attempt, provider>>

(* Mutant: the last edit of the configuration wins.                        *)
Unchanged_Anything(e) == row.exists
(* What an edit compares: the revision it read, and no claim in the way.   *)
Unchanged(e) == row.exists /\ row.rev = actor[e].rev /\ row.st # "refreshing"

(* `update`: the configuration the edit read, grant and all, with the      *)
(* operator's changes.                                                     *)
WriteEdit(e) ==
  /\ actor[e].at = "write"
  /\ row' = IF Unchanged(e)
            THEN [row EXCEPT !.grant = actor[e].grant, !.manual = actor[e].manual + 1,
                             !.rev = @ + 1]
            ELSE row
  /\ actor' = [actor EXCEPT ![e] = Idle]
  /\ UNCHANGED <<attempt, provider, count>>

-----------------------------------------------------------------------------
(* The claim and what it fences                                            *)

(* What `claimRefresh` asks of the row: any state but a claim's.           *)
Claimable(x) == row.exists /\ row.st # "refreshing" /\ row.rev = actor[x].rev

Renews(x) == x \in Resolvers => actor[x].grant \in Renewable

(* A resolver that does not get the claim waits for its owner.  A grant    *)
(* with no refresh token is claimed only to be fenced; the others'         *)
(* adapter builds its client next, or lets the claim go.                   *)
Claim(x) ==
  /\ actor[x].at = "claim"
  /\ \/ /\ Claimable(x)
        /\ row' = [row EXCEPT !.st = "refreshing", !.claim = x, !.stale = FALSE]
        /\ \/ Renews(x) /\ (Goes(x, "call") \/ GivesUp(x, "release"))
           \/ ~Renews(x) /\ GivesUp(x, "mark")
        /\ UNCHANGED attempt
     \/ /\ ~Claimable(x) /\ UNCHANGED row
        /\ \/ /\ x \in Resolvers /\ row.exists /\ UNCHANGED attempt
              /\ actor' = [actor EXCEPT ![x] = [Idle EXCEPT !.at = "await"]]
           \/ ~(x \in Resolvers /\ row.exists) /\ Ends(x)
  /\ UNCHANGED <<provider, count>>

(* The last write of a caller, which ends the same if the write fails.     *)
LetGo(x, st) ==
  /\ \/ row' = (IF Owned(x) THEN Unclaimed(st) ELSE row) /\ NoFault
     \/ UNCHANGED row /\ Fault
  /\ Ends(x)
  /\ UNCHANGED provider

(* `releaseRefreshClaim`.                                                  *)
Release(x) == actor[x].at = "release" /\ LetGo(x, "idle")

Issues(x) ==
  /\ issued < MaxGrants
  /\ issued' = issued + 1
  /\ actor' = [actor EXCEPT ![x].at = "complete", ![x].got = issued + 1]

(* The provider's own answers.  A refresh sends the token whatever comes   *)
(* of it; a revocation that fails leaves the grant stored.                 *)
CallProvider(x) ==
  /\ actor[x].at = "call"
  /\ sent' = IF x \in Resolvers THEN sent \cup {actor[x].grant} ELSE sent
  /\ \/ x \notin Disconnects /\ Issues(x)
     \/ x \in Disconnects /\ Goes(x, "complete") /\ UNCHANGED issued
     \/ GivesUp(x, IF x \in Disconnects THEN "release" ELSE "mark") /\ UNCHANGED issued
  /\ UNCHANGED <<row, attempt, count>>

(* `completeRefresh`, `completeOAuthReconnectAttempt`, and a disconnect    *)
(* that leaves nothing: `deleteOwnedRefreshClaim`.                         *)
MayStore(x) == Owned(x) /\ (x \in Reconnects => attempt[x].st = "processing")
Stores(x) ==
  /\ MayStore(x)
  /\ row' = IF x \in Disconnects /\ actor[x].manual = 0
            THEN [Unclaimed("idle") EXCEPT !.exists = FALSE, !.grant = NoGrant]
            ELSE [Unclaimed("idle") EXCEPT !.grant = actor[x].got,
                                           !.manual = actor[x].manual, !.rev = @ + 1]
  /\ attempt' = IF x \in Reconnects
                THEN [attempt EXCEPT ![x] = Over] ELSE attempt

(* A write that is refused, fails, or commits with its answer lost ends    *)
(* with the row fenced, if it is still the claim's.                        *)
Complete(x) ==
  /\ actor[x].at = "complete"
  /\ \/ Stores(x) /\ actor' = [actor EXCEPT ![x] = Idle] /\ NoFault
     \/ ~MayStore(x) /\ GivesUp(x, "mark") /\ UNCHANGED <<row, attempt>> /\ NoFault
     \/ Stores(x) /\ GivesUp(x, "mark") /\ Fault
     \/ GivesUp(x, "mark") /\ UNCHANGED <<row, attempt>> /\ Fault
  /\ UNCHANGED provider

(* `markReauthorizationRequired`.                                          *)
Mark(x) == actor[x].at = "mark" /\ LetGo(x, "reauthorize")

-----------------------------------------------------------------------------
(* Waiting for another's refresh                                           *)

(* Mutant: a waiting caller gives up on a stale claim as on any other.     *)
Await_LeavesStale(r) ==
  /\ actor[r].at = "await"
  /\ actor' = [actor EXCEPT ![r] = Idle]
  /\ UNCHANGED <<row, attempt, provider, count>>
(* `awaitRefreshOwner`: one poll of the row.  The caller is answered once  *)
(* the claim is gone, gives up after a while, and fences the row of a      *)
(* claim it finds stale.                                                   *)
Await(r) ==
  /\ actor[r].at = "await"
  /\ IF row.st = "refreshing" /\ row.stale
     THEN actor' = [actor EXCEPT ![r] =
            [Idle EXCEPT !.at = "fence", !.rev = row.rev, !.claim = row.claim]]
     ELSE actor' = [actor EXCEPT ![r] = Idle]
  /\ UNCHANGED <<row, attempt, provider, count>>

(* The fence holds only for the claim that was read; if that is gone the   *)
(* caller polls on.                                                        *)
FenceStale(r) ==
  /\ actor[r].at = "fence"
  /\ IF Owned(r)
     THEN row' = Unclaimed("reauthorize") /\ actor' = [actor EXCEPT ![r] = Idle]
     ELSE /\ actor' = [actor EXCEPT ![r] = [Idle EXCEPT !.at = "await"]]
          /\ UNCHANGED row
  /\ UNCHANGED <<attempt, provider, count>>

-----------------------------------------------------------------------------
(* Time and faults                                                         *)

ClaimAges ==
  /\ row.st = "refreshing" /\ ~row.stale
  /\ row' = [row EXCEPT !.stale = TRUE]
  /\ UNCHANGED <<attempt, actor, provider, count>>

(* A process lost with a claim; one that holds none leaves nothing behind. *)
Crash(x) ==
  /\ actor[x].at \in {"call", "complete", "release", "mark"} /\ Fault
  /\ actor' = [actor EXCEPT ![x] = Idle]
  /\ UNCHANGED <<row, attempt, provider>>

Init ==
  /\ \E m \in 0 .. 1 :
       row = [exists |-> TRUE, grant |-> 1, manual |-> m, rev |-> 0,
              st |-> "idle", claim |-> None, stale |-> FALSE]
  /\ attempt = [a \in Reconnects |-> [st |-> "none", rev |-> 0]]
  /\ actor = [x \in Actors |-> Idle]
  /\ issued = 1 /\ sent = {}
  /\ count = [changes |-> 0, faults |-> 0]

Step(x) ==
  \/ Claim(x) \/ Release(x) \/ CallProvider(x) \/ Complete(x) \/ Mark(x)
  \/ x \in Resolvers /\ (Resolve(x) \/ Await(x) \/ FenceStale(x))
  \/ x \in Editors /\ WriteEdit(x)

Next ==
  \/ \E x \in Actors : Step(x) \/ Crash(x)
  \/ \E a \in Reconnects : StartReconnect(a) \/ Callback(a)
  \/ \E d \in Disconnects : Disconnect(d)
  \/ \E e \in Editors : Edit(e)
  \/ StartElsewhere \/ ClaimAges

Spec == Init /\ [][Next]_vars

(* Some run keeps asking for the credentials, and time passes; no owner    *)
(* has to go on.                                                           *)
FairSpec == Spec /\ WF_vars(\E r \in Resolvers : Step(r)) /\ WF_vars(ClaimAges)

-----------------------------------------------------------------------------
(* Properties                                                              *)

Points == {"idle", "claim", "call", "complete", "release", "mark", "await",
           "fence", "write"}

Callers == [at : Points, grant : 0 .. issued, manual : Nat, rev : Nat,
            claim : Actors \cup {None}, got : 0 .. issued]
Attempts == [st : {"none", "pending", "processing", "over"}, rev : Nat]
RowOK ==
  /\ row \in [exists : BOOLEAN, grant : 0 .. issued, manual : Nat, rev : Nat,
              st : {"idle", "refreshing", "reauthorize"},
              claim : Actors \cup {None}, stale : BOOLEAN]
  /\ row.st = "refreshing" <=> row.claim # None
  /\ row.stale => row.st = "refreshing"
  /\ ~row.exists => row.grant = NoGrant /\ row.st = "idle"

(* Every field has its range; a row is claimed when, and only when, it is  *)
(* being refreshed, and a connection that is gone has no grant.            *)
TypeOK ==
  /\ RowOK
  /\ attempt \in [Reconnects -> Attempts]
  /\ actor \in [Actors -> Callers]
  /\ issued \in Grants /\ sent \subseteq 0 .. issued
  /\ count \in [changes : 0 .. MaxChanges, faults : 0 .. MaxFaults]

(* A configuration is replaced only by one built on it, however refreshes, *)
(* reconnects, disconnects and edits race, an owner that lost its claim    *)
(* included: a grant gives way to one refreshed from it, to its own        *)
(* disconnect, or to the grant of a reconnect, and nothing else undoes     *)
(* what the operator typed (ADR 0014).                                     *)
ConfigurationMovesOn ==
  [][row'.exists =>
       /\ row'.manual >= row.manual
       /\ row'.grant # row.grant =>
            \E x \in Actors :
              /\ actor[x].at = "complete" /\ row'.grant = actor[x].got
              /\ x \notin Reconnects => actor[x].grant = row.grant]_vars

(* A claim does not outlive its owner: whether the refresh completes,      *)
(* fails or its process is lost, a grant being refreshed is let go.        *)
Refreshing == row.st = "refreshing" /\ row.grant # NoGrant
ClaimsAreLetGo == Refreshing ~> ~Refreshing

(* A refresh token is sent to its provider at most once: no caller is      *)
(* about to send one that was sent before (ADR 0014: core did not retry    *)
(* the possibly consumed refresh token).                                   *)
TokenSentOnce ==
  \A r \in Resolvers : actor[r].at = "call" => actor[r].grant \notin sent
=============================================================================
