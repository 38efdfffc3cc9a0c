---------------------------- MODULE RunnerProofs ----------------------------
(***************************************************************************)
(* Proofs about the parts of a regression run: the browser session of the  *)
(* live tests (RunnerLogin), of which it is known at every moment who      *)
(* guards a write; the campaign (Campaign), in which what is left on the   *)
(* appliance is known to the fence, or to the one run that left it; one    *)
(* run of tests (LeafRun), whose verdict stays below its evidence; and the *)
(* host drills (HostDrill), credited by what the host did for the request  *)
(* on record.  The last part is about the GPU tests (GpuValidation,        *)
(* GpuScenario), which credit what they saw of one Pod in several reads,   *)
(* and about the baseline of a live run, read likewise (DeploymentPins).   *)
(***************************************************************************)
EXTENDS MCRunner, FiniteSetTheorems, WellFoundedInduction, TLAPS

-----------------------------------------------------------------------------
(* RunnerLogin.                                                            *)

Idle == {"off", "refused"}
Checks == {"reading", "signin", "return", "closing"}
Guards == Checks \union {"lease", "wait", "again"}
Places == Guards \union Idle \union {"join", "sent"}

Sessions == [subject : Nat, role : Roles, live : BOOLEAN]
Accounts == [subject : Nat, role : Roles]
Receipts == [subject : Nat, signingIn : BOOLEAN, failed : BOOLEAN]
CallRecord == [pc : Places, what : Intents, own : BOOLEAN, loading : BOOLEAN]

LoginTypes ==
  /\ shared \in BOOLEAN /\ held \in BOOLEAN
  /\ account \in Accounts /\ cookie \in Sessions /\ receipt \in Receipts
  /\ context \in {"login", "asking", "open", "closed"}
  /\ call \in [Callers -> CallRecord]

(***************************************************************************)
(* The inductive invariant.                                                *)
(***************************************************************************)
\* No call is under way before the browser is handed out.
NotYet == context \in {"login", "asking"} => \A c \in Callers : CallAt(c, Idle)

\* What a page asks for that is not the test's, or while it signs in, stays out.
Wanted == \A c \in Callers : ~CallAt(c, Idle) => call[c].own /\ ~call[c].loading

\* One check at a time reads the session, and one guard under the shared one.
OneCheck == \A c, d \in Callers : CallAt(c, Checks) /\ CallAt(d, Checks) => c = d
OneGuard ==
  IF shared
  THEN /\ \A c, d \in Callers : CallAt(c, Guards) /\ CallAt(d, Guards) => c = d
       /\ \A c \in Callers : ~CallAt(c, {"wait"})
  ELSE \A c \in Callers : ~CallAt(c, {"join"})

\* While a page signs in, the routing knows.
SigningKnown == \A c \in Callers : CallAt(c, {"signin", "return"}) => receipt.signingIn

\* Once verified, the session stays that of the user bound until the write is sent.
SessionKept ==
  shared => \A c \in Callers :
    /\ CallAt(c, {"reading", "signin", "return", "again"}) => ~receipt.failed
    /\ CallAt(c, {"again"}) => cookie.subject = receipt.subject

\* Who waits has somebody to wait for.
Accompanied ==
  /\ \A c \in Callers : CallAt(c, {"wait"}) => \E d \in Callers : CallAt(d, Checks)
  /\ \A c \in Callers : CallAt(c, {"join"}) => \E d \in Callers : CallAt(d, Guards)

LoginInv ==
  LoginTypes /\ NotYet /\ Wanted /\ OneCheck /\ OneGuard /\ SigningKnown /\ SessionKept /\ Accompanied

(***************************************************************************)
(* How calls move.                                                         *)
(***************************************************************************)
\* Every caller of S is at the place afterwards, all others are where they were.
Moved(S, place) ==
  /\ call' \in [Callers -> CallRecord]
  /\ \A c \in Callers :
       /\ call'[c].pc = IF c \in S THEN place ELSE call[c].pc
       /\ call'[c].own = call[c].own /\ call'[c].loading = call[c].loading

\* One caller makes a request, all others are where they were.
Asked(a, place, own, loading) ==
  /\ call' \in [Callers -> CallRecord]
  /\ call'[a].pc = place /\ call'[a].own = own /\ call'[a].loading = loading
  /\ \A c \in Callers \ {a} : call'[c] = call[c]

\* A move changes the place of a call and nothing else (Moves).
LEMMA MovesMoved ==
  ASSUME LoginTypes, NEW S, NEW place \in Places, Moves(S, place)
  PROVE  Moved(S, place)
<1>1. \A c \in Callers : call[c] \in CallRecord
  BY DEF LoginTypes
<1>2. \A c \in Callers : [call[c] EXCEPT !.pc = place] \in CallRecord
  BY <1>1 DEF CallRecord
<1>3. call' \in [Callers -> CallRecord]
  BY <1>1, <1>2 DEF Moves
<1>4. ASSUME NEW c \in Callers
      PROVE  /\ call'[c].pc = IF c \in S THEN place ELSE call[c].pc
             /\ call'[c].own = call[c].own /\ call'[c].loading = call[c].loading
  <2>1. call'[c] = IF c \in S THEN [call[c] EXCEPT !.pc = place] ELSE call[c]
    BY DEF Moves
  <2> QED BY <2>1, <1>1 DEF CallRecord
<1> QED BY <1>3, <1>4 DEF Moved

\* A request replaces what the caller asked for before (Asks).
LEMMA AsksAsked ==
  ASSUME LoginTypes, NEW a \in Callers, NEW place \in Places, NEW i \in Intents,
         NEW own \in BOOLEAN, NEW loading \in BOOLEAN, Asks(a, place, i, own, loading)
  PROVE  Asked(a, place, own, loading)
<1>1. [pc |-> place, what |-> i, own |-> own, loading |-> loading] \in CallRecord
  BY DEF CallRecord
<1>2. call \in [Callers -> CallRecord]
  BY DEF LoginTypes
<1>3. call' \in [Callers -> CallRecord]
  BY <1>1, <1>2 DEF Asks
<1>4. call'[a] = [pc |-> place, what |-> i, own |-> own, loading |-> loading]
  BY <1>2 DEF Asks
<1>5. \A c \in Callers \ {a} : call'[c] = call[c]
  BY <1>2 DEF Asks
<1> QED BY <1>3, <1>4, <1>5 DEF Asked

(***************************************************************************)
(* Steps that move no call.                                                *)
(***************************************************************************)
\* The session changes hands only before the browser is handed out.
Quiet ==
  /\ call' = call /\ shared' = shared /\ LoginTypes'
  /\ receipt'.failed = receipt.failed /\ receipt'.signingIn = receipt.signingIn
  /\ context' \in {"login", "asking"} => context \in {"login", "asking"}
  /\ \/ context \in {"login", "asking"}
     \/ cookie'.subject = cookie.subject /\ receipt'.subject = receipt.subject

\* Sign-in, expiry, a renewal by a page, a changed account or a lost lease leave
\* the invariant alone and send nothing.
LEMMA QuietStep ==
  ASSUME LoginInv, Quiet
  PROVE  LoginInv' /\ SendsGuarded
<1> USE DEF LoginInv, Quiet
<1>1. NotYet' /\ Wanted' /\ OneCheck' /\ OneGuard' /\ SigningKnown' /\ Accompanied'
  BY DEF NotYet, Wanted, OneCheck, OneGuard, SigningKnown, Accompanied, CallAt
<1>2. SessionKept'
  <2>1. CASE context \in {"login", "asking"}
    BY <2>1 DEF SessionKept, NotYet, CallAt, Idle
  <2>2. CASE cookie'.subject = cookie.subject /\ receipt'.subject = receipt.subject
    BY <2>2 DEF SessionKept, CallAt
  <2> QED BY <2>1, <2>2
<1>3. SendsGuarded
  BY DEF SendsGuarded, CallAt
<1> QED BY <1>1, <1>2, <1>3

\* What the identity provider gives out is a session of the account.
LEMMA SessionType ==
  ASSUME LoginTypes
  PROVE  Session(account) \in Sessions /\ Session(account).subject = account.subject
BY DEF LoginTypes, Session, Sessions, Accounts

\* Sign-in, expiry, a renewal by a page, a changed account, a lost lease and what the
\* test expects: none of these moves a call.
LEMMA QuietActions ==
  ASSUME LoginInv,
         \/ FirstSignIn \/ FirstSession \/ LoginFails \/ SessionExpires \/ AccountChanges
         \/ PageRenews \/ HeldLost \/ \E expected \in SUBSET Intents : Arms(expected)
  PROVE  Quiet
<1> USE DEF LoginInv
<1>0. LoginTypes
  OBVIOUS
<1>1. CASE FirstSignIn
  <2>1. cookie' \in Sessions
    BY <1>0, <1>1, SessionType DEF FirstSignIn
  <2> QED BY <1>1, <2>1 DEF FirstSignIn, Quiet, LoginTypes
<1>2. CASE FirstSession
  <2>1. receipt' \in Receipts /\ receipt'.failed = receipt.failed /\ receipt'.signingIn = receipt.signingIn
    BY <1>2 DEF FirstSession, LoginTypes, Receipts, Sessions
  <2> QED BY <1>2, <2>1 DEF FirstSession, Quiet, LoginTypes
<1>3. CASE LoginFails
  BY <1>3 DEF LoginFails, Quiet, LoginTypes
<1>4. CASE SessionExpires
  <2>1. cookie' \in Sessions /\ cookie'.subject = cookie.subject
    BY <1>4 DEF SessionExpires, LoginTypes, Sessions
  <2> QED BY <1>4, <2>1 DEF SessionExpires, Quiet, LoginTypes
<1>5. CASE AccountChanges
  <2>1. account' \in Accounts
    BY <1>5 DEF AccountChanges, LoginTypes, Accounts, Roles
  <2> QED BY <1>5, <2>1 DEF AccountChanges, Quiet, LoginTypes
<1>6. CASE PageRenews
  <2>1. cookie' \in Sessions /\ cookie'.subject = cookie.subject
    BY <1>0, <1>6, SessionType DEF PageRenews
  <2> QED BY <1>6, <2>1 DEF PageRenews, Quiet, LoginTypes
<1>7. CASE HeldLost
  BY <1>7 DEF HeldLost, Quiet, LoginTypes
<1>8. CASE \E expected \in SUBSET Intents : Arms(expected)
  BY <1>8 DEF Arms, Quiet, LoginTypes
<1> QED BY <1>1, <1>2, <1>3, <1>4, <1>5, <1>6, <1>7, <1>8

(***************************************************************************)
(* Requests.                                                               *)
(***************************************************************************)
\* A request that passes the routing is one of the test, on the browser that was
\* handed out; it starts a guard only where none is under way that it could join.
LEMMA RequestStep ==
  ASSUME LoginInv, NEW a \in Callers, CallAt(a, {"off"}), NEW own \in BOOLEAN, NEW loading \in BOOLEAN,
         NEW place \in {"join", "lease", "refused"}, Asked(a, place, own, loading),
         place = "refused" \/ (place = Guard /\ own /\ ~loading /\ context = "open"),
         UNCHANGED <<shared, account, cookie, context, receipt, held>>
  PROVE  LoginInv' /\ SendsGuarded
<1> USE DEF LoginInv, Asked
<1>1. LoginTypes'
  BY DEF LoginTypes
<1>2. NotYet'
  BY DEF NotYet, CallAt, Idle
<1>3. Wanted'
  BY DEF Wanted, CallAt, Idle
<1>4. OneCheck'
  BY DEF OneCheck, CallAt, Checks
<1>5. OneGuard'
  BY DEF OneGuard, CallAt, Guards, Checks, Guard, Guarding, Checking
<1>6. SigningKnown' /\ SessionKept'
  BY DEF SigningKnown, SessionKept, CallAt
<1>7. Accompanied'
  <2>1. ASSUME NEW c \in Callers, CallAt(c, {"wait"})'
        PROVE  \E d \in Callers : CallAt(d, Checks)'
    <3>1. c # a
      BY <2>1 DEF CallAt
    <3>2. PICK d \in Callers : CallAt(d, Checks)
      BY <2>1, <3>1 DEF Accompanied, CallAt
    <3> QED BY <3>2 DEF CallAt, Checks
  <2>2. ASSUME NEW c \in Callers, CallAt(c, {"join"})'
        PROVE  \E d \in Callers : CallAt(d, Guards)'
    <3>1. PICK d \in Callers : CallAt(d, Guards)
      <4>1. CASE c # a
        BY <2>2, <4>1 DEF Accompanied, CallAt
      <4>2. CASE c = a
        BY <2>2, <4>2 DEF CallAt, Guard, Guarding, Checking, Guards, Checks
      <4> QED BY <4>1, <4>2
    <3> QED BY <3>1 DEF CallAt, Guards, Checks
  <2> QED BY <2>1, <2>2 DEF Accompanied
<1>8. SendsGuarded
  BY DEF SendsGuarded, CallAt
<1> QED BY <1>1, <1>2, <1>3, <1>4, <1>5, <1>6, <1>7, <1>8

\* What the routing of a page lets through.
LEMMA PageRequestSafe ==
  ASSUME LoginInv, NEW c \in Callers, NEW i \in Intents, NEW own \in BOOLEAN, NEW loading \in BOOLEAN,
         PageRequest(c, i, own, loading)
  PROVE  LoginInv' /\ SendsGuarded
<1>1. PICK place \in IF context # "open" \/ receipt.signingIn \/ ~Allowed(i, own) THEN {"refused"} ELSE Guarded :
        Asks(c, place, i, own, loading)
  BY DEF PageRequest
<1>2. place \in {"join", "lease", "refused"}
  BY <1>1 DEF Guarded, Guard
<1>3. Asked(c, place, own, loading)
  BY <1>1, <1>2, AsksAsked DEF LoginInv, Places, Guards, Idle
<1>4. loading => context # "open" \/ receipt.signingIn
  BY DEF PageRequest, SigningPage, LoginInv, SigningKnown, CallAt
<1>5. place = "refused" \/ (place = Guard /\ own /\ ~loading /\ context = "open")
  BY <1>1, <1>4 DEF Guarded, Allowed
<1> QED BY <1>2, <1>3, <1>5, RequestStep DEF PageRequest

\* A client of the test writes to what the journal names.
LEMMA ClientRequestSafe ==
  ASSUME LoginInv, NEW c \in Callers, NEW i \in Intents, ClientRequest(c, i)
  PROVE  LoginInv' /\ SendsGuarded
<1>1. PICK place \in Guarded : Asks(c, place, i, TRUE, FALSE)
  BY DEF ClientRequest
<1>2. place \in {"join", "lease", "refused"}
  BY <1>1 DEF Guarded, Guard
<1>3. Asked(c, place, TRUE, FALSE)
  BY <1>1, <1>2, AsksAsked DEF LoginInv, Places, Guards, Idle
<1>4. place = "refused" \/ (place = Guard /\ context = "open")
  BY <1>1 DEF Guarded, ClientRequest
<1> QED BY <1>2, <1>3, <1>4, RequestStep DEF ClientRequest

\* The end of a call.
LEMMA EndCallSafe ==
  ASSUME LoginInv, NEW a \in Callers, EndCall(a)
  PROVE  LoginInv' /\ SendsGuarded
<1> USE DEF LoginInv
<1>0. Moved({a}, "off")
  BY MovesMoved DEF EndCall, Places, Idle
<1>1. LoginTypes'
  BY <1>0 DEF LoginTypes, EndCall, Moved
<1>2. NotYet' /\ Wanted' /\ OneCheck' /\ OneGuard' /\ SigningKnown' /\ SessionKept'
  BY <1>0 DEF NotYet, Wanted, OneCheck, OneGuard, SigningKnown, SessionKept, EndCall, Moved,
     CallAt, Idle, Checks, Guards
<1>3. Accompanied'
  BY <1>0 DEF Accompanied, EndCall, Moved, CallAt, Checks, Guards
<1>4. SendsGuarded
  BY <1>0 DEF SendsGuarded, Moved, CallAt
<1> QED BY <1>1, <1>2, <1>3, <1>4

(***************************************************************************)
(* The guard goes on.                                                      *)
(***************************************************************************)
\* A caller of a guard moves on in it, and with it who waits for its check when
\* that has succeeded.
Progress(a, S, place) ==
  /\ CallAt(a, Guards) /\ a \in S /\ S \subseteq {a} \union Waiting /\ place \in Guards
  /\ Moved(S, place) /\ LoginTypes' /\ shared' = shared /\ context' = context
  /\ \/ S = {a} /\ (CallAt(a, Checks) => place \in Checks)
     \/ Waiting \subseteq S /\ place = "again"
  /\ place \in Checks => \A d \in Callers : CallAt(d, Checks) => d = a
  /\ place = "wait" => \E d \in Callers : CallAt(d, Checks) /\ d # a
  /\ place \in {"signin", "return"} => receipt'.signingIn
  /\ receipt'.signingIn = receipt.signingIn \/ CallAt(a, Checks)
  /\ shared => /\ place \in {"reading", "signin", "return", "again"} => ~receipt'.failed
               /\ place = "again" => cookie'.subject = receipt'.subject
  /\ receipt'.subject = receipt.subject

\* Progress of one guard leaves the others as they are known to be.
LEMMA ProgressStep ==
  ASSUME LoginInv, NEW a \in Callers, NEW S, NEW place, Progress(a, S, place)
  PROVE  LoginInv' /\ SendsGuarded
<1> USE DEF LoginInv, Progress, Moved
<1>1. NotYet'
  BY DEF NotYet, CallAt, Idle, Guards, Checks
<1>2. Wanted'
  BY DEF Wanted, Waiting, CallAt, Idle, Guards, Checks
<1>3. OneCheck'
  BY DEF OneCheck, Waiting, CallAt, Guards, Checks
<1>4. OneGuard'
  <2>1. CASE shared
    <3>1. S = {a}
      BY <2>1 DEF OneGuard, Waiting
    <3>2. place # "wait"
      BY <2>1 DEF OneGuard, CallAt, Guards
    <3> QED BY <2>1, <3>1, <3>2 DEF OneGuard, CallAt
  <2>2. CASE ~shared
    BY <2>2 DEF OneGuard, CallAt, Guards, Checks
  <2> QED BY <2>1, <2>2
<1>5. SigningKnown'
  BY DEF SigningKnown, OneCheck, CallAt, Checks
<1>6. SessionKept'
  <2>1. SUFFICES ASSUME shared
        PROVE  SessionKept'
    BY DEF SessionKept
  <2>2. \A c \in Callers \ {a} : ~CallAt(c, Guards)
    BY <2>1 DEF OneGuard
  <2>3. S = {a}
    BY <2>1 DEF OneGuard, Waiting
  <2>4. \A c \in Callers \ {a} : ~CallAt(c, Guards)'
    BY <2>2, <2>3 DEF CallAt
  <2>5. call'[a].pc = place
    OBVIOUS
  <2> QED BY <2>1, <2>4, <2>5 DEF SessionKept, CallAt, Guards, Checks
<1>7. Accompanied'
  <2>1. ASSUME NEW c \in Callers, CallAt(c, {"wait"})'
        PROVE  \E d \in Callers : CallAt(d, Checks)'
    <3>1. CASE c \in S
      <4>1. place = "wait" /\ S = {a}
        BY <2>1, <3>1 DEF CallAt
      <4>2. PICK d \in Callers : CallAt(d, Checks) /\ d # a
        BY <4>1
      <4> QED BY <4>1, <4>2 DEF CallAt
    <3>2. CASE c \notin S
      <4>1. CallAt(c, {"wait"}) /\ ~(Waiting \subseteq S)
        BY <2>1, <3>2 DEF CallAt, Waiting
      <4>2. PICK d \in Callers : CallAt(d, Checks)
        BY <4>1 DEF Accompanied
      <4>3. S = {a} /\ (CallAt(a, Checks) => place \in Checks)
        BY <4>1
      <4> QED BY <4>2, <4>3 DEF CallAt
    <3> QED BY <3>1, <3>2
  <2>2. ASSUME NEW c \in Callers, CallAt(c, {"join"})'
        PROVE  CallAt(a, Guards)'
    BY DEF CallAt
  <2> QED BY <2>1, <2>2 DEF Accompanied
<1>8. SendsGuarded
  BY DEF SendsGuarded, CallAt, Guards, Checks
<1> QED BY <1>1, <1>2, <1>3, <1>4, <1>5, <1>6, <1>7, <1>8

(***************************************************************************)
(* The guard ends.                                                         *)
(***************************************************************************)
\* A guard ends for its caller and whoever joined it, and with its check for who
\* waits for that; a write is sent only with the lease, on the open browser.
GuardEnds(a, S, place) ==
  /\ CallAt(a, Guards) /\ {a} \union Joined \subseteq S /\ S \subseteq {a} \union Joined \union Waiting
  /\ CallAt(a, Checks) => Waiting \subseteq S
  /\ ~CallAt(a, Checks) => S = {a} \union Joined
  /\ Moved(S, place) /\ LoginTypes' /\ shared' = shared /\ context' \in {context, "closed"}
  /\ \/ place = "refused"
     \/ place = "sent" /\ CallAt(a, {"again"}) /\ held /\ context = "open"
  /\ cookie'.subject = cookie.subject /\ receipt'.subject = receipt.subject /\ receipt'.failed = receipt.failed
  /\ receipt'.signingIn = receipt.signingIn \/ CallAt(a, Checks)

\* The end of a guard leaves nobody alone, and what it sends is guarded.
LEMMA GuardEndsStep ==
  ASSUME LoginInv, NEW a \in Callers, NEW S, NEW place, GuardEnds(a, S, place)
  PROVE  LoginInv' /\ SendsGuarded
<1> USE DEF LoginInv, GuardEnds, Moved
<1>1. NotYet'
  BY DEF NotYet, CallAt, Idle, Guards, Checks
<1>2. Wanted'
  BY DEF Wanted, Waiting, Joined, CallAt, Idle, Guards, Checks
<1>3. OneCheck' /\ OneGuard'
  BY DEF OneCheck, OneGuard, CallAt, Guards, Checks
<1>4. SigningKnown'
  BY DEF SigningKnown, OneCheck, CallAt, Checks
<1>5. SessionKept'
  BY DEF SessionKept, CallAt
<1>6. Accompanied'
  <2>1. ASSUME NEW c \in Callers, CallAt(c, {"wait"})'
        PROVE  \E d \in Callers : CallAt(d, Checks)'
    <3>1. c \notin S /\ CallAt(c, {"wait"})
      BY <2>1 DEF CallAt
    <3>2. ~CallAt(a, Checks)
      BY <3>1 DEF Waiting
    <3>3. PICK d \in Callers : CallAt(d, Checks)
      BY <3>1 DEF Accompanied
    <3>4. d \notin S
      BY <3>2, <3>3 DEF Joined, CallAt, Checks
    <3> QED BY <3>3, <3>4 DEF CallAt
  <2>2. \A c \in Callers : ~CallAt(c, {"join"})'
    BY DEF Joined, CallAt
  <2> QED BY <2>1, <2>2 DEF Accompanied
<1>7. SendsGuarded
  <2>1. SUFFICES ASSUME NEW c \in Callers, ~CallAt(c, {"sent"}), call'[c].pc = "sent"
        PROVE  /\ call[c].own /\ ~call[c].loading /\ held /\ context = "open"
               /\ shared => cookie.subject = receipt.subject /\ ~receipt.failed
    BY DEF SendsGuarded
  <2>2. c \in S /\ place = "sent"
    BY <2>1 DEF CallAt
  <2>3. ~CallAt(c, Idle)
    BY <2>2 DEF Joined, Waiting, CallAt, Guards, Checks, Idle
  <2> QED BY <2>2, <2>3 DEF Wanted, SessionKept, CallAt
<1> QED BY <1>1, <1>2, <1>3, <1>4, <1>5, <1>6, <1>7

(***************************************************************************)
(* The steps of the guard.                                                 *)
(***************************************************************************)
\* What a guard that throws does, apart from what it leaves as it was.
LEMMA ThrowsEnds ==
  ASSUME LoginInv, NEW a \in Callers, CallAt(a, {"lease", "again"}), Throws(a),
         UNCHANGED <<shared, account, cookie, context, receipt, held>>
  PROVE  GuardEnds(a, {a} \union Joined, "refused")
<1>1. Moved({a} \union Joined, "refused")
  BY MovesMoved DEF Throws, LoginInv, Places, Idle
<1>2. LoginTypes'
  BY <1>1 DEF LoginInv, LoginTypes, Moved
<1> QED BY <1>1, <1>2 DEF GuardEnds, CallAt, Guards, Checks

\* What a check that throws does.
LEMMA CheckThrowsEnds ==
  ASSUME LoginInv, NEW a \in Callers, CallAt(a, Checks), CheckThrows(a), receipt' \in Receipts,
         receipt'.subject = receipt.subject, receipt'.failed = receipt.failed,
         context' \in {context, "closed"}, UNCHANGED <<shared, account, cookie, held>>
  PROVE  GuardEnds(a, {a} \union Waiting \union Joined, "refused")
<1>1. Moved({a} \union Waiting \union Joined, "refused")
  BY MovesMoved DEF CheckThrows, LoginInv, Places, Idle
<1>2. LoginTypes'
  BY <1>1 DEF LoginInv, LoginTypes, Moved
<1> QED BY <1>1, <1>2 DEF GuardEnds, CallAt, Guards, Checks

\* A lost identity: the check goes on to close the browser.
LEMMA IdentityLostProgress ==
  ASSUME LoginInv, NEW a \in Callers, CallAt(a, Checks), IdentityLost(a),
         UNCHANGED <<shared, account, cookie, context, held>>
  PROVE  Progress(a, {a}, "closing")
<1>1. Moved({a}, "closing")
  BY MovesMoved DEF IdentityLost, LoginInv, Places, Guards, Checks
<1>2. receipt' = [receipt EXCEPT !.failed = TRUE, !.signingIn = FALSE] /\ receipt \in Receipts
  BY DEF IdentityLost, LoginInv, LoginTypes
<1>3. receipt' \in Receipts
  BY <1>2, Zenon DEF Receipts
<1>4. receipt'.subject = receipt.subject
  BY <1>2, Zenon DEF Receipts
<1>5. LoginTypes'
  BY <1>1, <1>3 DEF LoginInv, LoginTypes, Moved
<1>6. \A d \in Callers : CallAt(d, Checks) => d = a
  BY DEF LoginInv, OneCheck
<1> QED BY <1>1, <1>4, <1>5, <1>6 DEF Progress, CallAt, Guards, Checks

\* A check that succeeds, for its caller and who waits for it.
LEMMA CheckSucceedsProgress ==
  ASSUME LoginInv, NEW a \in Callers, CallAt(a, {"reading", "return"}), CheckSucceeds(a), Verified,
         receipt' \in Receipts, receipt'.subject = receipt.subject, receipt'.failed = receipt.failed,
         UNCHANGED <<shared, account, cookie, context, held>>
  PROVE  Progress(a, {a} \union Waiting, "again")
<1>1. Moved({a} \union Waiting, "again")
  BY MovesMoved DEF CheckSucceeds, LoginInv, Places, Guards
<1>2. LoginTypes'
  BY <1>1 DEF LoginInv, LoginTypes, Moved
<1>3. shared => ~receipt.failed /\ cookie.subject = receipt.subject
  BY DEF LoginInv, SessionKept, Verified, CallAt
<1> QED BY <1>1, <1>2, <1>3 DEF Progress, CallAt, Guards, Checks

\* The first look at the lease, and the beginning of the check of the session.
LEMMA CheckLeaseSafe ==
  ASSUME LoginInv, NEW a \in Callers, CheckLease(a)
  PROVE  LoginInv' /\ SendsGuarded
<1>0. CallAt(a, {"lease"}) /\ UNCHANGED <<shared, account, cookie, context, receipt, held>>
  BY DEF CheckLease
<1>1. CASE Throws(a)
  BY <1>0, <1>1, ThrowsEnds, GuardEndsStep DEF CallAt
<1>2. CASE ~receipt.failed /\ Moves({a}, IF Checking # {} THEN "wait" ELSE "reading")
  <2>1. CASE Checking # {}
    <3>1. Moves({a}, "wait")
      BY <1>2, <2>1
    <3>2. Moved({a}, "wait")
      BY <3>1, MovesMoved DEF LoginInv, Places, Guards
    <3>3. LoginTypes'
      BY <1>0, <3>2 DEF LoginInv, LoginTypes, Moved
    <3>4. \E d \in Callers : CallAt(d, Checks) /\ d # a
      BY <1>0, <2>1 DEF Checking, Checks, CallAt
    <3>5. Progress(a, {a}, "wait")
      BY <1>0, <3>2, <3>3, <3>4 DEF Progress, CallAt, Guards, Checks
    <3> QED BY <3>5, ProgressStep
  <2>2. CASE Checking = {}
    <3>1. Moves({a}, "reading")
      BY <1>2, <2>2
    <3>2. Moved({a}, "reading")
      BY <3>1, MovesMoved DEF LoginInv, Places, Guards, Checks
    <3>3. LoginTypes'
      BY <1>0, <3>2 DEF LoginInv, LoginTypes, Moved
    <3>4. \A d \in Callers : ~CallAt(d, Checks)
      BY <2>2 DEF Checking, Checks
    <3>5. Progress(a, {a}, "reading")
      BY <1>0, <1>2, <3>2, <3>3, <3>4 DEF Progress, CallAt, Guards, Checks
    <3> QED BY <3>5, ProgressStep
  <2> QED BY <2>1, <2>2
<1> QED BY <1>1, <1>2 DEF CheckLease

\* The session is read: verified, expired, somebody else's or not readable.
LEMMA ReadSessionSafe ==
  ASSUME LoginInv, NEW a \in Callers, ReadSession(a)
  PROVE  LoginInv' /\ SendsGuarded
<1>0. CallAt(a, {"reading"}) /\ UNCHANGED <<shared, account, cookie, context, held>>
  BY DEF ReadSession
<1>1. CallAt(a, Checks) /\ receipt \in Receipts
  BY <1>0 DEF CallAt, Checks, LoginInv, LoginTypes
<1>2. CASE Verified /\ CheckSucceeds(a) /\ receipt' = receipt
  <2>1. CallAt(a, {"reading", "return"})
    BY <1>0 DEF CallAt
  <2>2. Progress(a, {a} \union Waiting, "again")
    BY <1>0, <1>1, <1>2, <2>1, CheckSucceedsProgress
  <2> QED BY <2>2, ProgressStep
<1>3. CASE IdentityLost(a)
  <2>1. Progress(a, {a}, "closing")
    BY <1>0, <1>1, <1>3, IdentityLostProgress
  <2> QED BY <2>1, ProgressStep
<1>4. CASE Moves({a}, "signin") /\ receipt' = [receipt EXCEPT !.signingIn = TRUE]
  <2>1. Moved({a}, "signin")
    BY <1>4, MovesMoved DEF LoginInv, Places, Guards, Checks
  <2>2. /\ receipt' \in Receipts /\ receipt'.signingIn /\ receipt'.subject = receipt.subject
        /\ receipt'.failed = receipt.failed
    BY <1>1, <1>4 DEF Receipts
  <2>3. LoginTypes'
    BY <1>0, <2>1, <2>2 DEF LoginInv, LoginTypes, Moved
  <2>4. \A d \in Callers : CallAt(d, Checks) => d = a
    BY <1>1 DEF LoginInv, OneCheck
  <2>5. shared => ~receipt.failed
    BY <1>0 DEF LoginInv, SessionKept, CallAt
  <2>6. Progress(a, {a}, "signin")
    BY <1>0, <1>1, <2>1, <2>2, <2>3, <2>4, <2>5 DEF Progress, CallAt, Guards, Checks
  <2> QED BY <2>6, ProgressStep
<1>5. CASE CheckThrows(a) /\ receipt' = receipt
  <2>1. GuardEnds(a, {a} \union Waiting \union Joined, "refused")
    BY <1>0, <1>1, <1>5, CheckThrowsEnds
  <2> QED BY <2>1, GuardEndsStep
<1> QED BY <1>2, <1>3, <1>4, <1>5 DEF ReadSession

\* The fields of the receipt when a sign-in is over.
LEMMA SignInOverReceipt ==
  ASSUME LoginTypes, SignInOver
  PROVE  receipt' \in Receipts /\ receipt'.subject = receipt.subject /\ receipt'.failed = receipt.failed
BY DEF LoginTypes, SignInOver, Receipts

\* The renewal: a session of whoever has the account now.
LEMMA DashboardSignInSafe ==
  ASSUME LoginInv, NEW a \in Callers, DashboardSignIn(a)
  PROVE  LoginInv' /\ SendsGuarded
<1>0. CallAt(a, {"signin"}) /\ UNCHANGED <<shared, account, context, held>>
  BY DEF DashboardSignIn
<1>1. CallAt(a, Checks) /\ LoginTypes
  BY <1>0 DEF CallAt, Checks, LoginInv
<1>2. CASE Moves({a}, "return") /\ cookie' = Session(account) /\ receipt' = receipt
  <2>1. Moved({a}, "return")
    BY <1>2, MovesMoved DEF LoginInv, Places, Guards, Checks
  <2>2. cookie' \in Sessions
    BY <1>1, <1>2, SessionType
  <2>3. LoginTypes'
    BY <1>0, <1>1, <1>2, <2>1, <2>2 DEF LoginTypes, Moved
  <2>4. \A d \in Callers : CallAt(d, Checks) => d = a
    BY <1>1 DEF LoginInv, OneCheck
  <2>5. receipt.signingIn /\ (shared => ~receipt.failed)
    BY <1>0 DEF LoginInv, SigningKnown, SessionKept, CallAt
  <2>6. Progress(a, {a}, "return")
    BY <1>0, <1>1, <1>2, <2>1, <2>3, <2>4, <2>5 DEF Progress, CallAt, Guards, Checks
  <2> QED BY <2>6, ProgressStep
<1>3. CASE cookie' = cookie /\ IdentityLost(a)
  <2>1. Progress(a, {a}, "closing")
    BY <1>0, <1>1, <1>3, IdentityLostProgress
  <2> QED BY <2>1, ProgressStep
<1>4. CASE cookie' = cookie /\ CheckThrows(a) /\ SignInOver
  <2>1. GuardEnds(a, {a} \union Waiting \union Joined, "refused")
    BY <1>0, <1>1, <1>4, SignInOverReceipt, CheckThrowsEnds
  <2> QED BY <2>1, GuardEndsStep
<1> QED BY <1>2, <1>3, <1>4 DEF DashboardSignIn

\* The renewed session counts only if it is that of the user bound.
LEMMA ReadRenewedSafe ==
  ASSUME LoginInv, NEW a \in Callers, ReadRenewed(a)
  PROVE  LoginInv' /\ SendsGuarded
<1>0. CallAt(a, {"return"}) /\ UNCHANGED <<shared, account, cookie, context, held>>
  BY DEF ReadRenewed
<1>1. CallAt(a, Checks) /\ LoginTypes
  BY <1>0 DEF CallAt, Checks, LoginInv
<1>2. CASE Verified /\ CheckSucceeds(a) /\ SignInOver
  <2>1. CallAt(a, {"reading", "return"})
    BY <1>0 DEF CallAt
  <2>2. Progress(a, {a} \union Waiting, "again")
    BY <1>0, <1>1, <1>2, <2>1, SignInOverReceipt, CheckSucceedsProgress
  <2> QED BY <2>2, ProgressStep
<1>3. CASE IdentityLost(a)
  <2>1. Progress(a, {a}, "closing")
    BY <1>0, <1>1, <1>3, IdentityLostProgress
  <2> QED BY <2>1, ProgressStep
<1> QED BY <1>2, <1>3 DEF ReadRenewed

\* The browser of a lost identity is closed.
LEMMA CloseContextSafe ==
  ASSUME LoginInv, NEW a \in Callers, CloseContext(a)
  PROVE  LoginInv' /\ SendsGuarded
<1>1. CallAt(a, Checks) /\ receipt' \in Receipts /\ CheckThrows(a)
  BY DEF CloseContext, CallAt, Checks, LoginInv, LoginTypes
<1>2. GuardEnds(a, {a} \union Waiting \union Joined, "refused")
  BY <1>1, CheckThrowsEnds DEF CloseContext
<1> QED BY <1>2, GuardEndsStep

\* The second look at the lease, after which the write goes out.
LEMMA CheckLeaseAgainSafe ==
  ASSUME LoginInv, NEW a \in Callers, CheckLeaseAgain(a)
  PROVE  LoginInv' /\ SendsGuarded
<1>0. CallAt(a, {"again"}) /\ UNCHANGED <<shared, account, cookie, context, receipt, held>>
  BY DEF CheckLeaseAgain
<1>1. CASE Throws(a)
  BY <1>0, <1>1, ThrowsEnds, GuardEndsStep DEF CallAt
<1>2. CASE held /\ context = "open" /\ Moves({a} \union Joined, "sent")
  <2>1. Moved({a} \union Joined, "sent")
    BY <1>2, MovesMoved DEF LoginInv, Places
  <2>2. LoginTypes'
    BY <1>0, <2>1 DEF LoginInv, LoginTypes, Moved
  <2>3. GuardEnds(a, {a} \union Joined, "sent")
    BY <1>0, <1>2, <2>1, <2>2 DEF GuardEnds, CallAt, Guards, Checks
  <2> QED BY <2>3, GuardEndsStep
<1> QED BY <1>1, <1>2 DEF CheckLeaseAgain

(***************************************************************************)
(* The theorem.                                                            *)
(***************************************************************************)
\* Before the first sign-in nothing is under way.
LEMMA LoginInitInv == LoginInit => LoginInv
<1> SUFFICES ASSUME LoginInit PROVE LoginInv
  OBVIOUS
<1>1. account \in Accounts
  BY DEF LoginInit, Accounts, Roles
<1>2. cookie \in Sessions
  <2>1. Session(account) \in Sessions
    BY <1>1 DEF Session, Sessions, Accounts
  <2> QED BY <2>1 DEF LoginInit, Sessions
<1>3. receipt \in Receipts
  BY DEF LoginInit, Receipts
<1>4. call \in [Callers -> CallRecord]
  <2>1. "off" \in Places
    BY DEF Places, Idle
  <2>2. \A i \in Intents : [pc |-> "off", what |-> i, own |-> TRUE, loading |-> FALSE] \in CallRecord
    BY <2>1 DEF CallRecord
  <2>3. {[pc |-> "off", what |-> i, own |-> TRUE, loading |-> FALSE] : i \in Intents} \subseteq CallRecord
    BY <2>2, Zenon
  <2> QED BY <2>3 DEF LoginInit
<1>5. \A c \in Callers : call[c].pc = "off"
  BY DEF LoginInit
<1>6. LoginTypes
  BY <1>1, <1>2, <1>3, <1>4 DEF LoginInit, LoginTypes
<1> QED BY <1>5, <1>6 DEF LoginInv, NotYet, Wanted, OneCheck, OneGuard, SigningKnown, SessionKept, Accompanied,
                           CallAt, Idle, Checks, Guards

\* Every step keeps the invariant and sends only guarded writes.
LEMMA LoginNextInv ==
  ASSUME LoginInv, [LoginNext]_loginVars
  PROVE  LoginInv' /\ [SendsGuarded]_loginVars
<1>1. CASE UNCHANGED loginVars
  BY <1>1 DEF loginVars, LoginInv, LoginTypes, NotYet, Wanted, OneCheck, OneGuard,
     SigningKnown, SessionKept,
              Accompanied, CallAt
<1>2. CASE LoginNext
  <2>1. CASE \/ FirstSignIn \/ FirstSession \/ LoginFails \/ SessionExpires \/ AccountChanges
             \/ PageRenews \/ HeldLost \/ \E expected \in SUBSET Intents : Arms(expected)
    BY <2>1, QuietActions, QuietStep
  <2>2. ASSUME NEW c \in Callers, NEW i \in Intents, NEW own \in BOOLEAN, NEW loading \in BOOLEAN,
               PageRequest(c, i, own, loading)
        PROVE  LoginInv' /\ SendsGuarded
    BY <2>2, PageRequestSafe
  <2>3. ASSUME NEW c \in Callers, NEW i \in Intents, ClientRequest(c, i)
        PROVE  LoginInv' /\ SendsGuarded
    BY <2>3, ClientRequestSafe
  <2>4. ASSUME NEW c \in Callers, GuardSteps(c) \/ EndCall(c)
        PROVE  LoginInv' /\ SendsGuarded
    BY <2>4, CheckLeaseSafe, ReadSessionSafe, DashboardSignInSafe, ReadRenewedSafe,
       CloseContextSafe,
       CheckLeaseAgainSafe, EndCallSafe DEF GuardSteps
  <2> QED BY <1>2, <2>1, <2>2, <2>3, <2>4 DEF LoginNext
<1> QED BY <1>1, <1>2

\* Only guarded writes reach the dashboard, under the shared guard never in the
\* session of somebody else, and nobody is left waiting for a check that is over,
\* for any callers, expired sessions and changed accounts.
THEOREM LoginStaysGuarded == LoginSpec => LoginGuarded
<1>1. LoginInv => NobodyStranded
  BY DEF LoginInv, Accompanied, NobodyStranded, Waiting, Joined, Checking, Guarding, CallAt,
     Checks, Guards
<1> QED BY <1>1, LoginInitInv, LoginNextInv, PTL DEF LoginSpec, LoginGuarded

-----------------------------------------------------------------------------
(* Campaign: the inductive invariant.                                      *)

RunStates == {"none", "running", "orphan", "ended"}

Results == {"none", "Passed", "Failed", "Blocked"}

Positions ==
  /\ apc \in {"next", "wait", "save", "done"} /\ ph \in 0 .. Len(Phases)
  /\ ppc \in {"none", "next", "spawn", "child", "recover", "recovery", "save", "done", "dead"}
  /\ apc = "wait" => ph > 0 /\ ppc # "none"
  /\ apc # "wait" => ppc \in {"none", "done", "dead"}
  /\ ph > 0 => st \in 0 .. Len(Phases[ph])
  /\ killed \subseteq DOMAIN Phases
  /\ ended \in Seq({"Passed", "Failed", "Blocked"})
  /\ Len(ended) = IF apc = "wait" THEN ph - 1 ELSE ph

Files ==
  /\ run \in [Runs -> RunStates] /\ result \in [Runs -> Results]
  /\ left \subseteq Runs /\ proven \subseteq Runs
  /\ manifest \in [DOMAIN Phases -> SUBSET Runs]
  /\ rows \in [DOMAIN Phases -> SUBSET (Runs \X Results)]

CampaignTypes == Positions /\ Files

\* How far the campaign is: which runs there have been.
Begun(x) ==
  \/ x[1] < ph
  \/ /\ x[1] = ph
     /\ \/ x[2] < st
        \/ /\ x[2] = st
           /\ \/ x[3] = "step" /\ ppc # "spawn"
              \/ x[3] = "recovery" /\ ppc \notin {"spawn", "child", "recover"}

RunsInOrder ==
  /\ \A x \in Runs : run[x] # "none" => Begun(x) /\ x \in manifest[x[1]]
  /\ \A p \in DOMAIN Phases : \A x \in manifest[p] : x[1] = p /\ p <= ph
  /\ apc = "wait" => \A s \in 1 .. st : <<ph, s, "step">> \in manifest[ph]
  /\ ppc \in {"spawn", "child", "recover", "recovery"} => st > 0
  /\ ppc = "recover" => Recovery \in manifest[ph]
  /\ ppc \in {"child"} => run[Step] # "none"
  /\ ppc \in {"recover", "recovery"} => run[Step] \in {"ended", "orphan"}
  /\ apc = "wait" /\ ppc \in {"save", "done"} /\ halt = "no" => st = Len(Phases[ph])
  /\ ppc = "dead" => ph \in killed

\* What a run and what is known of it say of each other.
Evident ==
  \A x \in Runs :
    /\ result[x] = "Passed" => run[x] = "ended"
    /\ run[x] = "orphan" => result[x] = "Failed"
    /\ run[x] \in {"none", "running"} => result[x] = "none"
    /\ x \in proven => run[x] = "ended"
    /\ x \in left => x[3] = "step" /\ Live(x) /\ run[x] # "none" /\ x \notin proven
    /\ x[3] = "recovery" /\ x \in proven => <<x[1], x[2], "step">> \in proven

\* Rows are what was found out of runs that are over.
RowsTrue ==
  /\ \A p \in DOMAIN Phases : \A row \in rows[p] :
       /\ row[1] \in Runs /\ row[1][1] = p /\ run[row[1]] \in {"ended", "orphan"}
       /\ row[2] \in {"Passed", "Failed"} => result[row[1]] = row[2]
  /\ ppc = "child" /\ run[Step] = "ended" => slot = Step \/ result[Step] = "Failed"
  /\ ppc = "recovery" /\ run[Recovery] = "ended" => slot = Recovery \/ result[Recovery] = "Failed"

\* A run that was not refused: it does or did something on the appliance.
Ran(x) == run[x] \in {"running", "orphan"} \/ x \in proven

\* A phase coordinator before phase k was killed among its isolated steps.
Lost(k) == \E q \in DOMAIN Phases : q < k /\ Forgetful(q)

\* As long as something is left on the appliance, the fence is up, or about
\* to be raised by the one run that has left it.
Fenced ==
  /\ apc = "next" /\ halt = "no" /\ ~fenceA => left = {} \/ Lost(ph + 1)
  /\ apc = "wait" /\ ~Lost(ph) =>
       /\ ppc \in {"next", "spawn", "save"} /\ ~fenceP => left = {}
       /\ ppc = "child" /\ ~fenceP => left \subseteq {Step}
       /\ ppc \in {"recover", "recovery"} => left \subseteq {Step} /\ fenceP
       /\ \A r \in left : \A x \in Runs :
            r[1] # ph /\ x[1] = ph /\ Live(x) => ~Ran(x)

\* A phase that has passed has left nothing and is over.
PhaseGood(p) ==
  \A x \in Runs : x[1] = p =>
    /\ x[3] = "step" => run[x] = "ended" /\ result[x] = "Passed"
    /\ run[x] \in {"none", "ended"} /\ x \notin left

Greens ==
  /\ \A i \in 1 .. Len(ended) : ended[i] = "Passed" => PhaseGood(i)
  /\ code = 0 => apc = "done" /\ Len(ended) = Len(Phases) /\ \A i \in 1 .. Len(ended) : ended[i] = "Passed"

FailedRun(c) == c \in Runs /\ run[c] \in {"ended", "orphan"} /\ result[c] = "Failed"

Causes == \A c \in {causeA, causeP} \ {NoRun} : FailedRun(c)

CampaignInv ==
  /\ CampaignTypes /\ RunsInOrder /\ Evident /\ RowsTrue /\ Fenced /\ Greens /\ Causes

-----------------------------------------------------------------------------
(* Campaign: lemmas.                                                       *)

LEMMA PhasesTyped ==
  /\ Len(Phases) \in Nat /\ DOMAIN Phases = 1 .. Len(Phases)
  /\ \A p \in DOMAIN Phases :
       /\ Len(Phases[p]) \in Nat \ {0} /\ Steps(p) = 1 .. Len(Phases[p])
       /\ Phases[p][Len(Phases[p])] = "live"
BY PhasesAssumption DEF Steps

LEMMA RunParts ==
  \A x \in Runs :
    /\ x = <<x[1], x[2], x[3]>>
    /\ x[1] \in 1 .. Len(Phases) /\ x[2] \in 1 .. Len(Phases[x[1]])
    /\ x[3] \in {"step", "recovery"}
    /\ x[1] \in Nat /\ x[2] \in Nat
<1> SUFFICES ASSUME NEW x \in Runs
             PROVE  /\ x = <<x[1], x[2], x[3]>>
                    /\ x[1] \in 1 .. Len(Phases) /\ x[2] \in 1 .. Len(Phases[x[1]])
                    /\ x[3] \in {"step", "recovery"}
                    /\ x[1] \in Nat /\ x[2] \in Nat
  OBVIOUS
<1> DEFINE RunsIn(p) == {<<p, s, k>> : s \in Steps(p), k \in {"step", "recovery"}}
<1>3. Runs = UNION {RunsIn(p) : p \in DOMAIN Phases}
  BY DEF Runs
<1>1. PICK p \in DOMAIN Phases : x \in RunsIn(p)
  <2> HIDE DEF RunsIn
  <2> QED
    BY <1>3
<1>2. PICK s \in Steps(p), k \in {"step", "recovery"} : x = <<p, s, k>>
  BY <1>1
<1> QED
  BY <1>2, PhasesTyped

LEMMA RunsOf ==
  ASSUME NEW p \in 1 .. Len(Phases), NEW s \in 1 .. Len(Phases[p]), NEW k \in {"step", "recovery"}
  PROVE  <<p, s, k>> \in Runs
<1>1. p \in DOMAIN Phases /\ s \in Steps(p)
  BY PhasesTyped
<1> QED
  BY <1>1 DEF Runs


LEMMA AtStep ==
  ASSUME Positions, RunsInOrder, ppc \in {"spawn", "child", "recover", "recovery"}
  PROVE  /\ apc = "wait" /\ ph \in 1 .. Len(Phases) /\ st \in 1 .. Len(Phases[ph])
         /\ ph \in DOMAIN Phases
         /\ Step \in Runs /\ Recovery \in Runs /\ Step # Recovery
         /\ \A x \in Runs : x[1] = ph /\ x[2] = st => x \in {Step, Recovery}
         /\ Step[1] = ph /\ Step[2] = st /\ Step[3] = "step"
         /\ Recovery[1] = ph /\ Recovery[2] = st /\ Recovery[3] = "recovery"
<1>1. apc = "wait" /\ ph \in 1 .. Len(Phases) /\ st \in 1 .. Len(Phases[ph]) /\ ph \in DOMAIN Phases
  BY PhasesTyped DEF Positions, RunsInOrder
<1>2. Step \in Runs /\ Recovery \in Runs
  BY <1>1, RunsOf DEF Step, Recovery
<1> QED
  BY <1>1, <1>2, RunParts DEF Step, Recovery

\* The process of a run goes on or ends; the coordinators do nothing.
LEMMA ProcessStep ==
  ASSUME CampaignInv, NEW r \in Runs, run[r] \in {"running", "orphan"},
         UNCHANGED <<allVars, phaseVars, manifest, rows, halt, killed>>,
         run' \in [Runs -> RunStates], result' \in [Runs -> Results],
         \A x \in Runs \ {r} : run'[x] = run[x] /\ result'[x] = result[x],
         run'[r] \in {"orphan", "ended"}, result'[r] \in {"Passed", "Failed"},
         run[r] = "orphan" => run'[r] = "ended" /\ result'[r] = result[r],
         result'[r] = "Passed" => run'[r] = "ended",
         left' \subseteq left, proven \subseteq proven',
         proven' \subseteq proven \cup {r} \cup
            {x \in Runs : r[3] = "recovery" /\ x[1] = r[1] /\ x[2] = r[2]},
         \A x \in proven' \ proven : run'[x] = "ended" /\ x \notin left',
         r \in proven' /\ r[3] = "recovery" => <<r[1], r[2], "step">> \in proven',
         slot' = IF run'[r] = "ended" /\ run[r] = "running" /\ r \in {Step, Recovery} THEN r ELSE slot
  PROVE  CampaignInv'
<1>1. /\ UNCHANGED <<apc, ph, ppc, st, fenceA, causeA, fenceP, causeP, ended, code, manifest, rows, halt, killed>>
      /\ Step' = Step /\ Recovery' = Recovery
  BY DEF allVars, phaseVars, Step, Recovery
<1>2. Positions' /\ Files'
  BY <1>1 DEF CampaignInv, CampaignTypes, Positions, Files
<1>3. \A x \in Runs : run'[x] # "none" => run[x] # "none"
  OBVIOUS
<1>4. \A x \in Runs : Begun(x)' <=> Begun(x)
  BY <1>1 DEF Begun
<1>5. RunsInOrder'
  <2>1. ppc \in {"child", "recover", "recovery"} => Step \in Runs
    BY AtStep DEF CampaignInv, CampaignTypes
  <2> QED
    BY <1>1, <1>3, <1>4, <2>1 DEF CampaignInv, RunsInOrder
<1>6. Evident'
  <2> SUFFICES ASSUME NEW x \in Runs
               PROVE  /\ result'[x] = "Passed" => run'[x] = "ended"
                      /\ run'[x] = "orphan" => result'[x] = "Failed"
                      /\ run'[x] \in {"none", "running"} => result'[x] = "none"
                      /\ x \in proven' => run'[x] = "ended"
                      /\ x \in left' => x[3] = "step" /\ Live(x) /\ run'[x] # "none" /\ x \notin proven'
                      /\ x[3] = "recovery" /\ x \in proven' => <<x[1], x[2], "step">> \in proven'
    BY DEF Evident, Live
  <2>1. x[3] = "recovery" /\ x \in proven' => x \in proven \/ x = r
    <3>1. x[3] = r[3] /\ x[1] = r[1] /\ x[2] = r[2] => x = r
      <4>1. x = <<x[1], x[2], x[3]>> /\ r = <<r[1], r[2], r[3]>>
        BY RunParts
      <4> HIDE DEF Runs
      <4> QED
        BY <4>1, Zenon
    <3> QED
      BY <3>1
  <2> QED
    BY <2>1 DEF CampaignInv, Evident
<1>7. RowsTrue'
  <2>1. \A p \in DOMAIN Phases : \A row \in rows[p] :
          /\ row[1] \in Runs /\ row[1][1] = p /\ run'[row[1]] \in {"ended", "orphan"}
          /\ row[2] \in {"Passed", "Failed"} => result'[row[1]] = row[2]
    BY DEF CampaignInv, RowsTrue
  <2>2. ppc = "child" /\ run'[Step] = "ended" => slot' = Step \/ result'[Step] = "Failed"
    <3> SUFFICES ASSUME ppc = "child", run'[Step] = "ended" PROVE slot' = Step \/ result'[Step] = "Failed"
      OBVIOUS
    <3>1. Step \in Runs /\ Recovery \in Runs /\ Step # Recovery /\ run[Recovery] = "none"
      BY AtStep DEF CampaignInv, CampaignTypes, RunsInOrder, Begun
    <3> QED
      BY <3>1 DEF CampaignInv, RowsTrue, Evident
  <2>3. ppc = "recovery" /\ run'[Recovery] = "ended" => slot' = Recovery \/ result'[Recovery] = "Failed"
    <3> SUFFICES ASSUME ppc = "recovery", run'[Recovery] = "ended" PROVE slot' = Recovery \/ result'[Recovery] = "Failed"
      OBVIOUS
    <3>1. Step \in Runs /\ Recovery \in Runs /\ Step # Recovery /\ run[Step] \in {"ended", "orphan"}
      BY AtStep DEF CampaignInv, CampaignTypes, RunsInOrder
    <3> QED
      BY <3>1 DEF CampaignInv, RowsTrue, Evident
  <2> QED
    BY <1>1, <2>1, <2>2, <2>3 DEF RowsTrue
<1>8. Fenced'
  <2>1. \A k \in Nat : Lost(k)' <=> Lost(k)
    BY <1>1 DEF Lost, Forgetful
  <2>2. ph \in Nat /\ ph + 1 \in Nat
    BY PhasesTyped DEF CampaignInv, CampaignTypes, Positions
  <2>3. \A x \in Runs : Ran(x)' => Ran(x) \/ (r[3] = "recovery" /\ x[1] = r[1])
    BY DEF Ran
  <2>4. Ran(r) /\ (r[3] = "recovery" => Live(r))
    BY DEF Ran, Live
  <2>5. \A x \in Runs, q \in left : apc = "wait" /\ ~Lost(ph) /\ q[1] # ph /\ x[1] = ph /\ Live(x) => ~Ran(x)'
    BY <2>3, <2>4 DEF CampaignInv, Fenced
  <2> QED
    BY <1>1, <2>1, <2>2, <2>5 DEF CampaignInv, Fenced, Live
<1>9. Greens'
  BY <1>1 DEF CampaignInv, Greens, PhaseGood
<1>10. Causes'
  BY <1>1 DEF CampaignInv, Causes, FailedRun
<1> QED
  BY <1>2, <1>5, <1>6, <1>7, <1>8, <1>9, <1>10 DEF CampaignInv, CampaignTypes

LEMMA StepEndsCampaign ==
  ASSUME CampaignInv, NEW r \in Runs, StepEnds(r)
  PROVE  CampaignInv'
<1>1. run[r] = "running" /\ r[3] = "step" /\ UNCHANGED <<allVars, phaseVars, manifest, rows, halt, killed>>
  BY DEF StepEnds
<1>2. run' = [run EXCEPT ![r] = "ended"] /\ slot' = IF r = Step THEN r ELSE slot
  BY DEF StepEnds
<1>3. PICK o \in {"Passed", "Failed"} : result' = [result EXCEPT ![r] = o]
  BY DEF StepEnds
<1>4. \/ left' = left \ {r} /\ proven' = proven \union {r}
      \/ UNCHANGED <<left, proven>> /\ o = "Failed"
  <2>1. result'[r] = o
    BY <1>3 DEF CampaignInv, CampaignTypes, Files
  <2>2. CASE UNCHANGED <<left, proven>> /\ result' = [result EXCEPT ![r] = "Failed"]
    BY <2>1, <2>2 DEF CampaignInv, CampaignTypes, Files
  <2> QED
    BY <2>2 DEF StepEnds
<1>5. r = Recovery => r[3] = "recovery"
  BY DEF Recovery
<1> QED
  BY <1>1, <1>2, <1>3, <1>4, <1>5, ProcessStep DEF CampaignInv, CampaignTypes, Files,
     RunStates, Results

LEMMA StepKilledCampaign ==
  ASSUME CampaignInv, NEW r \in Runs, StepKilled(r)
  PROVE  CampaignInv'
<1>1. /\ run[r] = "running" /\ UNCHANGED <<allVars, phaseVars, left, proven, manifest, slot, rows, halt, killed>>
      /\ run' = [run EXCEPT ![r] = "orphan"] /\ result' = [result EXCEPT ![r] = "Failed"]
  BY DEF StepKilled
<1>2. r \notin proven
  BY <1>1 DEF CampaignInv, Evident
<1> QED
  BY <1>1, <1>2, ProcessStep DEF CampaignInv, CampaignTypes, Files, RunStates, Results

LEMMA OrphanEndsCampaign ==
  ASSUME CampaignInv, NEW r \in Runs, OrphanEnds(r)
  PROVE  CampaignInv'
<1>1. /\ run[r] = "orphan" /\ run' = [run EXCEPT ![r] = "ended"]
      /\ UNCHANGED <<allVars, phaseVars, result, proven, manifest, slot, rows, halt, killed>>
      /\ left' \subseteq left
  BY DEF OrphanEnds
<1>2. r \notin proven /\ result[r] = "Failed"
  BY <1>1 DEF CampaignInv, Evident
<1> QED
  BY <1>1, <1>2, ProcessStep DEF CampaignInv, CampaignTypes, Files, RunStates

LEMMA RecoveryEndsCampaign ==
  ASSUME CampaignInv, NEW r \in Runs, RecoveryEnds(r)
  PROVE  CampaignInv'
<1> DEFINE target == <<r[1], r[2], "step">>
<1>1. /\ run[r] = "running" /\ r[3] = "recovery" /\ UNCHANGED <<allVars, phaseVars, manifest, rows, halt, killed>>
      /\ run' = [run EXCEPT ![r] = "ended"] /\ slot' = IF r = Recovery THEN r ELSE slot
  BY DEF RecoveryEnds
<1>2. \/ /\ run[target] = "ended" /\ left' = left \ {target} /\ proven' = proven \union {target, r}
         /\ result' = [result EXCEPT ![r] = "Passed"]
      \/ /\ result' = [result EXCEPT ![r] = "Failed"] /\ UNCHANGED <<left, proven>>
  BY DEF RecoveryEnds
<1>3. r # Step /\ r # target /\ r \notin proven /\ r \notin left
  <2>1. Step[3] = "step" /\ target[3] = "step"
    BY DEF Step
  <2> HIDE DEF target
  <2> QED
    BY <1>1, <2>1 DEF CampaignInv, Evident
<1>4. target \in Runs /\ target[1] = r[1] /\ target[2] = r[2]
  BY RunsOf, RunParts
<1>5. /\ run' \in [Runs -> RunStates] /\ run'[r] = "ended"
      /\ \A x \in Runs \ {r} : run'[x] = run[x]
  BY <1>1 DEF CampaignInv, CampaignTypes, Files, RunStates
<1>6. CASE /\ run[target] = "ended" /\ left' = left \ {target} /\ proven' = proven \union {target, r}
           /\ result' = [result EXCEPT ![r] = "Passed"]
  <2>1. /\ result' \in [Runs -> Results] /\ result'[r] = "Passed"
        /\ \A x \in Runs \ {r} : result'[x] = result[x]
    BY <1>6 DEF CampaignInv, CampaignTypes, Files, Results
  <2> HIDE DEF target
  <2>2. target \in proven'
    BY <1>6
  <2>3. \A x \in proven' \ proven : run'[x] = "ended" /\ x \notin left'
    BY <1>3, <1>4, <1>5, <1>6
  <2>4. proven' \subseteq proven \cup {r} \cup {x \in Runs : r[3] = "recovery" /\ x[1] = r[1] /\ x[2] = r[2]}
    BY <1>1, <1>4, <1>6
  <2> QED
    BY <1>1, <1>3, <1>5, <1>6, <2>1, <2>2, <2>3, <2>4, ProcessStep DEF target
<1>7. CASE result' = [result EXCEPT ![r] = "Failed"] /\ UNCHANGED <<left, proven>>
  <2>1. /\ result' \in [Runs -> Results] /\ result'[r] = "Failed"
        /\ \A x \in Runs \ {r} : result'[x] = result[x]
    BY <1>7 DEF CampaignInv, CampaignTypes, Files, Results
  <2> QED
    BY <1>1, <1>3, <1>5, <1>7, <2>1, ProcessStep
<1> QED
  BY <1>2, <1>6, <1>7

LEMMA EvidentKept ==
  ASSUME Evident, UNCHANGED <<run, result, left, proven>>
  PROVE  Evident'
BY DEF Evident

LEMMA GreensKept ==
  ASSUME Greens, UNCHANGED <<run, result, left, ended, code, apc>>
  PROVE  Greens'
BY DEF Greens, PhaseGood

LEMMA CausesKept ==
  ASSUME Causes, UNCHANGED <<run, result, causeA, causeP>>
  PROVE  Causes'
BY DEF Causes, FailedRun

LEMMA PhaseNextCampaign ==
  ASSUME CampaignInv, PhaseNext
  PROVE  CampaignInv'
<1> DEFINE new == <<ph, st + 1, "step">>
<1>1. /\ ppc = "next" /\ ppc' \in {"save", "spawn"}
      /\ UNCHANGED <<apc, ph, fenceA, causeA, ended, code, run, result, left, proven,
                     rows, fenceP, causeP, halt, killed>>
  BY DEF PhaseNext, allVars
<1>2. /\ apc = "wait" /\ ph \in 1 .. Len(Phases) /\ ph \in DOMAIN Phases
      /\ st \in Nat /\ st <= Len(Phases[ph]) /\ Len(Phases[ph]) \in Nat
  BY <1>1, PhasesTyped DEF CampaignInv, CampaignTypes, Positions
<1>3. /\ manifest \in [DOMAIN Phases -> SUBSET Runs] /\ DOMAIN manifest = DOMAIN Phases
  BY DEF CampaignInv, CampaignTypes, Files
<1>4. Evident' /\ Greens' /\ Causes'
  BY <1>1, EvidentKept, GreensKept, CausesKept DEF CampaignInv
<1>5. RowsTrue'
  BY <1>1 DEF CampaignInv, RowsTrue
<1>6. CASE (halt # "no" \/ st = Len(Phases[ph])) /\ ppc' = "save" /\ UNCHANGED <<st, slot, manifest>>
  <2>1. Positions' /\ Files'
    BY <1>1, <1>6 DEF CampaignInv, CampaignTypes, Positions, Files
  <2>2. \A x \in Runs : Begun(x)' <=> Begun(x)
    BY <1>1, <1>6 DEF Begun
  <2>3. RunsInOrder'
    BY <1>1, <1>6, <2>2 DEF CampaignInv, RunsInOrder
  <2>4. Fenced'
    BY <1>1, <1>6 DEF CampaignInv, Fenced, Lost, Forgetful, Ran
  <2> QED
    BY <1>4, <1>5, <2>1, <2>3, <2>4 DEF CampaignInv, CampaignTypes
<1>7. CASE halt = "no" /\ st < Len(Phases[ph]) /\ PhaseNext /\ ppc' = "spawn"
  <2>1. st' = st + 1 /\ ppc' = "spawn" /\ manifest' = [manifest EXCEPT ![ph] = @ \union {new}]
    BY <1>7, <1>1 DEF PhaseNext
  <2>2. new \in Runs /\ new[1] = ph
    <3>1. st + 1 \in 1 .. Len(Phases[ph]) /\ "step" \in {"step", "recovery"}
      BY <1>2, <1>7
    <3>2. <<ph, st + 1, "step">> \in Runs
      BY <1>2, <3>1, RunsOf
    <3> QED
      BY <3>2
  <2> HIDE DEF new
  <2>3. /\ manifest' \in [DOMAIN Phases -> SUBSET Runs] /\ manifest'[ph] = manifest[ph] \union {new}
        /\ \A p \in DOMAIN Phases : p # ph => manifest'[p] = manifest[p]
    BY <1>2, <1>3, <2>1, <2>2
  <2>4. Positions' /\ Files'
    BY <1>1, <1>2, <1>7, <2>1, <2>3 DEF CampaignInv, CampaignTypes, Positions, Files
  <2>5. \A x \in Runs : Begun(x) => Begun(x)'
    BY <1>1, <1>2, <2>1, RunParts DEF Begun
  <2>6. \A x \in Runs : x[1] \in DOMAIN Phases
    BY RunParts, PhasesTyped
  <2>7. \A p \in DOMAIN Phases : \A x \in manifest'[p] : x[1] = p /\ p <= ph
    BY <1>2, <2>2, <2>3 DEF CampaignInv, RunsInOrder
  <2>8. \A s \in 1 .. st' : <<ph, s, "step">> \in manifest'[ph]
    <3> SUFFICES ASSUME NEW s \in 1 .. (st + 1) PROVE <<ph, s, "step">> \in manifest'[ph]
      BY <2>1
    <3>1. CASE s \in 1 .. st
      BY <1>1, <1>2, <2>3, <3>1 DEF CampaignInv, RunsInOrder
    <3>2. CASE s = st + 1
      BY <2>3, <3>2 DEF new
    <3> QED
      BY <1>2, <3>1, <3>2
  <2>9. \A x \in Runs : run[x] # "none" => Begun(x)' /\ x \in manifest'[x[1]]
    BY <2>3, <2>5, <2>6 DEF CampaignInv, RunsInOrder
  <2>10. RunsInOrder'
    BY <1>1, <1>2, <2>1, <2>7, <2>8, <2>9 DEF RunsInOrder
  <2>11. Lost(ph)' <=> Lost(ph)
    BY <1>1, <1>2, <2>3, PhasesTyped DEF Lost, Forgetful
  <2>12. Fenced'
    BY <1>1, <1>2, <2>1, <2>11 DEF CampaignInv, Fenced, Ran
  <2> QED
    BY <1>4, <1>5, <2>4, <2>10, <2>12 DEF CampaignInv, CampaignTypes
<1> QED
  BY <1>6, <1>7 DEF PhaseNext

LEMMA SpawnStepCampaign ==
  ASSUME CampaignInv, SpawnStep
  PROVE  CampaignInv'
<1>1. /\ ppc = "spawn" /\ ppc' = "child"
      /\ UNCHANGED <<apc, ph, fenceA, causeA, ended, code, proven, manifest, rows, st, fenceP, causeP,
                     halt, killed>>
      /\ Step' = Step /\ Recovery' = Recovery
  BY DEF SpawnStep, allVars, Step, Recovery
<1>2. /\ apc = "wait" /\ ph \in 1 .. Len(Phases) /\ st \in 1 .. Len(Phases[ph]) /\ ph \in DOMAIN Phases
      /\ Step \in Runs /\ Step[1] = ph /\ Step[2] = st /\ Step[3] = "step"
      /\ \A x \in Runs : x[1] = ph /\ x[2] = st => x \in {Step, Recovery}
      /\ Step \in manifest[ph]
  <2>1. Step = <<ph, st, "step">>
    BY DEF Step
  <2> QED
    BY <1>1, <2>1, AtStep DEF CampaignInv, CampaignTypes, RunsInOrder
<1>3. run[Step] = "none" /\ result[Step] = "none" /\ Step \notin proven /\ Step \notin left
  <2>1. ~Begun(Step)
    BY <1>1, <1>2 DEF Begun
  <2> QED
    BY <1>2, <2>1 DEF CampaignInv, RunsInOrder, Evident
<1>4. /\ run' \in [Runs -> RunStates] /\ result' \in [Runs -> Results]
      /\ run'[Step] = IF Refused THEN "ended" ELSE "running"
      /\ result'[Step] = IF Refused THEN "Blocked" ELSE "none"
      /\ \A x \in Runs : x # Step => run'[x] = run[x] /\ result'[x] = result[x]
  <2>1. run' = [run EXCEPT ![Step] = IF Refused THEN "ended" ELSE "running"]
    BY DEF SpawnStep
  <2>2. result' = [result EXCEPT ![Step] = IF Refused THEN "Blocked" ELSE @]
    BY DEF SpawnStep
  <2>3. run \in [Runs -> RunStates] /\ result \in [Runs -> Results]
    BY DEF CampaignInv, CampaignTypes, Files
  <2>4. /\ run' \in [Runs -> RunStates] /\ run'[Step] = IF Refused THEN "ended" ELSE "running"
        /\ \A x \in Runs : x # Step => run'[x] = run[x]
    BY <1>2, <2>1, <2>3 DEF RunStates
  <2>5. /\ result' \in [Runs -> Results] /\ result'[Step] = IF Refused THEN "Blocked" ELSE "none"
        /\ \A x \in Runs : x # Step => result'[x] = result[x]
    BY <1>2, <1>3, <2>2, <2>3 DEF Results
  <2> QED
    BY <2>4, <2>5
<1>5. /\ slot' = IF Refused THEN Step ELSE slot
      /\ left' = IF Live(Step) /\ ~Refused THEN left \union {Step} ELSE left
  BY DEF SpawnStep
<1>6. Refused <=> Live(Step) /\ fenceP
  BY DEF Refused
<1> HIDE DEF Refused
<1>7. Positions' /\ Files'
  <2>1. Positions'
    BY <1>1 DEF CampaignInv, CampaignTypes, Positions
  <2> QED
    BY <1>1, <1>2, <1>4, <1>5, <2>1 DEF CampaignInv, CampaignTypes, Files
<1>8. RunsInOrder'
  <2>1. \A x \in Runs : x = Step \/ Begun(x) => Begun(x)'
    BY <1>1, <1>2 DEF Begun
  <2>2. ASSUME NEW x \in Runs, run'[x] # "none" PROVE Begun(x)' /\ x \in manifest[x[1]]
    <3>1. CASE x = Step
      BY <1>2, <2>1, <3>1
    <3>2. CASE x # Step
      BY <1>4, <2>1, <2>2, <3>2 DEF CampaignInv, RunsInOrder
    <3> QED
      BY <3>1, <3>2
  <2>3. run'[Step] # "none"
    BY <1>4
  <2> QED
    BY <1>1, <1>2, <2>2, <2>3 DEF CampaignInv, RunsInOrder
<1>9. Evident'
  <2> SUFFICES ASSUME NEW x \in Runs
               PROVE  /\ result'[x] = "Passed" => run'[x] = "ended"
                      /\ run'[x] = "orphan" => result'[x] = "Failed"
                      /\ run'[x] \in {"none", "running"} => result'[x] = "none"
                      /\ x \in proven' => run'[x] = "ended"
                      /\ x \in left' => x[3] = "step" /\ Live(x) /\ run'[x] # "none" /\ x \notin proven'
                      /\ x[3] = "recovery" /\ x \in proven' => <<x[1], x[2], "step">> \in proven'
    BY DEF Evident, Live
  <2>1. CASE x = Step
    BY <1>1, <1>2, <1>3, <1>4, <1>5, <2>1
  <2>2. CASE x # Step
    <3>1. x \in left' => x \in left
      BY <1>5, <2>2
    <3> QED
      BY <1>1, <1>4, <2>2, <3>1 DEF CampaignInv, Evident
  <2> QED
    BY <2>1, <2>2
<1>10. RowsTrue'
  <2>1. \A p \in DOMAIN Phases : \A row \in rows[p] :
          /\ row[1] \in Runs /\ row[1][1] = p /\ run'[row[1]] \in {"ended", "orphan"}
          /\ row[2] \in {"Passed", "Failed"} => result'[row[1]] = row[2]
    BY <1>3, <1>4 DEF CampaignInv, RowsTrue
  <2>2. run'[Step] = "ended" => slot' = Step
    BY <1>4, <1>5
  <2> QED
    BY <1>1, <2>1, <2>2 DEF RowsTrue
<1>11. Fenced'
  <2>1. Lost(ph)' <=> Lost(ph)
    BY <1>1 DEF Lost, Forgetful
  <2>2. ~Lost(ph) /\ ~fenceP => left' \subseteq {Step}
    BY <1>1, <1>2, <1>5 DEF CampaignInv, Fenced
  <2>3. ASSUME ~Lost(ph), NEW r \in left', NEW x \in Runs, r[1] # ph, x[1] = ph, Live(x)
        PROVE  ~Ran(x)'
    <3>1. r \in left /\ (x # Step => ~Ran(x))
      BY <1>1, <1>2, <1>5, <2>3 DEF CampaignInv, Fenced
    <3>2. x = Step => run'[x] = "ended" /\ x \notin proven'
      BY <1>1, <1>2, <1>3, <1>4, <1>6, <2>3, <3>1 DEF CampaignInv, Fenced
    <3> QED
      BY <1>1, <1>4, <3>1, <3>2 DEF Ran
  <2> QED
    BY <1>1, <1>2, <2>1, <2>2, <2>3 DEF Fenced, Live
<1>12. Greens'
  <2>1. \A i \in 1 .. Len(ended) : ended[i] = "Passed" => PhaseGood(i)'
    <3> SUFFICES ASSUME NEW i \in 1 .. Len(ended), ended[i] = "Passed" PROVE PhaseGood(i)'
      OBVIOUS
    <3>1. PhaseGood(i) /\ i # ph
      BY <1>1, <1>2 DEF CampaignInv, CampaignTypes, Positions, Greens
    <3> QED
      BY <1>2, <1>4, <1>5, <3>1 DEF PhaseGood
  <2> QED
    BY <1>1, <1>2, <2>1 DEF CampaignInv, Greens
<1>13. Causes'
  BY <1>1, <1>3, <1>4 DEF CampaignInv, Causes, FailedRun
<1> QED
  BY <1>7, <1>8, <1>9, <1>10, <1>11, <1>12, <1>13 DEF CampaignInv, CampaignTypes

LEMMA SpawnRecoveryCampaign ==
  ASSUME CampaignInv, SpawnRecovery
  PROVE  CampaignInv'
<1>1. /\ ppc = "recover" /\ ppc' = "recovery"
      /\ UNCHANGED <<apc, ph, fenceA, causeA, ended, code, result, left, proven, manifest, slot, rows, st,
                     fenceP, causeP, halt, killed>>
      /\ run' = [run EXCEPT ![Recovery] = "running"]
      /\ Step' = Step /\ Recovery' = Recovery
  BY DEF SpawnRecovery, allVars, Step, Recovery
<1>2. /\ apc = "wait" /\ ph \in 1 .. Len(Phases) /\ st \in 1 .. Len(Phases[ph]) /\ ph \in DOMAIN Phases
      /\ Step \in Runs /\ Recovery \in Runs /\ Step # Recovery
      /\ Recovery[1] = ph /\ Recovery[2] = st /\ Recovery[3] = "recovery" /\ Step[1] = ph
      /\ Recovery \in manifest[ph]
  BY <1>1, AtStep DEF CampaignInv, CampaignTypes, RunsInOrder
<1>3. run[Recovery] = "none" /\ result[Recovery] = "none" /\ Recovery \notin proven /\ Recovery \notin left
  <2>1. ~Begun(Recovery)
    BY <1>1, <1>2 DEF Begun
  <2> QED
    BY <1>2, <2>1 DEF CampaignInv, RunsInOrder, Evident
<1>4. /\ run' \in [Runs -> RunStates] /\ run'[Recovery] = "running"
      /\ \A x \in Runs : x # Recovery => run'[x] = run[x]
  BY <1>1, <1>2 DEF CampaignInv, CampaignTypes, Files, RunStates
<1>5. Positions' /\ Files'
  <2>1. Positions'
    BY <1>1 DEF CampaignInv, CampaignTypes, Positions
  <2> QED
    BY <1>1, <1>4, <2>1 DEF CampaignInv, CampaignTypes, Files
<1>6. RunsInOrder'
  <2>1. \A x \in Runs : x = Recovery \/ Begun(x) => Begun(x)'
    BY <1>1, <1>2 DEF Begun
  <2>2. ASSUME NEW x \in Runs, run'[x] # "none" PROVE Begun(x)' /\ x \in manifest[x[1]]
    <3>1. CASE x = Recovery
      BY <1>2, <2>1, <3>1
    <3>2. CASE x # Recovery
      BY <1>4, <2>1, <2>2, <3>2 DEF CampaignInv, RunsInOrder
    <3> QED
      BY <3>1, <3>2
  <2>3. run'[Step] \in {"ended", "orphan"}
    BY <1>1, <1>2, <1>4 DEF CampaignInv, RunsInOrder
  <2> QED
    BY <1>1, <1>2, <2>2, <2>3 DEF CampaignInv, RunsInOrder
<1>7. Evident'
  <2> SUFFICES ASSUME NEW x \in Runs
               PROVE  /\ result'[x] = "Passed" => run'[x] = "ended"
                      /\ run'[x] = "orphan" => result'[x] = "Failed"
                      /\ run'[x] \in {"none", "running"} => result'[x] = "none"
                      /\ x \in proven' => run'[x] = "ended"
                      /\ x \in left' => x[3] = "step" /\ Live(x) /\ run'[x] # "none" /\ x \notin proven'
                      /\ x[3] = "recovery" /\ x \in proven' => <<x[1], x[2], "step">> \in proven'
    BY DEF Evident, Live
  <2>1. CASE x = Recovery
    BY <1>1, <1>2, <1>3, <1>4, <2>1
  <2>2. CASE x # Recovery
    BY <1>1, <1>4, <2>2 DEF CampaignInv, Evident
  <2> QED
    BY <2>1, <2>2
<1>8. RowsTrue'
  <2>1. \A p \in DOMAIN Phases : \A row \in rows[p] :
          /\ row[1] \in Runs /\ row[1][1] = p /\ run'[row[1]] \in {"ended", "orphan"}
          /\ row[2] \in {"Passed", "Failed"} => result'[row[1]] = row[2]
    BY <1>1, <1>3, <1>4 DEF CampaignInv, RowsTrue
  <2> QED
    BY <1>1, <1>4, <2>1 DEF RowsTrue
<1>9. Fenced'
  <2>1. Lost(ph)' <=> Lost(ph)
    BY <1>1 DEF Lost, Forgetful
  <2>2. ~Lost(ph) => \A r \in left : r[1] = ph
    BY <1>1, <1>2 DEF CampaignInv, Fenced
  <2> QED
    BY <1>1, <1>2, <2>1, <2>2 DEF CampaignInv, Fenced
<1>10. Greens'
  <2>1. \A i \in 1 .. Len(ended) : ended[i] = "Passed" => PhaseGood(i)'
    <3> SUFFICES ASSUME NEW i \in 1 .. Len(ended), ended[i] = "Passed" PROVE PhaseGood(i)'
      OBVIOUS
    <3>1. PhaseGood(i) /\ i # ph
      BY <1>1, <1>2 DEF CampaignInv, CampaignTypes, Positions, Greens
    <3> QED
      BY <1>1, <1>2, <1>4, <3>1 DEF PhaseGood
  <2> QED
    BY <1>1, <1>2, <2>1 DEF CampaignInv, Greens
<1>11. Causes'
  BY <1>1, <1>3, <1>4 DEF CampaignInv, Causes, FailedRun
<1> QED
  BY <1>5, <1>6, <1>7, <1>8, <1>9, <1>10, <1>11 DEF CampaignInv, CampaignTypes

\* What a phase coordinator notes of a run that is over is true.
LEMMA CollectedTrue ==
  ASSUME CampaignInv, NEW r \in Runs, r[1] = ph, ph \in DOMAIN Phases,
         run[r] \in {"ended", "orphan"},
         run[r] = "ended" => slot = r \/ result[r] = "Failed",
         Collected(r), UNCHANGED <<run, result>>
  PROVE  /\ rows' \in [DOMAIN Phases -> SUBSET (Runs \X Results)]
         /\ \A p \in DOMAIN Phases : \A row \in rows'[p] :
              /\ row[1] \in Runs /\ row[1][1] = p /\ run'[row[1]] \in {"ended", "orphan"}
              /\ row[2] \in {"Passed", "Failed"} => result'[row[1]] = row[2]
         /\ ChildEvidence(r) \in {"Passed", "Failed"} => result[r] = ChildEvidence(r)
<1>1. /\ rows \in [DOMAIN Phases -> SUBSET (Runs \X Results)] /\ result[r] \in Results
      /\ run[r] = "orphan" => result[r] = "Failed"
  BY DEF CampaignInv, CampaignTypes, Files, Evident
<1>2. ChildEvidence(r) \in Results /\ (ChildEvidence(r) \in {"Passed", "Failed"} => result[r] = ChildEvidence(r))
  BY <1>1 DEF ChildEvidence, Results
<1> DEFINE new == <<r, ChildEvidence(r)>>
<1>3. new \in Runs \X Results /\ new[1] = r /\ new[2] = ChildEvidence(r)
  BY <1>2
<1>4. rows' = [rows EXCEPT ![ph] = @ \union {new}]
  BY DEF Collected
<1> HIDE DEF new
<1>5. /\ rows' \in [DOMAIN Phases -> SUBSET (Runs \X Results)]
      /\ rows'[ph] = rows[ph] \union {new} /\ \A p \in DOMAIN Phases : p # ph => rows'[p] = rows[p]
  BY <1>1, <1>3, <1>4
<1>6. ASSUME NEW p \in DOMAIN Phases, NEW row \in rows'[p]
      PROVE  /\ row[1] \in Runs /\ row[1][1] = p /\ run'[row[1]] \in {"ended", "orphan"}
             /\ row[2] \in {"Passed", "Failed"} => result'[row[1]] = row[2]
  <2>1. CASE row = new /\ p = ph
    BY <1>2, <1>3, <2>1
  <2>2. CASE row \in rows[p]
    BY <2>2 DEF CampaignInv, RowsTrue
  <2> QED
    BY <1>5, <2>1, <2>2
<1> QED
  BY <1>2, <1>5, <1>6

LEMMA StepTakenCampaign ==
  ASSUME CampaignInv, StepTaken
  PROVE  CampaignInv'
<1> DEFINE open == Live(Step) /\ Step \notin proven
           recover == open /\ ~fenceP /\ halt # "CANCELLED"
<1>1. /\ ppc = "child" /\ run[Step] \in {"ended", "orphan"} /\ Collected(Step)
      /\ UNCHANGED <<apc, ph, fenceA, causeA, ended, code, run, result, left, proven, st, halt, killed>>
      /\ Step' = Step /\ Recovery' = Recovery
  BY DEF StepTaken, allVars, Step, Recovery
<1>2. /\ fenceP' <=> (fenceP \/ open)
      /\ ppc' = IF recover THEN "recover" ELSE "next"
      /\ manifest' = IF recover THEN [manifest EXCEPT ![ph] = @ \union {Recovery}] ELSE manifest
  BY Zenon DEF StepTaken
<1>3. causeP' = IF open
                THEN InheritRecoveryCause(causeP, IF ChildEvidence(Step) = "Failed" THEN {Step} ELSE {})
                ELSE causeP
  BY Zenon DEF StepTaken
<1>4. /\ apc = "wait" /\ ph \in 1 .. Len(Phases) /\ st \in 1 .. Len(Phases[ph]) /\ ph \in DOMAIN Phases
      /\ Step \in Runs /\ Recovery \in Runs /\ Recovery[1] = ph
      /\ Step[1] = ph /\ Step[2] = st /\ Step[3] = "step"
  BY <1>1, AtStep DEF CampaignInv, CampaignTypes
<1>5. /\ rows' \in [DOMAIN Phases -> SUBSET (Runs \X Results)]
      /\ \A p \in DOMAIN Phases : \A row \in rows'[p] :
           /\ row[1] \in Runs /\ row[1][1] = p /\ run'[row[1]] \in {"ended", "orphan"}
           /\ row[2] \in {"Passed", "Failed"} => result'[row[1]] = row[2]
      /\ ChildEvidence(Step) \in {"Passed", "Failed"} => result[Step] = ChildEvidence(Step)
  <2>1. run[Step] = "ended" => slot = Step \/ result[Step] = "Failed"
    BY <1>1 DEF CampaignInv, RowsTrue
  <2> QED
    BY <1>1, <1>4, <2>1, CollectedTrue
<1>6. open \/ Step \notin left
  BY <1>4 DEF CampaignInv, Evident
<1> HIDE DEF open
<1>7. /\ manifest' \in [DOMAIN Phases -> SUBSET Runs]
      /\ \A p \in DOMAIN Phases : p # ph => manifest'[p] = manifest[p]
      /\ manifest[ph] \subseteq manifest'[ph] /\ manifest'[ph] \subseteq manifest[ph] \union {Recovery}
      /\ recover => Recovery \in manifest'[ph]
  <2>1. manifest \in [DOMAIN Phases -> SUBSET Runs]
    BY DEF CampaignInv, CampaignTypes, Files
  <2> QED
    BY <1>2, <1>4, <2>1
<1> HIDE DEF recover
<1>8. Positions' /\ Files'
  <2>1. Positions'
    BY <1>1, <1>2, <1>4 DEF CampaignInv, CampaignTypes, Positions
  <2> QED
    BY <1>1, <1>5, <1>7, <2>1 DEF CampaignInv, CampaignTypes, Files
<1>9. RunsInOrder'
  <2>1. \A x \in Runs : Begun(x) => Begun(x)'
    BY <1>1, <1>2 DEF Begun
  <2>2. \A x \in Runs : x[1] \in DOMAIN Phases
    BY RunParts, PhasesTyped
  <2>3. \A x \in Runs : run'[x] # "none" => Begun(x)' /\ x \in manifest'[x[1]]
    BY <1>1, <1>7, <2>1, <2>2 DEF CampaignInv, RunsInOrder
  <2>4. \A p \in DOMAIN Phases : \A x \in manifest'[p] : x[1] = p /\ p <= ph
    BY <1>4, <1>7 DEF CampaignInv, RunsInOrder
  <2>5. \A s \in 1 .. st : <<ph, s, "step">> \in manifest'[ph]
    BY <1>4, <1>7 DEF CampaignInv, RunsInOrder
  <2>6. ppc' = "recover" => Recovery \in manifest'[ph]
    BY <1>2, <1>7
  <2> QED
    BY <1>1, <1>2, <1>4, <2>3, <2>4, <2>5, <2>6 DEF RunsInOrder
<1>10. RowsTrue'
  BY <1>1, <1>2, <1>5 DEF RowsTrue
<1>11. Fenced'
  <2>1. Lost(ph)' <=> Lost(ph)
    BY <1>1, <1>4, <1>7, PhasesTyped DEF Lost, Forgetful
  <2>2. ~Lost(ph) /\ ~fenceP => left \subseteq {Step}
    BY <1>1, <1>4 DEF CampaignInv, Fenced
  <2>3. recover => open /\ ~fenceP
    BY DEF recover
  <2>4. ~Lost(ph) => \A r \in left, x \in Runs : r[1] # ph /\ x[1] = ph /\ Live(x) => ~Ran(x)'
    BY <1>1, <1>4 DEF CampaignInv, Fenced, Ran
  <2>5. ppc' = "next" /\ ~fenceP' /\ ~Lost(ph) => left = {}
    BY <1>2, <1>6, <2>2
  <2>6. ppc' = "recover" /\ ~Lost(ph) => left \subseteq {Step} /\ fenceP'
    BY <1>2, <2>2, <2>3
  <2>7. ppc' \in {"next", "recover"}
    BY <1>2
  <2> QED
    BY <1>1, <1>4, <2>1, <2>4, <2>5, <2>6, <2>7 DEF Fenced
<1>12. Evident' /\ Greens'
  BY <1>1, EvidentKept, GreensKept DEF CampaignInv
<1>13. Causes'
  <2>1. causeP' \in {causeP, NoRun} \/ (causeP' = Step /\ FailedRun(Step))
    <3>1. CASE ~open
      <4>1. causeP' = causeP
        BY <1>3, <3>1, Zenon
      <4> QED
        BY <4>1
    <3>2. CASE open /\ ChildEvidence(Step) = "Failed"
      <4>1. FailedRun(Step)
        BY <1>1, <1>4, <1>5, <3>2 DEF FailedRun
      <4>2. (CHOOSE r \in {Step} : \A q \in {Step} : r[2] <= q[2]) = Step
        <5>1. \A q \in {Step} : Step[2] <= q[2]
          BY <1>4, PhasesTyped
        <5> QED
          BY <5>1
      <4> QED
        BY <1>3, <3>2, <4>1, <4>2 DEF InheritRecoveryCause
    <3>3. CASE open /\ ChildEvidence(Step) # "Failed"
      <4>1. causeP' = InheritRecoveryCause(causeP, {})
        BY <1>3, <3>3, Zenon
      <4>2. causeP' \in {causeP, NoRun}
        BY <4>1 DEF InheritRecoveryCause
      <4> QED
        BY <4>2
    <3> QED
      BY <3>1, <3>2, <3>3
  <2> QED
    BY <1>1, <2>1 DEF CampaignInv, Causes, FailedRun
<1> QED
  BY <1>8, <1>9, <1>10, <1>11, <1>12, <1>13 DEF CampaignInv, CampaignTypes

LEMMA RecoveryTakenCampaign ==
  ASSUME CampaignInv, RecoveryTaken
  PROVE  CampaignInv'
<1>1. /\ ppc = "recovery" /\ ppc' = "next" /\ run[Recovery] \in {"ended", "orphan"} /\ Collected(Recovery)
      /\ UNCHANGED <<apc, ph, fenceA, causeA, ended, code, run, result, left, proven, manifest, slot, st,
                     halt, killed>>
      /\ Step' = Step /\ Recovery' = Recovery
  BY DEF RecoveryTaken, allVars, Step, Recovery
<1>2. /\ ~fenceP' => ~fenceP \/ Recovery \in proven
      /\ causeP' \in {causeP, NoRun}
  BY DEF RecoveryTaken
<1>3. /\ apc = "wait" /\ ph \in 1 .. Len(Phases) /\ st \in 1 .. Len(Phases[ph]) /\ ph \in DOMAIN Phases
      /\ Step \in Runs /\ Recovery \in Runs /\ Recovery[1] = ph /\ Recovery[3] = "recovery"
      /\ Step = <<Recovery[1], Recovery[2], "step">>
  <2>1. Step = <<ph, st, "step">>
    BY DEF Step
  <2> QED
    BY <1>1, <2>1, AtStep DEF CampaignInv, CampaignTypes
<1>4. /\ rows' \in [DOMAIN Phases -> SUBSET (Runs \X Results)]
      /\ \A p \in DOMAIN Phases : \A row \in rows'[p] :
           /\ row[1] \in Runs /\ row[1][1] = p /\ run'[row[1]] \in {"ended", "orphan"}
           /\ row[2] \in {"Passed", "Failed"} => result'[row[1]] = row[2]
  <2>1. run[Recovery] = "ended" => slot = Recovery \/ result[Recovery] = "Failed"
    BY <1>1 DEF CampaignInv, RowsTrue
  <2> QED
    BY <1>1, <1>3, <2>1, CollectedTrue
<1>5. Positions' /\ Files'
  <2>1. Positions'
    BY <1>1, <1>3 DEF CampaignInv, CampaignTypes, Positions
  <2> QED
    BY <1>1, <1>4, <2>1 DEF CampaignInv, CampaignTypes, Files
<1>6. RunsInOrder'
  <2>1. \A x \in Runs : Begun(x) => Begun(x)'
    BY <1>1 DEF Begun
  <2> QED
    BY <1>1, <1>3, <2>1 DEF CampaignInv, RunsInOrder
<1>7. RowsTrue'
  BY <1>1, <1>4 DEF RowsTrue
<1>8. Fenced'
  <2>1. Lost(ph)' <=> Lost(ph)
    BY <1>1 DEF Lost, Forgetful
  <2>2. Recovery \in proven => Step \notin left
    BY <1>3 DEF CampaignInv, Evident
  <2>3. ~Lost(ph) => left \subseteq {Step} /\ fenceP
    BY <1>1, <1>3 DEF CampaignInv, Fenced
  <2>4. ~Lost(ph) => \A r \in left, x \in Runs : r[1] # ph /\ x[1] = ph /\ Live(x) => ~Ran(x)'
    BY <1>1, <1>3 DEF CampaignInv, Fenced, Ran
  <2> QED
    BY <1>1, <1>2, <1>3, <2>1, <2>2, <2>3, <2>4 DEF Fenced
<1>9. Evident' /\ Greens'
  BY <1>1, EvidentKept, GreensKept DEF CampaignInv
<1>10. Causes'
  BY <1>1, <1>2 DEF CampaignInv, Causes, FailedRun
<1> QED
  BY <1>5, <1>6, <1>7, <1>8, <1>9, <1>10 DEF CampaignInv, CampaignTypes

LEMMA SavePhaseCampaign ==
  ASSUME CampaignInv, SavePhase
  PROVE  CampaignInv'
<1>1. /\ ppc = "save" /\ ppc' = "done"
      /\ UNCHANGED <<apc, ph, fenceA, causeA, ended, code, st, fenceP, causeP, run, result, left, proven,
                     manifest, slot, rows, halt, killed>>
  BY DEF SavePhase, allVars
<1>2. Positions' /\ Files'
  BY <1>1 DEF CampaignInv, CampaignTypes, Positions, Files
<1>3. RunsInOrder'
  <2>1. \A x \in Runs : Begun(x)' <=> Begun(x)
    BY <1>1 DEF Begun
  <2> QED
    BY <1>1, <2>1 DEF CampaignInv, RunsInOrder
<1>4. RowsTrue' /\ Fenced'
  BY <1>1 DEF CampaignInv, RowsTrue, Fenced, Ran, Lost, Forgetful
<1>5. Evident' /\ Greens' /\ Causes'
  BY <1>1, EvidentKept, GreensKept, CausesKept DEF CampaignInv
<1> QED
  BY <1>2, <1>3, <1>4, <1>5 DEF CampaignInv, CampaignTypes

LEMMA PhaseKilledCampaign ==
  ASSUME CampaignInv, PhaseKilled
  PROVE  CampaignInv'
<1>1. /\ ppc \notin {"none", "done", "dead"} /\ ppc' = "dead" /\ killed' = killed \union {ph}
      /\ UNCHANGED <<apc, ph, fenceA, causeA, ended, code, st, fenceP, causeP, run, result, left, proven,
                     manifest, slot, rows, halt>>
  BY DEF PhaseKilled, allVars
<1>2. apc = "wait" /\ ph \in 1 .. Len(Phases) /\ ph \in DOMAIN Phases
  BY <1>1, PhasesTyped DEF CampaignInv, CampaignTypes, Positions
<1>3. Positions' /\ Files'
  BY <1>1, <1>2 DEF CampaignInv, CampaignTypes, Positions, Files
<1>4. RunsInOrder'
  <2>1. \A x \in Runs : Begun(x) => Begun(x)'
    BY <1>1 DEF Begun
  <2> QED
    BY <1>1, <2>1 DEF CampaignInv, RunsInOrder
<1>5. RowsTrue'
  BY <1>1 DEF CampaignInv, RowsTrue
<1>6. Fenced'
  <2>1. Lost(ph)' <=> Lost(ph)
    BY <1>1, <1>2, PhasesTyped DEF Lost, Forgetful
  <2> QED
    BY <1>1, <1>2, <2>1 DEF CampaignInv, Fenced, Ran
<1>7. Evident' /\ Greens' /\ Causes'
  BY <1>1, EvidentKept, GreensKept, CausesKept DEF CampaignInv
<1> QED
  BY <1>3, <1>4, <1>5, <1>6, <1>7 DEF CampaignInv, CampaignTypes

LEMMA AllNextCampaign ==
  ASSUME CampaignInv, AllNext
  PROVE  CampaignInv'
<1>1. /\ apc = "next"
      /\ UNCHANGED <<run, result, left, proven, manifest, slot, rows, fenceA, causeA, halt, ended, killed,
                     code>>
  BY DEF AllNext
<1>2. \/ apc' = "save" /\ UNCHANGED <<ph, ppc, st, fenceP, causeP>>
      \/ /\ halt = "no" /\ ph < Len(Phases) /\ ph' = ph + 1 /\ apc' = "wait" /\ ppc' = "next" /\ st' = 0
         /\ fenceP' = fenceA /\ causeP' = causeA
  BY DEF AllNext, phaseVars
<1>3. /\ ph \in Nat /\ ph <= Len(Phases) /\ Len(Phases) \in Nat
      /\ ppc \in {"none", "done", "dead"} /\ Len(ended) = ph /\ code # 0
  BY <1>1, PhasesTyped DEF CampaignInv, CampaignTypes, Positions, Greens
<1>4. Evident'
  BY <1>1, EvidentKept DEF CampaignInv
<1>5. Greens'
  BY <1>1, <1>3 DEF CampaignInv, Greens, PhaseGood
<1>6. Causes'
  BY <1>1, <1>2 DEF CampaignInv, Causes, FailedRun
<1>7. CASE apc' = "save" /\ UNCHANGED <<ph, ppc, st, fenceP, causeP>>
  <2>1. Positions' /\ Files'
    BY <1>1, <1>7 DEF CampaignInv, CampaignTypes, Positions, Files
  <2>2. RunsInOrder'
    <3>1. \A x \in Runs : Begun(x) => Begun(x)'
      BY <1>7 DEF Begun
    <3> QED
      BY <1>1, <1>3, <1>7, <3>1 DEF CampaignInv, RunsInOrder
  <2>3. RowsTrue' /\ Fenced'
    BY <1>1, <1>3, <1>7 DEF CampaignInv, RowsTrue, Fenced
  <2> QED
    BY <1>4, <1>5, <1>6, <2>1, <2>2, <2>3 DEF CampaignInv, CampaignTypes
<1>8. CASE /\ halt = "no" /\ ph < Len(Phases) /\ ph' = ph + 1 /\ apc' = "wait" /\ ppc' = "next" /\ st' = 0
           /\ fenceP' = fenceA /\ causeP' = causeA
  <2>1. Positions'
    <3>1. ph + 1 \in DOMAIN Phases /\ Len(Phases[ph + 1]) \in Nat
      BY <1>3, <1>8, PhasesTyped
    <3> QED
      BY <1>1, <1>3, <1>8, <3>1 DEF CampaignInv, CampaignTypes, Positions
  <2>2. Files'
    BY <1>1 DEF CampaignInv, CampaignTypes, Files
  <2>3. ASSUME NEW x \in Runs, run[x] # "none" PROVE x[1] < ph + 1 /\ Begun(x)'
    BY <1>3, <1>8, <2>3, RunParts DEF CampaignInv, RunsInOrder, Begun
  <2>4. RunsInOrder'
    <3>1. \A p \in DOMAIN Phases : \A x \in manifest[p] : x[1] = p /\ p <= ph + 1
      BY <1>3, PhasesTyped DEF CampaignInv, RunsInOrder
    <3>2. \A x \in Runs : run[x] # "none" => Begun(x)' /\ x \in manifest[x[1]]
      BY <2>3 DEF CampaignInv, RunsInOrder
    <3> QED
      BY <1>1, <1>8, <3>1, <3>2 DEF RunsInOrder
  <2>5. RowsTrue'
    BY <1>1, <1>8 DEF CampaignInv, RowsTrue
  <2>6. Fenced'
    <3>1. Lost(ph)' <=> Lost(ph + 1)
      BY <1>1, <1>8 DEF Lost, Forgetful
    <3>2. \A x \in Runs : x[1] = ph + 1 => run[x] = "none"
      BY <1>3, <2>3
    <3>3. \A x \in Runs : x[1] = ph + 1 => ~Ran(x)'
      BY <1>1, <3>2 DEF CampaignInv, Evident, Ran
    <3>4. ~Lost(ph + 1) /\ ~fenceP' => left = {}
      BY <1>1, <1>8 DEF CampaignInv, Fenced
    <3> QED
      BY <1>1, <1>8, <3>1, <3>3, <3>4 DEF Fenced
  <2> QED
    BY <1>4, <1>5, <1>6, <2>1, <2>2, <2>4, <2>5, <2>6 DEF CampaignInv, CampaignTypes
<1> QED
  BY <1>2, <1>7, <1>8

LEMMA MinimumExists ==
  ASSUME NEW T, T \subseteq Nat, T # {}
  PROVE  \E m \in T : \A n \in T : m <= n
<1> DEFINE less == OpToRel(<, Nat)
<1>1. IsWellFoundedOn(less, Nat)
  BY NatLessThanWellFounded
<1>2. \A m, n \in Nat : n < m => <<n, m>> \in less
  BY DEF OpToRel
<1> HIDE DEF less
<1>3. PICK m \in T : \A n \in T : ~(<<n, m>> \in less)
  BY <1>1, WFMin
<1>4. ASSUME NEW n \in T PROVE m <= n
  <2>1. ~(n < m)
    BY <1>2, <1>3
  <2> QED
    BY <2>1
<1> QED
  BY <1>4

\* The inherited cause is the one there was, none, or one of the failures.
LEMMA InheritedCause ==
  ASSUME NEW failures, failures \subseteq Runs, NEW cause
  PROVE  InheritRecoveryCause(cause, failures) \in {cause, NoRun} \union failures
<1>1. CASE cause # NoRun \/ failures = {}
  BY <1>1 DEF InheritRecoveryCause
<1>2. CASE cause = NoRun /\ failures # {}
  <2> DEFINE steps == {r[2] : r \in failures}
  <2>1. steps \subseteq Nat /\ steps # {}
    BY <1>2, RunParts
  <2>2. \E m \in steps : \A n \in steps : m <= n
    <3> HIDE DEF steps
    <3> QED
      BY <2>1, MinimumExists
  <2>3. \E r \in failures : \A q \in failures : r[2] <= q[2]
    BY <2>2
  <2>4. (CHOOSE r \in failures : \A q \in failures : r[2] <= q[2]) \in failures
    BY <2>3
  <2>5. InheritRecoveryCause(cause, failures) = CHOOSE r \in failures : \A q \in failures : r[2] <= q[2]
    BY <1>2, Zenon DEF InheritRecoveryCause
  <2> QED
    BY <2>4, <2>5
<1> QED
  BY <1>1, <1>2

LEMMA PhaseTakenCampaign ==
  ASSUME CampaignInv, PhaseTaken
  PROVE  CampaignInv'
<1> DEFINE failures == {r \in Runs : /\ r[1] = ph /\ <<r, "Failed">> \in rows[ph] /\ r \notin proven}
           outcome == IF ppc = "done" THEN PhaseOutcome(ph)
                      ELSE IF halt = "CANCELLED" THEN "Blocked" ELSE "Failed"
<1>1. /\ apc = "wait" /\ apc' = "next" /\ ppc \in {"done", "dead"}
      /\ UNCHANGED <<ph, code, ppc, st, fenceP, causeP, run, result, left, proven, manifest, slot, rows,
                     halt, killed>>
      /\ Step' = Step /\ Recovery' = Recovery
  BY DEF PhaseTaken, PhaseOver, phaseVars, Step, Recovery
<1>2. fenceA' <=> ~AssessRunCleanup(ph)
  BY Zenon DEF PhaseTaken
<1>3. \/ causeA' = NoRun
      \/ causeA' = InheritRecoveryCause(causeA, failures)
      \/ causeA' = InheritRecoveryCause(causeA, {})
  BY DEF PhaseTaken
<1>4. ended' = Append(ended, outcome)
  BY DEF PhaseTaken
<1>5. /\ ph \in 1 .. Len(Phases) /\ ph \in DOMAIN Phases /\ ph \in Nat /\ ph > 0
      /\ Len(ended) = ph - 1 /\ ended \in Seq({"Passed", "Failed", "Blocked"}) /\ code # 0
  BY <1>1, PhasesTyped DEF CampaignInv, CampaignTypes, Positions, Greens
<1>6. outcome \in {"Passed", "Failed", "Blocked"}
  BY DEF PhaseOutcome
<1>7. /\ ended' \in Seq({"Passed", "Failed", "Blocked"}) /\ Len(ended') = ph
      /\ \A i \in 1 .. ph : ended'[i] = IF i = ph THEN outcome ELSE ended[i]
  <2> HIDE DEF outcome
  <2> QED
    BY <1>4, <1>5, <1>6
<1>8. Positions' /\ Files'
  <2>1. Positions'
    BY <1>1, <1>5, <1>7 DEF CampaignInv, CampaignTypes, Positions
  <2> QED
    BY <1>1, <2>1 DEF CampaignInv, CampaignTypes, Files
<1>9. RunsInOrder'
  <2>1. \A x \in Runs : Begun(x)' <=> Begun(x)
    BY <1>1 DEF Begun
  <2> QED
    BY <1>1, <2>1 DEF CampaignInv, RunsInOrder
<1>10. Evident'
  BY <1>1, EvidentKept DEF CampaignInv
<1>11. RowsTrue'
  BY <1>1 DEF CampaignInv, RowsTrue
\* A phase whose cleanup is assessed as complete has left nothing of its own.
<1>12. ASSUME AssessRunCleanup(ph), NEW x \in Runs, x[1] = ph
       PROVE  x \notin left /\ (x[3] = "recovery" => run[x] \in {"none", "ended"})
  <2>1. run[x] # "none" => x \in manifest[ph]
    BY <1>12 DEF CampaignInv, RunsInOrder
  <2>2. run[x] # "none" /\ Live(x) => x \in proven
    BY <1>12, <2>1 DEF AssessRunCleanup
  <2>3. x[3] = "recovery" => Live(x)
    BY DEF Live
  <2> QED
    BY <2>2, <2>3 DEF CampaignInv, Evident
<1>13. Fenced'
  <2> SUFFICES ASSUME halt = "no", ~fenceA', ~Lost(ph + 1) PROVE left = {}
    <3>1. Lost(ph + 1)' <=> Lost(ph + 1)
      BY <1>1 DEF Lost, Forgetful
    <3> QED
      BY <1>1, <3>1 DEF Fenced
  <2>1. AssessRunCleanup(ph)
    BY <1>2
  <2>2. ~Lost(ph) /\ ~Forgetful(ph)
    BY <1>5, PhasesTyped DEF Lost
  <2>3. PICK y \in manifest[ph] : Live(y)
    <3>1. CASE ppc = "dead"
      BY <2>2, <3>1 DEF CampaignInv, RunsInOrder, Forgetful
    <3>2. CASE ppc = "done"
      <4>1. /\ st = Len(Phases[ph]) /\ st \in 1 .. st
            /\ \A s \in 1 .. st : <<ph, s, "step">> \in manifest[ph]
        BY <1>1, <1>5, <3>2, PhasesTyped DEF CampaignInv, RunsInOrder
      <4>2. <<ph, st, "step">> \in manifest[ph] /\ Live(<<ph, st, "step">>)
        BY <1>5, <4>1, PhasesTyped DEF Live
      <4> QED
        BY <4>2
    <3> QED
      BY <1>1, <3>1, <3>2
  <2>4. y \in Runs /\ y[1] = ph /\ Ran(y)
    BY <1>5, <2>1, <2>3 DEF CampaignInv, CampaignTypes, Files, RunsInOrder, AssessRunCleanup,
       Ran
  <2>5. \A r \in left : r[1] = ph
    BY <1>1, <2>2, <2>3, <2>4 DEF CampaignInv, Fenced
  <2>6. \A r \in left : r \in Runs
    BY DEF CampaignInv, CampaignTypes, Files
  <2> QED
    BY <1>12, <2>1, <2>5, <2>6
<1>14. Greens'
  <2>1. outcome = "Passed" => PhaseGood(ph)
    <3> SUFFICES ASSUME outcome = "Passed", NEW x \in Runs, x[1] = ph
                 PROVE  /\ x[3] = "step" => run[x] = "ended" /\ result[x] = "Passed"
                        /\ run[x] \in {"none", "ended"} /\ x \notin left
      BY DEF PhaseGood
    <3>1. Complete(ph) /\ AssessRunCleanup(ph)
      BY DEF PhaseOutcome
    <3>2. x[3] = "step" => \E row \in rows[ph] : row[1] = x
      <4> SUFFICES ASSUME x[3] = "step" PROVE \E row \in rows[ph] : row[1] = x
        OBVIOUS
      <4>1. x[2] \in Steps(ph) /\ x = <<ph, x[2], "step">>
        <5>1. x = <<x[1], x[2], x[3]>> /\ x[2] \in 1 .. Len(Phases[ph])
          BY RunParts
        <5>2. x = <<ph, x[2], "step">>
          BY <5>1, Zenon
        <5> QED
          BY <1>5, <5>1, <5>2, PhasesTyped
      <4>2. <<ph, x[2], "step">> \in {row[1] : row \in rows[ph]}
        BY <3>1, <4>1 DEF Complete
      <4> QED
        BY <4>1, <4>2
    <3>3. x[3] = "step" => run[x] = "ended" /\ result[x] = "Passed"
      <4>1. \A row \in rows[ph] : row[2] = "Passed" /\ result[row[1]] = row[2]
        BY <1>5, <3>1 DEF Complete, CampaignInv, RowsTrue
      <4> SUFFICES ASSUME x[3] = "step" PROVE run[x] = "ended" /\ result[x] = "Passed"
        OBVIOUS
      <4>2. PICK row \in rows[ph] : row[1] = x
        BY <3>2
      <4>3. result[x] = "Passed"
        BY <4>1, <4>2
      <4> QED
        BY <4>3 DEF CampaignInv, Evident
    <3>4. x[3] \in {"step", "recovery"}
      BY RunParts
    <3> QED
      BY <1>12, <3>1, <3>3, <3>4
  <2> HIDE DEF outcome
  <2>2. \A i \in 1 .. ph : ended'[i] = "Passed" => PhaseGood(i)
    BY <1>5, <1>7, <2>1 DEF CampaignInv, Greens
  <2>3. \A i \in 1 .. ph : PhaseGood(i) => PhaseGood(i)'
    BY <1>1 DEF PhaseGood
  <2> QED
    BY <1>1, <1>5, <1>7, <2>2, <2>3 DEF Greens
<1>15. Causes'
  <2>1. failures \subseteq Runs /\ {} \subseteq Runs
    OBVIOUS
  <2>2. \A r \in failures : FailedRun(r)
    <3> SUFFICES ASSUME NEW r \in failures PROVE FailedRun(r)
      OBVIOUS
    <3> DEFINE row == <<r, "Failed">>
    <3>1. row \in rows[ph] /\ row[1] = r /\ row[2] = "Failed" /\ r \in Runs
      OBVIOUS
    <3>2. run[r] \in {"ended", "orphan"} /\ result[r] = "Failed"
      BY <1>5, <3>1 DEF CampaignInv, RowsTrue
    <3> QED
      BY <3>1, <3>2 DEF FailedRun
  <2> HIDE DEF failures
  <2>3. causeA' \in {causeA, NoRun} \union failures
    BY <1>3, <2>1, InheritedCause
  <2> QED
    BY <1>1, <2>2, <2>3 DEF CampaignInv, Causes, FailedRun
<1> QED
  BY <1>8, <1>9, <1>10, <1>11, <1>13, <1>14, <1>15 DEF CampaignInv, CampaignTypes

LEMMA SaveAllCampaign ==
  ASSUME CampaignInv, SaveAll
  PROVE  CampaignInv'
<1>1. /\ apc = "save" /\ apc' = "done"
      /\ UNCHANGED <<ph, ppc, st, fenceA, causeA, fenceP, causeP, ended, run, result, left, proven, manifest,
                     slot, rows, halt, killed>>
      /\ Step' = Step /\ Recovery' = Recovery
      /\ code' = 0 => AllPassed
  BY DEF SaveAll, phaseVars, Step, Recovery
<1>2. Positions' /\ Files'
  BY <1>1 DEF CampaignInv, CampaignTypes, Positions, Files
<1>3. RunsInOrder'
  <2>1. \A x \in Runs : Begun(x)' <=> Begun(x)
    BY <1>1 DEF Begun
  <2> QED
    BY <1>1, <2>1 DEF CampaignInv, RunsInOrder
<1>4. RowsTrue' /\ Fenced'
  BY <1>1 DEF CampaignInv, CampaignTypes, Positions, RowsTrue, Fenced
<1>5. Evident' /\ Causes'
  BY <1>1, EvidentKept, CausesKept DEF CampaignInv
<1>6. Greens'
  <2>1. \A i \in 1 .. Len(ended) : PhaseGood(i)' <=> PhaseGood(i)
    BY <1>1 DEF PhaseGood
  <2>2. DOMAIN ended = 1 .. Len(ended)
    BY DEF CampaignInv, CampaignTypes, Positions
  <2>3. code' = 0 => Len(ended) = Len(Phases) /\ \A i \in 1 .. Len(ended) : ended[i] = "Passed"
    BY <1>1, <2>2 DEF AllPassed
  <2> QED
    BY <1>1, <2>1, <2>3 DEF CampaignInv, Greens
<1> QED
  BY <1>2, <1>3, <1>4, <1>5, <1>6 DEF CampaignInv, CampaignTypes

LEMMA HaltCampaign ==
  ASSUME CampaignInv, Halt
  PROVE  CampaignInv'
<1>1. /\ halt' # "no"
      /\ UNCHANGED <<apc, ph, ppc, st, fenceA, causeA, fenceP, causeP, ended, code, run, result, left, proven,
                     manifest, slot, rows, killed>>
      /\ Step' = Step /\ Recovery' = Recovery
  BY DEF Halt, allVars, phaseVars, Step, Recovery
<1>2. Positions' /\ Files'
  BY <1>1 DEF CampaignInv, CampaignTypes, Positions, Files
<1>3. RunsInOrder'
  <2>1. \A x \in Runs : Begun(x)' <=> Begun(x)
    BY <1>1 DEF Begun
  <2> QED
    BY <1>1, <2>1 DEF CampaignInv, RunsInOrder
<1>4. RowsTrue' /\ Fenced'
  BY <1>1 DEF CampaignInv, RowsTrue, Fenced, Ran, Lost, Forgetful
<1>5. Evident' /\ Greens' /\ Causes'
  BY <1>1, EvidentKept, GreensKept, CausesKept DEF CampaignInv
<1> QED
  BY <1>2, <1>3, <1>4, <1>5 DEF CampaignInv, CampaignTypes

LEMMA CampaignInitInv == CampaignInit => CampaignInv
<1> SUFFICES ASSUME CampaignInit PROVE CampaignInv
  OBVIOUS
<1>1. CampaignTypes
  BY PhasesTyped DEF CampaignInit, CampaignTypes, Positions, Files, RunStates, Results
<1>2. RunsInOrder
  BY DEF CampaignInit, RunsInOrder
<1>3. Evident /\ RowsTrue /\ Causes
  BY DEF CampaignInit, Evident, RowsTrue, Causes
<1>4. Fenced /\ Greens
  BY DEF CampaignInit, Fenced, Greens
<1> QED
  BY <1>1, <1>2, <1>3, <1>4 DEF CampaignInv

LEMMA CampaignNextInv == CampaignInv /\ [CampaignNext]_campaignVars => CampaignInv'
<1> SUFFICES ASSUME CampaignInv, [CampaignNext]_campaignVars PROVE CampaignInv'
  OBVIOUS
<1>1. CASE PhaseStep
  BY <1>1, PhaseNextCampaign, SpawnStepCampaign, StepTakenCampaign, SpawnRecoveryCampaign,
     RecoveryTakenCampaign, SavePhaseCampaign, PhaseKilledCampaign DEF PhaseStep
<1>2. CASE AllStep
  BY <1>2, AllNextCampaign, PhaseTakenCampaign, SaveAllCampaign DEF AllStep
<1>3. CASE PhaseKilled \/ Halt
  BY <1>3, PhaseKilledCampaign, HaltCampaign
<1>4. CASE \E r \in Runs : Ends(r) \/ StepKilled(r)
  BY <1>4, StepEndsCampaign, OrphanEndsCampaign, RecoveryEndsCampaign,
     StepKilledCampaign DEF Ends
<1>5. CASE UNCHANGED campaignVars
  <2>1. /\ UNCHANGED <<apc, ph, ppc, st, fenceA, causeA, fenceP, causeP, ended, code, run, result, left,
                       proven, manifest, slot, rows, killed, halt>>
        /\ Step' = Step /\ Recovery' = Recovery
    BY <1>5 DEF campaignVars, Step, Recovery
  <2>2. CampaignTypes'
    BY <2>1 DEF CampaignInv, CampaignTypes, Positions, Files
  <2>3. RunsInOrder'
    <3>1. \A x \in Runs : Begun(x)' <=> Begun(x)
      BY <2>1 DEF Begun
    <3> QED
      BY <2>1, <3>1 DEF CampaignInv, RunsInOrder
  <2>4. RowsTrue' /\ Fenced'
    BY <2>1 DEF CampaignInv, RowsTrue, Fenced, Ran, Lost, Forgetful
  <2>5. Evident' /\ Greens' /\ Causes'
    BY <2>1, EvidentKept, GreensKept, CausesKept DEF CampaignInv
  <2> QED
    BY <2>2, <2>3, <2>4, <2>5 DEF CampaignInv
<1> QED
  BY <1>1, <1>2, <1>3, <1>4, <1>5 DEF CampaignNext

LEMMA CampaignInvariant == CampaignSpec => []CampaignInv
BY CampaignInitInv, CampaignNextInv, PTL DEF CampaignSpec

LEMMA VerdictFollows == CampaignInv => VerdictTrue
<1> SUFFICES ASSUME CampaignInv PROVE VerdictTrue
  OBVIOUS
<1>1. CauseTrue
  BY DEF CampaignInv, Causes, FailedRun, CauseTrue
<1>2. NoFalseGreen
  <2> SUFFICES ASSUME code = 0
               PROVE  /\ \A r \in Runs : r[3] = "step" => run[r] = "ended" /\ result[r] = "Passed"
                      /\ left = {} /\ \A r \in Runs : run[r] # "orphan"
    BY DEF NoFalseGreen
  <2>1. \A p \in 1 .. Len(Phases) : PhaseGood(p)
    BY DEF CampaignInv, Greens
  <2>2. \A r \in Runs : PhaseGood(r[1])
    BY <2>1, RunParts
  <2>3. \A r \in Runs : /\ r[3] = "step" => run[r] = "ended" /\ result[r] = "Passed"
                        /\ run[r] # "orphan" /\ r \notin left
    BY <2>2 DEF PhaseGood
  <2>4. left \subseteq Runs
    BY DEF CampaignInv, CampaignTypes, Files
  <2> QED
    BY <2>3, <2>4
<1> QED
  BY <1>1, <1>2 DEF VerdictTrue

\* The verdict of a campaign of any number of phases and steps, with any number
\* of killed processes, failed cleanups and lost receipts: exit code 0 only
\* when every step ran to its end, passed and left nothing, and a cause that is
\* named for the steps refused is a run that failed itself.
THEOREM VerdictStaysTrue == CampaignSpec => []VerdictTrue
BY CampaignInvariant, VerdictFollows, PTL

LEMMA StartsFenced ==
  ASSUME CampaignInv, CampaignInv', [CampaignNext]_campaignVars, NEW r \in Runs, Starts(r)
  PROVE  left = {} \/ \E q \in DOMAIN Phases : q < ph /\ Forgetful(q)
<1>1. run[r] = "none" /\ run'[r] = "running" /\ r[3] = "step" /\ Live(r)
  BY DEF Starts
<1>2. SpawnStep \/ SpawnRecovery \/ \E x \in Runs : Ends(x) \/ StepKilled(x)
  <2>1. run' # run
    BY <1>1
  <2> QED
    BY <2>1 DEF CampaignNext, PhaseStep, AllStep, PhaseNext, StepTaken, RecoveryTaken,
       SavePhase,
       PhaseKilled, AllNext, PhaseTaken, SaveAll, Halt, campaignVars
<1>3. run \in [Runs -> RunStates]
  BY DEF CampaignInv, CampaignTypes, Files
<1>4. ASSUME NEW x \in Runs, Ends(x) \/ StepKilled(x) PROVE FALSE
  <2>1. run' = [run EXCEPT ![x] = "ended"] \/ run' = [run EXCEPT ![x] = "orphan"]
    BY <1>4 DEF Ends, StepEnds, OrphanEnds, RecoveryEnds, StepKilled
  <2> QED
    BY <1>1, <1>3, <1>4, <2>1
<1>5. ASSUME SpawnRecovery PROVE FALSE
  <2>1. run' = [run EXCEPT ![Recovery] = "running"] /\ ppc = "recover"
    BY <1>5 DEF SpawnRecovery
  <2>2. r # Recovery
    BY <1>1 DEF Recovery
  <2> QED
    BY <1>1, <1>3, <2>1, <2>2
<1>6. /\ SpawnStep /\ ppc = "spawn" /\ run' = [run EXCEPT ![Step] = IF Refused THEN "ended" ELSE "running"]
  BY <1>2, <1>4, <1>5 DEF SpawnStep
<1>7. r = Step /\ ~Refused
  BY <1>1, <1>3, <1>6
<1>8. ~fenceP /\ apc = "wait"
  BY <1>1, <1>6, <1>7, AtStep DEF Refused, CampaignInv, CampaignTypes
<1> QED
  BY <1>6, <1>8 DEF CampaignInv, Fenced, Lost

\* The recovery fence holds across steps, phases and killed coordinators: no
\* live step starts on what an earlier run has left, except after a phase
\* coordinator that was killed among its isolated steps.
THEOREM FenceAlwaysHolds == CampaignSpec => FenceHolds
<1>1. CampaignInv /\ CampaignInv' /\ [CampaignNext]_campaignVars =>
        [\A r \in Runs : Starts(r) =>
           left = {} \/ \E q \in DOMAIN Phases : q < ph /\ Forgetful(q)]_campaignVars
  BY StartsFenced
<1> QED
  BY <1>1, CampaignInvariant, PTL DEF CampaignSpec, FenceHolds

-----------------------------------------------------------------------------
(* LeafRun: the inductive invariant.                                       *)

Entries == [state : {"selected", "running", "completed"},
            outcome : {"none", "Passed", "Failed", "Blocked"}]

Reports == [rows : [Tests -> {"Passed", "Failed", "Blocked", "none"}] \union {<<>>},
            har10 : {"none", "Failed", "Blocked"}, har07 : BOOLEAN]

LeafTypes ==
  /\ live \in BOOLEAN /\ truth \in [Tests -> {"none", "pass", "fail"}]
  /\ reported \in [Tests -> Entries] /\ ledger \in [Tests -> Entries] \union {<<>>}
  /\ infra \in {"none", "PRIVATE_FILE", "UNEXPECTED", "DEADLINE", "CANCELLED"}
  /\ summary \in Reports
  /\ direct \in {"none", "alive"} \union Exits /\ worker \in {"none", "busy", "gone", "stuck"}
  /\ lpc \in {"start", "wait", "drain", "report", "read", "done", "dead"}
  /\ stop \in [interrupted : {"no", "CANCELLED", "DEADLINE"}, forced : BOOLEAN, timedOut : BOOLEAN,
               orphaned : BOOLEAN]
  /\ cleaned \in BOOLEAN /\ stopped \in BOOLEAN /\ session \in {"running", "finished", "unsettled"}
  /\ taken # NotTaken => taken.rows \in [Tests -> {"Passed", "Failed", "Blocked", "none"}]

\* What says of a test that it passed is true.
RowsHold(marks) == \A t \in Tests : marks[t] = "Passed" => truth[t] = "pass"
EntriesHold(entries) == \A t \in Tests : entries[t].outcome = "Passed" => truth[t] = "pass"

AllHold ==
  /\ EntriesHold(reported) /\ (ledger # <<>> => EntriesHold(ledger))
  /\ summary # NoReport \/ lpc = "done" =>
       RowsHold(summary.rows) /\ summary.rows \in [Tests -> {"Passed", "Failed", "Blocked", "none"}]
  /\ taken # NotTaken => RowsHold(taken.rows)

\* Nothing of the group runs any more.
Over == direct \in Exits /\ worker \in {"none", "gone"}

\* What the launcher has seen of its group.
Visible ==
  /\ lpc = "start" => direct = "none"
  /\ direct = "none" => worker = "none"
  /\ lpc \in {"drain", "report", "read", "done"} => direct \in Exits
  /\ stopped => Over
  /\ session = "finished" => stopped
  /\ lpc \in {"start", "wait", "drain", "report"} => session = "running"

\* An exit code of 0 over a green report.
Passing == exitCode = 0 /\ Summarize(summary)

Judged ==
  /\ lpc = "done" /\ Passing => Over /\ direct = "passed" /\ (live => cleaned)
  /\ taken.green => Over /\ direct = "passed" /\ (live => cleaned) /\ \A t \in Tests : truth[t] = "pass"
  /\ taken # NotTaken /\ live /\ ~taken.fence => Over /\ cleaned
  /\ taken # NotTaken => lpc \in {"done", "dead"}

LeafInv == LeafTypes /\ AllHold /\ Visible /\ Judged

-----------------------------------------------------------------------------
(* LeafRun: lemmas.                                                        *)

Outs == {"none", "Passed", "Failed", "Blocked"}

LEMMA CompleteTrue ==
  ASSUME NEW marks \in [Tests -> Outs]
  PROVE  /\ CompleteCases(marks) \in [Tests -> Outs]
         /\ \A t \in Tests : CompleteCases(marks)[t] = "Passed" => marks[t] = "Passed"
BY DEF CompleteCases, Outs

LEMMA InterruptedTrue ==
  ASSUME LeafTypes, AllHold, NEW reason \in {"DEADLINE", "CANCELLED", "UNEXPECTED"}
  PROVE  /\ InterruptedEvidence(reason) \in Reports
         /\ InterruptedEvidence(reason).rows \in [Tests -> Outs]
         /\ RowsHold(InterruptedEvidence(reason).rows)
<1> DEFINE cut == IF reason = "CANCELLED" THEN "Blocked" ELSE "Failed"
           row(t) == CASE ledger = <<>> -> "none"
                       [] ledger # <<>> /\ ledger[t].state = "completed" -> ledger[t].outcome
                       [] ledger # <<>> /\ ledger[t].state = "running" -> cut
                       [] OTHER -> "Blocked"
           marks == [t \in Tests |-> row(t)]
<1>1. cut \in {"Failed", "Blocked"}
  OBVIOUS
<1> HIDE DEF cut
<1>2. ASSUME NEW t \in Tests PROVE row(t) \in Outs /\ (row(t) = "Passed" => truth[t] = "pass")
  <2>1. CASE ledger = <<>>
    BY <2>1 DEF Outs
  <2>2. CASE ledger # <<>>
    <3>1. ledger[t] \in Entries /\ (ledger[t].outcome = "Passed" => truth[t] = "pass")
      BY <2>2 DEF LeafTypes, AllHold, EntriesHold
    <3> QED
      BY <1>1, <2>2, <3>1 DEF Outs, Entries
  <2> QED
    BY <2>1, <2>2
<1>3. marks \in [Tests -> Outs] /\ \A t \in Tests : marks[t] = "Passed" => truth[t] = "pass"
  <2> HIDE DEF row
  <2> QED
    BY <1>2
<1>4. InterruptedEvidence(reason) = [rows |-> CompleteCases(marks), har10 |-> cut, har07 |-> FALSE]
  BY DEF InterruptedEvidence, cut
<1> HIDE DEF marks
<1>5. CompleteCases(marks) \in [Tests -> Outs] /\ \A t \in Tests : CompleteCases(marks)[t] = "Passed" => marks[t] = "Passed"
  BY <1>3, CompleteTrue
<1> QED
  BY <1>1, <1>3, <1>4, <1>5 DEF Reports, Outs, RowsHold

LEMMA SupervisedProcessLeaf ==
  ASSUME LeafInv, SupervisedProcess
  PROVE  LeafInv'
<1>1. LeafTypes'
  BY DEF group, reporter, launcher, SupervisedProcess, PersistEvidence, LeafInv, LeafTypes,
     Entries, Exits
<1>2. AllHold'
  BY DEF group, reporter, launcher, SupervisedProcess, PersistEvidence, LeafInv, LeafTypes,
     AllHold, EntriesHold, RowsHold, Entries, Exits
<1>3. Visible'
  BY DEF group, reporter, launcher, SupervisedProcess, PersistEvidence, LeafInv, LeafTypes,
     Visible, Over, Exits
<1>4. Judged'
  BY DEF group, reporter, launcher, SupervisedProcess, PersistEvidence, LeafInv, LeafTypes,
     Visible, Over, Exits, Judged, Passing, Summarize
<1> QED
  BY <1>1, <1>2, <1>3, <1>4 DEF LeafInv

LEMMA InterruptLeaf ==
  ASSUME LeafInv, Interrupt
  PROVE  LeafInv'
<1>1. LeafTypes'
  BY DEF group, reporter, launcher, Interrupt, LeafInv, LeafTypes, Entries, Exits
<1>2. AllHold'
  BY DEF group, reporter, launcher, Interrupt, LeafInv, LeafTypes, AllHold, EntriesHold,
     RowsHold, Entries, Exits
<1>3. Visible'
  BY DEF group, reporter, launcher, Interrupt, LeafInv, LeafTypes, Visible, Over, Exits
<1>4. Judged'
  BY DEF group, reporter, launcher, Interrupt, LeafInv, LeafTypes, Visible, Over, Exits, Judged,
     Passing, Summarize
<1> QED
  BY <1>1, <1>2, <1>3, <1>4 DEF LeafInv

LEMMA SettleLeaf ==
  ASSUME LeafInv, Settle
  PROVE  LeafInv'
<1>1. LeafTypes'
  <2>1. stop' \in {stop, [stop EXCEPT !.orphaned = TRUE]}
    BY DEF Settle
  <2>2. stop' \in [interrupted : {"no", "CANCELLED", "DEADLINE"}, forced : BOOLEAN, timedOut : BOOLEAN,
                   orphaned : BOOLEAN]
    BY <2>1 DEF LeafInv, LeafTypes
  <2>3. lpc' \in {"report", "drain"} /\ stopped' \in BOOLEAN /\ UNCHANGED <<live, group, reporter, session, taken>>
    BY DEF Settle, LeafInv, LeafTypes
  <2> QED
    BY <2>2, <2>3 DEF LeafInv, LeafTypes, group, reporter
<1>2. AllHold'
  BY DEF group, reporter, launcher, Settle, LeafInv, LeafTypes, AllHold, EntriesHold, RowsHold,
     Entries, Exits
<1>3. Visible'
  BY DEF group, reporter, launcher, Settle, LeafInv, LeafTypes, Visible, Over, Exits
<1>4. Judged'
  BY DEF group, reporter, launcher, Settle, LeafInv, LeafTypes, Visible, Over, Exits, Judged,
     Passing, Summarize
<1> QED
  BY <1>1, <1>2, <1>3, <1>4 DEF LeafInv

LEMMA DrainLeaf ==
  ASSUME LeafInv, Drain
  PROVE  LeafInv'
<1>1. LeafTypes'
  <2>1. stop' \in {stop, [stop EXCEPT !.forced = TRUE]}
    BY DEF Drain
  <2>2. stop' \in [interrupted : {"no", "CANCELLED", "DEADLINE"}, forced : BOOLEAN, timedOut : BOOLEAN,
                   orphaned : BOOLEAN]
    BY <2>1 DEF LeafInv, LeafTypes
  <2>3. /\ lpc' \in {"report", "drain"} /\ worker' \in {"none", "busy", "gone", "stuck"}
        /\ UNCHANGED <<live, truth, direct, cleaned, reporter, session, taken>>
    BY DEF Drain, Killed, LeafInv, LeafTypes
  <2>4. stopped' \in BOOLEAN
    BY Zenon DEF Drain, LeafInv, LeafTypes
  <2> QED
    BY <2>2, <2>3, <2>4 DEF LeafInv, LeafTypes, reporter
<1>2. AllHold'
  BY DEF group, reporter, launcher, Drain, Drained, LFault, Killed, LeafInv, LeafTypes,
     AllHold, EntriesHold, RowsHold, Entries, Exits
<1>3. Visible'
  <2>5. \/ stopped' = stopped /\ worker \in {"busy", "stuck"}
        \/ worker' = worker /\ stopped' = (worker = "gone")
        \/ stopped' = FALSE
    BY DEF Drain
  <2>1. stopped' => \/ worker = "gone" /\ worker' = worker
                    \/ stopped /\ worker \in {"busy", "stuck"}
    BY <2>5, Zenon
  <2>2. stopped' => Over /\ worker' = "gone"
    BY <2>1 DEF Drain, LeafInv, Visible, Over
  <2>3. lpc = "drain" /\ lpc' \in {"report", "drain"} /\ UNCHANGED <<direct, session>>
    BY DEF Drain
  <2>4. session # "finished"
    BY <2>3 DEF Drain, LeafInv, Visible
  <2> QED
    BY <2>2, <2>3, <2>4 DEF LeafInv, Visible, Over, Exits
<1>4. Judged'
  BY DEF group, reporter, launcher, Drain, Drained, LFault, Killed, LeafInv, LeafTypes, Visible,
     Over, Exits, Judged, Passing, Summarize
<1> QED
  BY <1>1, <1>2, <1>3, <1>4 DEF LeafInv

LEMMA FinishSessionLeaf ==
  ASSUME LeafInv, FinishSession
  PROVE  LeafInv'
<1>1. LeafTypes'
  BY DEF group, reporter, launcher, FinishSession, LeafInv, LeafTypes, Entries, Exits
<1>2. AllHold'
  BY DEF group, reporter, launcher, FinishSession, LeafInv, LeafTypes, AllHold, EntriesHold,
     RowsHold, Entries, Exits
<1>3. Visible'
  BY DEF group, reporter, launcher, FinishSession, LeafInv, LeafTypes, Visible, Over, Exits
<1>4. Judged'
  BY DEF group, reporter, launcher, FinishSession, LeafInv, LeafTypes, Visible, Over, Exits,
     Judged, Passing, Summarize
<1> QED
  BY <1>1, <1>2, <1>3, <1>4 DEF LeafInv

LEMMA ForceKillLeaf ==
  ASSUME LeafInv, ForceKill
  PROVE  LeafInv'
<1>1. LeafTypes'
  BY DEF group, reporter, launcher, ForceKill, LFault, Killed, Forgotten, Unstarted, LeafInv,
     LeafTypes, Entries, Exits
<1>2. AllHold'
  BY DEF group, reporter, launcher, ForceKill, LFault, Killed, Forgotten, Unstarted, LeafInv,
     LeafTypes, AllHold, EntriesHold, RowsHold, Entries, Exits
<1>3. Visible'
  BY DEF group, reporter, launcher, ForceKill, LFault, Killed, Forgotten, Unstarted, LeafInv,
     LeafTypes, Visible, Over, Exits
<1>4. Judged'
  BY DEF group, reporter, launcher, ForceKill, LFault, Killed, Forgotten, Unstarted, LeafInv,
     LeafTypes, Visible, Over, Exits, Judged, Passing, Summarize
<1> QED
  BY <1>1, <1>2, <1>3, <1>4 DEF LeafInv

LEMMA LauncherKilledLeaf ==
  ASSUME LeafInv, LauncherKilled
  PROVE  LeafInv'
<1>1. LeafTypes'
  BY DEF group, reporter, launcher, LauncherKilled, LFault, LeafInv, LeafTypes, Entries, Exits
<1>2. AllHold'
  BY DEF group, reporter, launcher, LauncherKilled, LFault, LeafInv, LeafTypes, AllHold,
     EntriesHold, RowsHold, Entries, Exits
<1>3. Visible'
  BY DEF group, reporter, launcher, LauncherKilled, LFault, LeafInv, LeafTypes, Visible, Over,
     Exits
<1>4. Judged'
  BY DEF group, reporter, launcher, LauncherKilled, LFault, LeafInv, LeafTypes, Visible, Over,
     Exits, Judged, Passing, Summarize
<1> QED
  BY <1>1, <1>2, <1>3, <1>4 DEF LeafInv

LEMMA WriteFailsLeaf ==
  ASSUME LeafInv, WriteFails
  PROVE  LeafInv'
<1>1. LeafTypes'
  BY DEF group, reporter, launcher, WriteFails, Running, LFault, LeafInv, LeafTypes, Entries,
     Exits
<1>2. AllHold'
  BY DEF group, reporter, launcher, WriteFails, Running, LFault, LeafInv, LeafTypes, AllHold,
     EntriesHold, RowsHold, Entries, Exits
<1>3. Visible'
  BY DEF group, reporter, launcher, WriteFails, Running, LFault, LeafInv, LeafTypes, Visible,
     Over, Exits
<1>4. Judged'
  BY DEF group, reporter, launcher, WriteFails, Running, LFault, LeafInv, LeafTypes, Visible,
     Over, Exits, Judged, Passing, Summarize
<1> QED
  BY <1>1, <1>2, <1>3, <1>4 DEF LeafInv

LEMMA OnErrorLeaf ==
  ASSUME LeafInv, OnError
  PROVE  LeafInv'
<1>1. LeafTypes'
  BY DEF group, reporter, launcher, OnError, PersistEvidence, Running, LFault, LeafInv,
     LeafTypes, Entries, Exits
<1>2. AllHold'
  BY DEF group, reporter, launcher, OnError, PersistEvidence, Running, LFault, LeafInv,
     LeafTypes, AllHold, EntriesHold, RowsHold, Entries, Exits
<1>3. Visible'
  BY DEF group, reporter, launcher, OnError, PersistEvidence, Running, LFault, LeafInv,
     LeafTypes, Visible, Over, Exits
<1>4. Judged'
  BY DEF group, reporter, launcher, OnError, PersistEvidence, Running, LFault, LeafInv,
     LeafTypes, Visible, Over, Exits, Judged, Passing, Summarize
<1> QED
  BY <1>1, <1>2, <1>3, <1>4 DEF LeafInv

LEMMA BadMappingLeaf ==
  ASSUME LeafInv, BadMapping
  PROVE  LeafInv'
<1>1. LeafTypes'
  BY DEF group, reporter, launcher, BadMapping, Running, LFault, LeafInv, LeafTypes, Entries,
     Exits
<1>2. AllHold'
  BY DEF group, reporter, launcher, BadMapping, Running, LFault, LeafInv, LeafTypes, AllHold,
     EntriesHold, RowsHold, Entries, Exits
<1>3. Visible'
  BY DEF group, reporter, launcher, BadMapping, Running, LFault, LeafInv, LeafTypes, Visible,
     Over, Exits
<1>4. Judged'
  BY DEF group, reporter, launcher, BadMapping, Running, LFault, LeafInv, LeafTypes, Visible,
     Over, Exits, Judged, Passing, Summarize
<1> QED
  BY <1>1, <1>2, <1>3, <1>4 DEF LeafInv

LEMMA EndingLeaf ==
  ASSUME LeafInv, Ending
  PROVE  LeafInv'
<1>1. LeafTypes'
  BY DEF group, reporter, launcher, Ending, OnEnd, Running, LFault, Unfinished, LeafInv,
     LeafTypes, Entries, Exits
<1>2. AllHold'
  BY DEF group, reporter, launcher, Ending, OnEnd, Running, LFault, Unfinished, LeafInv,
     LeafTypes, AllHold, EntriesHold, RowsHold, Entries, Exits
<1>3. Visible'
  BY DEF group, reporter, launcher, Ending, OnEnd, Running, LFault, Unfinished, LeafInv,
     LeafTypes, Visible, Over, Exits
<1>4. Judged'
  BY DEF group, reporter, launcher, Ending, OnEnd, Running, LFault, Unfinished, LeafInv,
     LeafTypes, Visible, Over, Exits, Judged, Passing, Summarize
<1> QED
  BY <1>1, <1>2, <1>3, <1>4 DEF LeafInv

LEMMA SaveSummaryLeaf ==
  ASSUME LeafInv, SaveSummary
  PROVE  LeafInv'
<1> DEFINE marks == [t \in Tests |-> reported[t].outcome]
           report == [rows |-> CompleteCases(marks),
                        har10 |-> IF infra = "none" THEN "none"
                                  ELSE IF infra = "CANCELLED" THEN "Blocked" ELSE "Failed",
                        har07 |-> FALSE]
<1>5. marks \in [Tests -> Outs] /\ \A t \in Tests : marks[t] = "Passed" => truth[t] = "pass"
  BY DEF LeafInv, LeafTypes, AllHold, EntriesHold, Entries, Outs
<1>6. CompleteCases(marks) \in [Tests -> Outs] /\ RowsHold(CompleteCases(marks))
  <2> HIDE DEF marks
  <2> QED
    BY <1>5, CompleteTrue DEF RowsHold
<1>7. summary' \in {summary, report} /\ direct = "alive" /\ direct' \in {"passed", "failed"}
  BY DEF SaveSummary
<1> HIDE DEF marks
<1>8. report \in Reports /\ report.rows = CompleteCases(marks)
  BY <1>6 DEF Reports, Outs
<1> HIDE DEF report
<1>9. /\ reported' = [t \in Tests |-> Unstarted] /\ infra' = "none"
      /\ UNCHANGED <<live, truth, worker, cleaned, lpc, stop, stopped, session, exitCode, taken, ledger>>
  BY DEF SaveSummary, Forgotten, launcher
<1>10. reported' \in [Tests -> Entries] /\ EntriesHold(reported')
  BY <1>9 DEF Entries, Unstarted, EntriesHold
<1>1. LeafTypes'
  BY <1>7, <1>8, <1>9, <1>10 DEF LeafInv, LeafTypes, Exits
<1>2. AllHold'
  <2>1. lpc # "done"
    BY <1>7 DEF LeafInv, Visible, Exits
  <2>2. summary' # NoReport => RowsHold(summary'.rows) /\ summary'.rows \in [Tests -> Outs]
    BY <1>6, <1>7, <1>8 DEF LeafInv, AllHold, Outs
  <2> QED
    BY <1>9, <1>10, <2>1, <2>2 DEF LeafInv, AllHold, EntriesHold, RowsHold, Outs
<1>3. Visible'
  BY DEF group, reporter, launcher, SaveSummary, LFault, Forgotten, Unstarted, LeafInv,
     LeafTypes, Visible, Over, Exits
<1>4. Judged'
  BY DEF group, reporter, launcher, SaveSummary, LFault, Forgotten, Unstarted, LeafInv,
     LeafTypes, Visible, Over, Exits, Judged, Passing, Summarize
<1> QED
  BY <1>1, <1>2, <1>3, <1>4 DEF LeafInv

LEMMA TeardownWorkerLeaf ==
  ASSUME LeafInv, TeardownWorker
  PROVE  LeafInv'
<1>1. LeafTypes'
  <2>1. cleaned' \in BOOLEAN
    BY DEF TeardownWorker, LeafInv, LeafTypes
  <2>2. worker' = "gone" /\ UNCHANGED <<live, truth, direct, reporter, launcher, taken>>
    BY DEF TeardownWorker
  <2> QED
    BY <2>1, <2>2 DEF LeafInv, LeafTypes, reporter, launcher
<1>2. AllHold'
  BY DEF group, reporter, launcher, TeardownWorker, LFault, LeafInv, LeafTypes, AllHold,
     EntriesHold, RowsHold, Entries, Exits
<1>3. Visible'
  BY DEF group, reporter, launcher, TeardownWorker, LFault, LeafInv, LeafTypes, Visible, Over,
     Exits
<1>4. Judged'
  BY DEF group, reporter, launcher, TeardownWorker, LFault, LeafInv, LeafTypes, Visible, Over,
     Exits, Judged, Passing, Summarize
<1> QED
  BY <1>1, <1>2, <1>3, <1>4 DEF LeafInv

LEMMA GroupFaultLeaf ==
  ASSUME LeafInv, GroupFault
  PROVE  LeafInv'
<1>1. LeafTypes'
  BY DEF group, reporter, launcher, GroupFault, LFault, Forgotten, Unstarted, LeafInv,
     LeafTypes, Entries, Exits
<1>2. AllHold'
  BY DEF group, reporter, launcher, GroupFault, LFault, Forgotten, Unstarted, LeafInv,
     LeafTypes, AllHold, EntriesHold, RowsHold, Entries, Exits
<1>3. Visible'
  BY DEF group, reporter, launcher, GroupFault, LFault, Forgotten, Unstarted, LeafInv,
     LeafTypes, Visible, Over, Exits
<1>4. Judged'
  BY DEF group, reporter, launcher, GroupFault, LFault, Forgotten, Unstarted, LeafInv,
     LeafTypes, Visible, Over, Exits, Judged, Passing, Summarize
<1> QED
  BY <1>1, <1>2, <1>3, <1>4 DEF LeafInv

LEMMA OnTestBeginLeaf ==
  ASSUME LeafInv, NEW t \in Tests, OnTestBegin(t)
  PROVE  LeafInv'
<1>1. LeafTypes'
  BY DEF group, reporter, launcher, OnTestBegin, PersistEvidence, Running, LeafInv, LeafTypes,
     Entries, Exits
<1>2. AllHold'
  BY DEF group, reporter, launcher, OnTestBegin, PersistEvidence, Running, LeafInv, LeafTypes,
     AllHold, EntriesHold, RowsHold, Entries, Exits
<1>3. Visible'
  BY DEF group, reporter, launcher, OnTestBegin, PersistEvidence, Running, LeafInv, LeafTypes,
     Visible, Over, Exits
<1>4. Judged'
  BY DEF group, reporter, launcher, OnTestBegin, PersistEvidence, Running, LeafInv, LeafTypes,
     Visible, Over, Exits, Judged, Passing, Summarize
<1> QED
  BY <1>1, <1>2, <1>3, <1>4 DEF LeafInv

LEMMA OnTestEndLeaf ==
  ASSUME LeafInv, NEW t \in Tests, OnTestEnd(t)
  PROVE  LeafInv'
<1>1. LeafTypes'
  BY DEF group, reporter, launcher, OnTestEnd, PersistEvidence, Completed, LeafInv, LeafTypes,
     Entries, Exits
<1>2. AllHold'
  BY DEF group, reporter, launcher, OnTestEnd, PersistEvidence, Completed, LeafInv, LeafTypes,
     AllHold, EntriesHold, RowsHold, Entries, Exits
<1>3. Visible'
  BY DEF group, reporter, launcher, OnTestEnd, PersistEvidence, Completed, LeafInv, LeafTypes,
     Visible, Over, Exits
<1>4. Judged'
  BY DEF group, reporter, launcher, OnTestEnd, PersistEvidence, Completed, LeafInv, LeafTypes,
     Visible, Over, Exits, Judged, Passing, Summarize
<1> QED
  BY <1>1, <1>2, <1>3, <1>4 DEF LeafInv

LEMMA OnTestSkippedLeaf ==
  ASSUME LeafInv, NEW t \in Tests, OnTestSkipped(t)
  PROVE  LeafInv'
<1>1. LeafTypes'
  BY DEF group, reporter, launcher, OnTestSkipped, PersistEvidence, Completed, Running,
     LeafInv, LeafTypes, Entries, Exits
<1>2. AllHold'
  BY DEF group, reporter, launcher, OnTestSkipped, PersistEvidence, Completed, Running,
     LeafInv, LeafTypes, AllHold, EntriesHold, RowsHold, Entries, Exits
<1>3. Visible'
  BY DEF group, reporter, launcher, OnTestSkipped, PersistEvidence, Completed, Running,
     LeafInv, LeafTypes, Visible, Over, Exits
<1>4. Judged'
  BY DEF group, reporter, launcher, OnTestSkipped, PersistEvidence, Completed, Running,
     LeafInv, LeafTypes, Visible, Over, Exits, Judged, Passing, Summarize
<1> QED
  BY <1>1, <1>2, <1>3, <1>4 DEF LeafInv

LEMMA LeafReportTrue ==
  ASSUME LeafTypes, AllHold
  PROVE  /\ LeafReport \in Reports /\ LeafReport.rows \in [Tests -> Outs] /\ RowsHold(LeafReport.rows)
         /\ LeafReport.har10 = "none" => stopped /\ ~stop.timedOut /\ ~stop.orphaned
         /\ ~LeafReport.har07 /\ live => CleanupVerified
<1> DEFINE read == IF summary # NoReport THEN summary ELSE InterruptedEvidence(Reason)
           checked == IF Irregular THEN [read EXCEPT !.har10 = "Failed"] ELSE read
<1>1. Reason \in {"DEADLINE", "CANCELLED", "UNEXPECTED"}
  BY DEF Reason
<1>2. read \in Reports /\ read.rows \in [Tests -> Outs] /\ RowsHold(read.rows)
  BY <1>1, InterruptedTrue DEF LeafTypes, AllHold, Outs
<1>3. LeafReport = IF live /\ ~CleanupVerified THEN [checked EXCEPT !.har07 = TRUE] ELSE checked
  BY DEF LeafReport
<1> HIDE DEF read
<1>4. /\ checked \in Reports /\ checked.rows = read.rows
      /\ checked.har10 = "none" => ~Irregular
  BY <1>2 DEF Reports
<1> HIDE DEF checked
<1>5. /\ LeafReport \in Reports /\ LeafReport.rows = checked.rows /\ LeafReport.har10 = checked.har10
      /\ ~LeafReport.har07 /\ live => CleanupVerified
  BY <1>3, <1>4 DEF Reports
<1> QED
  BY <1>2, <1>4, <1>5 DEF Irregular

\* A green report of a process that failed is not believed.
LEMMA ExitTrue ==
  ASSUME NEW report \in Reports, Summarize(report), NEW exit, exit # 0
  PROVE  ReportExitCode(Outcomes(StepCases(report, exit, Summarize(report)))) # 0
<1>1. Outcomes(report) \ {"Passed", "none"} = {}
  BY DEF Summarize, Outcomes
<1>2. StepCases(report, exit, Summarize(report)) = [report EXCEPT !.har10 = "Failed"]
  BY <1>1 DEF StepCases
<1>3. [report EXCEPT !.har10 = "Failed"].har10 = "Failed"
  BY DEF Reports
<1>4. "Failed" \in Outcomes([report EXCEPT !.har10 = "Failed"])
  BY <1>3 DEF Outcomes
<1> DEFINE outcomes == Outcomes(StepCases(report, exit, Summarize(report)))
<1>5. "Failed" \in outcomes
  BY <1>2, <1>4, Zenon
<1> HIDE DEF outcomes
<1>6. ReportExitCode(outcomes) # 0
  BY <1>5 DEF ReportExitCode
<1> QED
  BY <1>6, Zenon DEF outcomes

LEMMA EvaluateLeaf ==
  ASSUME LeafInv, Evaluate
  PROVE  LeafInv'
<1> DEFINE exit == IF stop.timedOut \/ stop.orphaned \/ direct # "passed" THEN 1 ELSE 0
<1>1. /\ lpc = "read" /\ lpc' = "done" /\ summary' = LeafReport
      /\ exitCode' = ReportExitCode(Outcomes(StepCases(LeafReport, exit, Summarize(LeafReport))))
      /\ UNCHANGED <<live, direct, worker, cleaned, truth, stop, stopped, session, taken, reported, ledger, infra>>
  BY DEF Evaluate, group
<1>2. /\ LeafReport \in Reports /\ LeafReport.rows \in [Tests -> Outs] /\ RowsHold(LeafReport.rows)
      /\ LeafReport.har10 = "none" => stopped /\ ~stop.timedOut /\ ~stop.orphaned
      /\ ~LeafReport.har07 /\ live => CleanupVerified
  BY LeafReportTrue DEF LeafInv
<1>3. LeafTypes'
  BY <1>1, <1>2 DEF LeafInv, LeafTypes
<1>4. AllHold'
  BY <1>1, <1>2 DEF LeafInv, AllHold, EntriesHold, RowsHold, Outs
<1>5. Visible'
  BY <1>1 DEF LeafInv, Visible, Over, Exits
<1>6. taken = NotTaken /\ (Passing' => Over /\ direct = "passed" /\ (live => cleaned))
  <2> SUFFICES ASSUME exitCode' = 0, Summarize(LeafReport) PROVE Over /\ direct = "passed" /\ (live => cleaned)
    BY <1>1 DEF Passing, Summarize, LeafInv, Judged
  <2>1. exit = 0
    BY <1>1, <1>2, ExitTrue
  <2>2. direct = "passed" /\ stopped /\ (live => CleanupVerified)
    BY <1>2, <2>1 DEF Summarize
  <2> QED
    BY <2>2 DEF CleanupVerified, LeafInv, Visible
<1>7. Judged'
  BY <1>1, <1>6 DEF LeafInv, Judged, Over, NotTaken
<1> QED
  BY <1>3, <1>4, <1>5, <1>7 DEF LeafInv

LEMMA TakeEvidenceLeaf ==
  ASSUME LeafInv, TakeEvidence
  PROVE  LeafInv'
<1> DEFINE report == IF lpc = "done" THEN summary ELSE InterruptedEvidence("UNEXPECTED")
<1>1. /\ lpc \in {"done", "dead"} /\ taken = NotTaken
      /\ taken' = [rows |-> report.rows,
                   green |-> (lpc = "done" /\ exitCode = 0 /\ Summarize(report)),
                   fence |-> (live /\ ~CleanupVerified)]
      /\ UNCHANGED <<live, direct, worker, cleaned, truth, reported, ledger, infra, summary, lpc, stop,
                     stopped, session, exitCode>>
  BY DEF TakeEvidence, group, reporter, launcher
<1>2. report.rows \in [Tests -> Outs] /\ RowsHold(report.rows)
  BY <1>1, InterruptedTrue DEF LeafInv, AllHold, Outs
<1>3. /\ taken'.rows = report.rows
      /\ taken'.green <=> (lpc = "done" /\ exitCode = 0 /\ Summarize(report))
      /\ taken'.fence <=> (live /\ ~CleanupVerified)
  BY <1>1
<1>4. taken'.green => lpc = "done" /\ Passing /\ RowsHold(summary.rows)
  BY <1>2, <1>3 DEF Passing
<1> HIDE DEF report
<1>5. LeafTypes'
  BY <1>1, <1>2, <1>3 DEF LeafInv, LeafTypes, Outs
<1>6. AllHold'
  BY <1>1, <1>2, <1>3 DEF LeafInv, AllHold, EntriesHold, RowsHold, Outs
<1>7. Visible'
  BY <1>1 DEF LeafInv, Visible, Over, Exits
<1>8. taken'.green => Over /\ direct = "passed" /\ (live => cleaned) /\ \A t \in Tests : truth[t] = "pass"
  BY <1>4 DEF LeafInv, Judged, Passing, Summarize, RowsHold
<1>9. live /\ ~taken'.fence => Over /\ cleaned
  BY <1>3 DEF CleanupVerified, LeafInv, Visible
<1>10. lpc = "done" /\ Passing => Over /\ direct = "passed" /\ (live => cleaned)
  BY DEF LeafInv, Judged
<1>11. Over' <=> Over
  BY <1>1 DEF Over
<1>12. Passing' <=> Passing
  BY <1>1 DEF Passing, Summarize
<1>13. Judged'
  BY <1>1, <1>8, <1>9, <1>10, <1>11, <1>12 DEF Judged
<1> QED
  BY <1>5, <1>6, <1>7, <1>13 DEF LeafInv

LEMMA LeafInitInv == LeafInit => LeafInv
<1> SUFFICES ASSUME LeafInit PROVE LeafInv
  OBVIOUS
<1>1. LeafTypes
  BY DEF LeafInit, LeafTypes, Unstarted, Entries, NoReport, NoStop, Reports
<1>2. AllHold /\ Visible /\ Judged
  BY DEF LeafInit, AllHold, EntriesHold, Unstarted, Visible, Judged, NotTaken
<1> QED
  BY <1>1, <1>2 DEF LeafInv

LEMMA LeafNextInv == LeafInv /\ [LeafNext]_leafVars => LeafInv'
<1> SUFFICES ASSUME LeafInv, [LeafNext]_leafVars PROVE LeafInv'
  OBVIOUS
<1>1. CASE LauncherStep \/ ForceKill \/ LauncherKilled
  BY <1>1, SupervisedProcessLeaf, InterruptLeaf, SettleLeaf, DrainLeaf, FinishSessionLeaf,
     EvaluateLeaf,
     TakeEvidenceLeaf, ForceKillLeaf, LauncherKilledLeaf DEF LauncherStep
<1>2. CASE WriteFails \/ OnError \/ BadMapping \/ Ending \/ SaveSummary \/ TeardownWorker \/ GroupFault
  BY <1>2, WriteFailsLeaf, OnErrorLeaf, BadMappingLeaf, EndingLeaf, SaveSummaryLeaf,
     TeardownWorkerLeaf,
     GroupFaultLeaf
<1>3. CASE \E t \in Tests : OnTestBegin(t) \/ OnTestEnd(t) \/ OnTestSkipped(t)
  BY <1>3, OnTestBeginLeaf, OnTestEndLeaf, OnTestSkippedLeaf
<1>4. CASE UNCHANGED leafVars
  BY <1>4 DEF leafVars, LeafInv, LeafTypes, AllHold, EntriesHold, RowsHold, Visible, Over,
     Judged,
     Passing, Summarize
<1> QED
  BY <1>1, <1>2, <1>3, <1>4 DEF LeafNext

LEMMA LeafInvariant == LeafSpec => []LeafInv
BY LeafInitInv, LeafNextInv, PTL DEF LeafSpec

LEMMA StepFollows == LeafInv => StepTrue
<1> SUFFICES ASSUME LeafInv PROVE StepTrue
  OBVIOUS
<1>1. PassedTrue
  BY DEF LeafInv, AllHold, RowsHold, PassedTrue
<1>2. GreenTrue /\ FencedInDoubt
  BY DEF LeafInv, Judged, Over, Exits, GreenTrue, FencedInDoubt
<1> QED
  BY <1>1, <1>2 DEF StepTrue

\* What is reported of one step is true, for any number of tests and of crashes,
\* kills, hangs and failed writes: what passed has passed, green means that
\* nothing is left and nothing runs, and any doubt about that raises the fence.
THEOREM StepStaysTrue == LeafSpec => []StepTrue
BY LeafInvariant, StepFollows, PTL

-----------------------------------------------------------------------------
(* HostDrill: the inductive invariant.                                     *)

Ours == {Planned, Browser}

\* The places of a drill before its request is sent, and after.
Early == {"seed", "preview", "ask", "checked", "plan", "reserve", "browser"}
Restoring == {"baseline", "restore", "confirm", "restored"}
Following == {"replay", "race", "trial", "keep", "console", "poll", "report", "failed", "oracles"}
Later == Following \union Restoring \union {"compete", "observe", "credit", "pin", "ended", "killed"}
DrillPlaces == Early \union {"send"} \union Later

Drills == [pc : DrillPlaces, case : DOMAIN Cases, plan : Nat, seen : SUBSET Nat, at : Nat, sent : Ours,
           back : {"none", "registered", "inline"}, clean : BOOLEAN]

OpPhases == {"none", "Pending", "Running", "AwaitingConfirmation", "Confirmed"} \union Ended
Kinds == {"none", "power", "trial", "channel", "cache", "preview", "local"}

HostNodes == [boot : Nat, up : BOOLEAN, fresh : BOOLEAN]
Operations == [uid : Nat, req : Requests \union {0}, kind : Kinds, phase : OpPhases, boot : Nat]
DrillFiles == [state : {"none", "requested", "accepted", "verified"}, req : Ours \union {0}, uid : Nat]
Baselines == [state : {"none", "requested"}, req : Restorations \union {Preview, 0}, uid : Nat]

DrillTypes ==
  /\ drill \in Drills
  /\ node \in HostNodes
  /\ op \in Operations
  /\ file \in DrillFiles /\ baseline \in Baselines
  /\ starts \in [Requests -> Nat]
  /\ served \in [Requests -> [phase : OpPhases, boots : Int]]
  /\ raced \in BOOLEAN /\ owned \in BOOLEAN

\* The host's object: which kind of request it is, and since which boot.
OpKnown ==
  /\ op.uid = 0 <=> op.req = 0
  /\ op.uid = 0 => op.phase = "none"
  /\ op.uid # 0 => op.phase # "none"
  /\ op.req \in Ours => op.kind = My.kind
  /\ op.req \in Restorations => op.kind = "trial"
  /\ op.req = Preview => op.kind = "preview"
  /\ op.req = Other => op.phase = "Succeeded"
  /\ op.phase \in {"AwaitingConfirmation", "Confirmed"} => op.kind = "trial"
  /\ op.boot <= node.boot

\* A request is started once and served once, while it is the host's object.
ServedOnce ==
  /\ \A r \in Requests : /\ starts[r] <= 1
                         /\ served[r] # NotServed => starts[r] = 1
                         /\ served[r].phase = "none" => served[r] = NotServed
  /\ op.phase \in {"Running", "AwaitingConfirmation", "Confirmed"} =>
       starts[op.req] = 1 /\ served[op.req] = NotServed
  /\ op.req # Other /\ op.phase \in Ended \ {"Rejected"} => served[op.req].phase = op.phase

\* A power request succeeds only over a restart.
PowerServed ==
  My.kind = "power" =>
    \A r \in Ours : served[r].phase = "Succeeded" => served[r].boots >= 1

\* The request that was sent is the one in the file, and no other is sent.
FileNames ==
  /\ \A r \in Ours : (op.req = r \/ starts[r] > 0) => file.req = r /\ drill.pc \in Later
  /\ drill.pc = "browser" => My.ui
  /\ drill.pc \in Early => drill.sent = Planned
  /\ drill.pc \in Early => file.req \in {0, Planned}
  /\ drill.pc = "send" => file.req = drill.sent
  /\ ~My.ui => file.req \in {0, Planned}
  /\ drill.pc \in Following \union {"compete", "observe", "credit", "pin"} => file.req \in Ours

\* Restorations and the preview are recorded before they are asked for, and
\* their record is kept until the host has done with them.
BaselineNames ==
  /\ op.req \in Restorations \union {Preview} /\ op.phase \notin Ended => op.req = baseline.req
  /\ drill.pc \in {"seed", "preview"} => baseline.req = 0
  /\ drill.pc = "ask" => baseline.req = Preview
  /\ drill.pc \in {"restore", "confirm", "restored"} => baseline.req \in Restorations
  /\ drill.pc \in Restoring => drill.case = "keep"
  /\ drill.back # "none" => drill.case = "keep"

\* The cache race: a cleanup that runs while the model is wanted is a race.
RaceKnown ==
  /\ drill.case = "race" => drill.pc # "browser"
  /\ drill.case = "race" /\ drill.pc \in {"observe", "race"} => loader = "wanted"
  /\ drill.pc \in {"compete", "race"} => drill.case = "race"
  /\ drill.case = "race" =>
       (op.req = Planned /\ op.phase = "Running" /\ loader # "none" => raced)
  /\ drill.case = "race" /\ (drill.pc \in {"poll", "report", "failed", "oracles", "credit", "pin"}
                              \/ file.state = "verified") => raced
  /\ drill.case = "race" => drill.pc \notin {"replay", "trial", "keep", "console"}
  /\ file.uid <= op.uid /\ (file.uid = op.uid /\ op.uid # 0 => op.req = file.req)

\* The host carried out the request on record and ended it as expected.
DrillServed ==
  /\ file.req \in Ours
  /\ served[file.req].phase = My.terminal \/ (drill.case = "race" /\ served[file.req].phase = "Failed")

Credited ==
  /\ drill.pc \in {"oracles", "credit", "pin"} \/ drill.back = "inline" \/ file.state = "verified" => DrillServed
  /\ file.state = "verified" => drill.pc \in {"pin", "ended", "killed"}
  /\ drill.back = "inline" => drill.pc \in Restoring \union {"killed"}

\* Nothing is left for the host to do.
HostCalm == op.uid = 0 \/ op.phase \in Ended

NetworkKept ==
  drill.case = "keep" =>
    /\ drill.pc \notin {"seed", "preview", "ask", "checked", "compete", "race"}
    /\ drill.back = "none" => drill.pc \in {"plan", "credit", "pin", "ended", "killed"}
    /\ drill.pc \in {"plan", "credit", "pin"} \/ (drill.pc = "ended" /\ drill.clean) => net = "base" /\ HostCalm

DrillInv ==
  /\ DrillTypes /\ OpKnown /\ ServedOnce /\ PowerServed /\ FileNames /\ BaselineNames
  /\ RaceKnown /\ Credited /\ NetworkKept

-----------------------------------------------------------------------------
(* HostDrill: lemmas.                                                      *)

CaseNames == {"reboot", "memory", "prepare", "keep", "lapse", "console", "channel", "race"}

LEMMA CasesNamed == DOMAIN Cases = CaseNames
BY DEF Cases, Case, CaseNames

LEMMA CasesKnown ==
  \A c \in DOMAIN Cases :
    /\ Cases[c].kind \in {"power", "trial", "channel", "cache"}
    /\ Cases[c].kind = "power" => Cases[c].terminal = "Succeeded"
    /\ c = "race" => ~Cases[c].ui /\ Cases[c].kind = "cache" /\ Cases[c].terminal = "Succeeded"
    /\ c = "keep" => Cases[c].kind = "trial"
    /\ Cases[c].terminal \in {"Succeeded", "RolledBack"}
<1>1. \A c \in CaseNames : Cases[c].kind \in {"power", "trial", "channel", "cache"}
  BY DEF Cases, Case, CaseNames
<1>2. \A c \in CaseNames : Cases[c].kind = "power" => Cases[c].terminal = "Succeeded"
  BY DEF Cases, Case, CaseNames
<1>3. ~Cases["race"].ui /\ Cases["race"].kind = "cache" /\ Cases["race"].terminal = "Succeeded"
  BY DEF Cases, Case
<1>4. Cases["keep"].kind = "trial"
  BY DEF Cases, Case
<1>5. \A c \in CaseNames : Cases[c].terminal \in {"Succeeded", "RolledBack"}
  BY DEF Cases, Case, CaseNames
<1> QED
  BY <1>1, <1>2, <1>3, <1>4, <1>5, CasesNamed

\* A step of the drill to a place.
DrillMoves(s, back, clean) ==
  /\ drill' \in Drills /\ drill'.pc = s /\ drill'.case = drill.case /\ drill'.sent = drill.sent
  /\ drill'.back = back /\ (drill'.clean <=> clean)

GoesTo(s) == DrillMoves(s, drill.back, drill.clean)

Thrown ==
  IF drill.case = "keep" /\ drill.back # "none"
  THEN DrillMoves("baseline", IF drill.back = "inline" THEN "registered" ELSE drill.back, FALSE)
  ELSE DrillMoves("ended", drill.back, TRUE)

NotRestored ==
  IF drill.back = "inline" THEN DrillMoves("baseline", "registered", drill.clean) ELSE DrillMoves("ended", drill.back, FALSE)

IsRestored ==
  IF drill.back = "inline" THEN DrillMoves("credit", "none", drill.clean) ELSE DrillMoves("ended", drill.back, TRUE)

LEMMA GoMoves ==
  ASSUME DrillTypes, NEW s \in DrillPlaces, Go(s)
  PROVE  GoesTo(s)
BY DEF Go, DrillTypes, Drills, DrillMoves, GoesTo

LEMMA ThrowMoves ==
  ASSUME DrillInv, Throw
  PROVE  Thrown
<1>1. drill \in Drills /\ (drill.back # "none" => drill.case = "keep")
  BY DEF DrillInv, DrillTypes, BaselineNames
<1>2. "baseline" \in DrillPlaces /\ "ended" \in DrillPlaces
  BY DEF DrillPlaces, Later, Restoring
<1>3. CASE drill.case = "keep" /\ drill.back # "none"
  <2>1. drill' = [drill EXCEPT !.pc = "baseline", !.back = IF drill.back = "inline" THEN "registered" ELSE drill.back,
                               !.clean = FALSE]
    BY <1>3 DEF Throw
  <2>2. DrillMoves("baseline", IF drill.back = "inline" THEN "registered" ELSE drill.back, FALSE)
    BY <1>1, <1>2, <2>1 DEF DrillMoves, Drills
  <2> QED
    BY <1>3, <2>2 DEF Thrown
<1>4. CASE ~(drill.case = "keep" /\ drill.back # "none")
  <2>1. drill.back = "none"
    BY <1>1, <1>4 DEF Drills
  <2>2. drill' = [drill EXCEPT !.pc = "ended", !.back = IF drill.back = "inline" THEN "registered" ELSE drill.back,
                               !.clean = TRUE]
    BY <1>4 DEF Throw
  <2>3. DrillMoves("ended", drill.back, TRUE)
    BY <1>1, <1>2, <2>1, <2>2 DEF DrillMoves, Drills
  <2> QED
    BY <1>4, <2>3 DEF Thrown
<1> QED
  BY <1>3, <1>4

LEMMA RestorationFailsMoves ==
  ASSUME DrillTypes, RestorationFails
  PROVE  NotRestored
<1>1. drill \in Drills /\ "baseline" \in DrillPlaces /\ "ended" \in DrillPlaces
  BY DEF DrillTypes, DrillPlaces, Later, Restoring
<1> QED
  BY <1>1 DEF RestorationFails, NotRestored, DrillMoves, Drills

LEMMA RestoredMoves ==
  ASSUME DrillTypes, Restored
  PROVE  IsRestored
<1>1. drill \in Drills /\ "credit" \in DrillPlaces /\ "ended" \in DrillPlaces
  BY DEF DrillTypes, DrillPlaces, Later, Restoring
<1> QED
  BY <1>1 DEF Restored, IsRestored, DrillMoves, Drills

\* While the host's object and its history stay, what is known of them stays.
LEMMA HostKept ==
  ASSUME DrillInv, UNCHANGED <<op, node, served, starts>>, drill'.case = drill.case
  PROVE  OpKnown' /\ ServedOnce' /\ PowerServed'
BY DEF DrillInv, OpKnown, ServedOnce, PowerServed, My

\* The steps of a drill from which nothing but its place changes.
Onward == {<<"seed", "plan">>, <<"checked", "plan">>, <<"trial", "keep">>, <<"trial", "console">>,
           <<"trial", "poll">>, <<"replay", "poll">>, <<"keep", "poll">>, <<"console", "poll">>,
           <<"poll", "report">>, <<"report", "failed">>, <<"report", "poll">>, <<"ask", "checked">>,
           <<"restore", "confirm">>}

Throwing == Early \union {"send", "compete", "observe"} \union Following

QuietMove ==
  \/ Thrown /\ drill.pc \in Throwing
  \/ GoesTo("killed")
  \/ \E s \in DrillPlaces : <<drill.pc, s>> \in Onward /\ GoesTo(s)
  \/ drill.pc = "report" /\ DrillServed /\ GoesTo("oracles")
  \/ drill.pc = "plan" /\ DrillMoves("reserve", IF drill.case = "keep" THEN "registered" ELSE "none", drill.clean)
  \/ drill.pc = "oracles" /\ drill.case = "keep" /\ DrillMoves("baseline", "inline", drill.clean)
  \/ drill.pc = "oracles" /\ drill.case # "keep" /\ GoesTo("credit")
  \/ drill.pc = "pin" /\ DrillMoves("ended", drill.back, TRUE)
  \/ drill.pc \in Restoring /\ NotRestored
  \/ drill.pc \in Restoring /\ IsRestored /\ net = "base" /\ HostCalm

LEMMA QuietSafe ==
  ASSUME DrillInv, UNCHANGED <<op, node, net, served, starts, loader, file, baseline, raced>>,
         owned' \in BOOLEAN, QuietMove
  PROVE  DrillInv'
<1>1. drill' \in Drills /\ drill'.case = drill.case /\ drill'.sent = drill.sent
  BY DEF QuietMove, DrillMoves, GoesTo, Thrown, NotRestored, IsRestored
<1>2. OpKnown' /\ ServedOnce' /\ PowerServed'
  BY <1>1, HostKept
<1>3. DrillTypes'
  BY <1>1 DEF DrillInv, DrillTypes
<1>4. FileNames'
  BY DEF QuietMove, DrillMoves, GoesTo, Thrown, NotRestored, IsRestored, Onward, Throwing,
     DrillPlaces, Early, Following, Restoring, Later, DrillInv, FileNames, Credited,
     DrillServed, My, BaselineNames
<1>5. BaselineNames'
  BY DEF QuietMove, DrillMoves, GoesTo, Thrown, NotRestored, IsRestored, Onward, Throwing,
     DrillPlaces, Early, Following, Restoring, Later, DrillInv, BaselineNames
<1>6. RaceKnown'
  BY DEF QuietMove, DrillMoves, GoesTo, Thrown, NotRestored, IsRestored, Onward, Throwing,
     DrillPlaces, Early, Following, Restoring, Later, DrillInv, RaceKnown, BaselineNames
<1>7. Credited'
  BY DEF QuietMove, DrillMoves, GoesTo, Thrown, NotRestored, IsRestored, Onward, Throwing,
     DrillPlaces, Early, Following, Restoring, Later, DrillInv, Credited, DrillServed, My
<1>8. NetworkKept'
  BY DEF QuietMove, DrillMoves, GoesTo, Thrown, NotRestored, IsRestored, Onward, Throwing,
     DrillPlaces, Early, Following, Restoring, Later, DrillInv, NetworkKept, HostCalm,
     BaselineNames
<1> QED
  BY <1>2, <1>3, <1>4, <1>5, <1>6, <1>7, <1>8 DEF DrillInv

LEMMA TerminalServed ==
  ASSUME DrillInv, Terminal, drill.pc = "report"
  PROVE  DrillServed
<1>1. file.req \in Ours /\ op.req = file.req
  BY DEF DrillInv, FileNames, Following, Terminal
<1>2. op.phase = My.terminal \/ (drill.case = "race" /\ op.phase = "Failed")
  BY DEF Terminal
<1>3. My.terminal \in {"Succeeded", "RolledBack"}
  BY CasesKnown DEF DrillInv, DrillTypes, Drills, My
<1>4. served[op.req].phase = op.phase
  BY <1>1, <1>2, <1>3 DEF DrillInv, ServedOnce, Ended, Ours, Planned, Browser, Other
<1> QED
  BY <1>1, <1>2, <1>4 DEF DrillServed

LEMMA ReportMoves ==
  ASSUME DrillInv, drill' = [drill EXCEPT !.pc = "report", !.at = node.boot, !.seen = @ \cup {node.boot}]
  PROVE  GoesTo("report")
<1>1. drill \in Drills /\ node.boot \in Nat
  BY DEF DrillInv, DrillTypes, HostNodes
<1> QED
  BY <1>1 DEF GoesTo, DrillMoves, Drills, DrillPlaces, Later, Following

LEMMA InlineMoves ==
  ASSUME DrillInv, drill' = [drill EXCEPT !.pc = "baseline", !.back = "inline"]
  PROVE  DrillMoves("baseline", "inline", drill.clean)
<1>1. drill \in Drills
  BY DEF DrillInv, DrillTypes
<1> QED
  BY <1>1 DEF DrillMoves, Drills, DrillPlaces, Later, Restoring

LEMMA PlanMoves ==
  ASSUME DrillInv, drill' = [drill EXCEPT !.pc = "reserve", !.plan = node.boot,
                                          !.back = IF drill.case = "keep" THEN "registered" ELSE "none"]
  PROVE  DrillMoves("reserve", IF drill.case = "keep" THEN "registered" ELSE "none", drill.clean)
<1>1. drill \in Drills /\ node.boot \in Nat
  BY DEF DrillInv, DrillTypes, HostNodes
<1> QED
  BY <1>1 DEF DrillMoves, Drills, DrillPlaces, Early

LEMMA PinMoves ==
  ASSUME DrillInv, drill' = [drill EXCEPT !.pc = "ended", !.clean = TRUE]
  PROVE  DrillMoves("ended", drill.back, TRUE)
<1>1. drill \in Drills
  BY DEF DrillInv, DrillTypes
<1> QED
  BY <1>1 DEF DrillMoves, Drills, DrillPlaces, Later

LEMMA PrepareCacheFixtureSafe ==
  ASSUME DrillInv, PrepareCacheFixture
  PROVE  DrillInv'
<1>1. UNCHANGED <<op, node, net, served, starts, loader, file, baseline, raced>> /\ owned' \in BOOLEAN
  BY DEF PrepareCacheFixture, hostVars, DrillInv, DrillTypes
<1>2. QuietMove
  <2>1. CASE Throw
    BY <2>1, ThrowMoves DEF PrepareCacheFixture, At, QuietMove, Throwing, DrillPlaces, Early,
       Following, Restoring, Later
  <2>2. CASE Go("plan")
    BY <2>2, GoMoves DEF DrillInv, PrepareCacheFixture, At, QuietMove, Onward, DrillPlaces,
       Early, Following, Restoring, Later
  <2> QED
    BY <2>1, <2>2 DEF PrepareCacheFixture
<1> QED
  BY <1>1, <1>2, QuietSafe

LEMMA AwaitPreviewSafe ==
  ASSUME DrillInv, AwaitPreview
  PROVE  DrillInv'
<1>1. UNCHANGED <<op, node, net, served, starts, loader, file, baseline, raced>> /\ owned' \in BOOLEAN
  BY DEF AwaitPreview, hostVars, DrillInv, DrillTypes
<1>2. QuietMove
  <2>1. CASE Throw
    BY <2>1, ThrowMoves DEF AwaitPreview, At, QuietMove, Throwing, DrillPlaces, Early,
       Following, Restoring, Later
  <2>2. CASE Go("plan")
    BY <2>2, GoMoves DEF DrillInv, AwaitPreview, At, QuietMove, Onward, DrillPlaces, Early,
       Following, Restoring, Later
  <2> QED
    BY <2>1, <2>2 DEF AwaitPreview
<1> QED
  BY <1>1, <1>2, QuietSafe

LEMMA AwaitTrialSafe ==
  ASSUME DrillInv, AwaitTrial
  PROVE  DrillInv'
<1>1. UNCHANGED <<op, node, net, served, starts, loader, file, baseline, raced>> /\ owned' \in BOOLEAN
  BY DEF AwaitTrial, hostVars, DrillInv, DrillTypes
<1>2. QuietMove
  <2>1. CASE Throw
    BY <2>1, ThrowMoves DEF AwaitTrial, At, QuietMove, Throwing, DrillPlaces, Early, Following,
       Restoring, Later
  <2>2. CASE Go("keep")
    BY <2>2, GoMoves DEF DrillInv, AwaitTrial, At, QuietMove, Onward, DrillPlaces, Early,
       Following, Restoring, Later
  <2>3. CASE Go("console")
    BY <2>3, GoMoves DEF DrillInv, AwaitTrial, At, QuietMove, Onward, DrillPlaces, Early,
       Following, Restoring, Later
  <2>4. CASE Go("poll")
    BY <2>4, GoMoves DEF DrillInv, AwaitTrial, At, QuietMove, Onward, DrillPlaces, Early,
       Following, Restoring, Later
  <2> QED
    BY <2>1, <2>2, <2>3, <2>4 DEF AwaitTrial
<1> QED
  BY <1>1, <1>2, QuietSafe

LEMMA AwaitConsoleSafe ==
  ASSUME DrillInv, AwaitConsole
  PROVE  DrillInv'
<1>1. UNCHANGED <<op, node, net, served, starts, loader, file, baseline, raced>> /\ owned' \in BOOLEAN
  BY DEF AwaitConsole, hostVars, DrillInv, DrillTypes
<1>2. QuietMove
  <2>1. CASE Throw
    BY <2>1, ThrowMoves DEF AwaitConsole, At, QuietMove, Throwing, DrillPlaces, Early,
       Following, Restoring, Later
  <2>2. CASE Go("poll")
    BY <2>2, GoMoves DEF DrillInv, AwaitConsole, At, QuietMove, Onward, DrillPlaces, Early,
       Following, Restoring, Later
  <2> QED
    BY <2>1, <2>2 DEF AwaitConsole
<1> QED
  BY <1>1, <1>2, QuietSafe

LEMMA PollTimesOutSafe ==
  ASSUME DrillInv, PollTimesOut
  PROVE  DrillInv'
<1>1. UNCHANGED <<op, node, net, served, starts, loader, file, baseline, raced>> /\ owned' \in BOOLEAN
  BY DEF PollTimesOut, hostVars, DrillInv, DrillTypes
<1>2. QuietMove
  <2>1. CASE Throw
    BY <2>1, ThrowMoves DEF PollTimesOut, At, QuietMove, Throwing, DrillPlaces, Early,
       Following, Restoring, Later
  <2> QED
    BY <2>1 DEF PollTimesOut
<1> QED
  BY <1>1, <1>2, QuietSafe

LEMMA VerifyFailedSafe ==
  ASSUME DrillInv, VerifyFailed
  PROVE  DrillInv'
<1>1. UNCHANGED <<op, node, net, served, starts, loader, file, baseline, raced>> /\ owned' \in BOOLEAN
  BY DEF VerifyFailed, hostVars, DrillInv, DrillTypes
<1>2. QuietMove
  <2>1. CASE Throw
    BY <2>1, ThrowMoves DEF VerifyFailed, At, QuietMove, Throwing, DrillPlaces, Early,
       Following, Restoring, Later
  <2> QED
    BY <2>1 DEF VerifyFailed
<1> QED
  BY <1>1, <1>2, QuietSafe

LEMMA DrillKilledSafe ==
  ASSUME DrillInv, DrillKilled
  PROVE  DrillInv'
<1>1. UNCHANGED <<op, node, net, served, starts, loader, file, baseline, raced>> /\ owned' \in BOOLEAN
  BY DEF DrillKilled, hostVars, DrillInv, DrillTypes
<1>2. QuietMove
  <2>1. CASE Go("killed")
    BY <2>1, GoMoves DEF DrillInv, QuietMove, DrillPlaces, Early, Following, Restoring, Later
  <2> QED
    BY <2>1 DEF DrillKilled
<1> QED
  BY <1>1, <1>2, QuietSafe

LEMMA PollNodeSafe ==
  ASSUME DrillInv, PollNode
  PROVE  DrillInv'
<1>1. UNCHANGED <<op, node, net, served, starts, loader, file, baseline, raced>> /\ owned' \in BOOLEAN
  BY DEF PollNode, hostVars, DrillInv, DrillTypes
<1>2. QuietMove
  <2>1. CASE Throw
    BY <2>1, ThrowMoves DEF PollNode, At, QuietMove, Throwing, DrillPlaces, Early, Following,
       Restoring, Later
  <2>2. CASE owned /\ drill' = [drill EXCEPT !.pc = "report", !.at = node.boot, !.seen = @ \cup {node.boot}]
    BY <2>2, ReportMoves DEF PollNode, At, QuietMove, Onward, DrillPlaces, Early, Following,
       Restoring, Later
  <2> QED
    BY <2>1, <2>2 DEF PollNode
<1> QED
  BY <1>1, <1>2, QuietSafe

LEMMA PollReportSafe ==
  ASSUME DrillInv, PollReport
  PROVE  DrillInv'
<1>1. UNCHANGED <<op, node, net, served, starts, loader, file, baseline, raced>> /\ owned' \in BOOLEAN
  BY DEF PollReport, hostVars, DrillInv, DrillTypes
<1>2. QuietMove
  <2>1. CASE Go("oracles") /\ Terminal
    BY <2>1, GoMoves, TerminalServed DEF DrillInv, PollReport, At, QuietMove, DrillPlaces,
       Early, Following, Restoring, Later
  <2>2. CASE Go("failed")
    BY <2>2, GoMoves DEF DrillInv, PollReport, At, QuietMove, Onward, DrillPlaces, Early,
       Following, Restoring, Later
  <2>3. CASE Go("poll")
    BY <2>3, GoMoves DEF DrillInv, PollReport, At, QuietMove, Onward, DrillPlaces, Early,
       Following, Restoring, Later
  <2> QED
    BY <2>1, <2>2, <2>3 DEF PollReport
<1> QED
  BY <1>1, <1>2, QuietSafe

LEMMA OraclesSafe ==
  ASSUME DrillInv, Oracles
  PROVE  DrillInv'
<1>1. UNCHANGED <<op, node, net, served, starts, loader, file, baseline, raced>> /\ owned' \in BOOLEAN
  BY DEF Oracles, hostVars, DrillInv, DrillTypes
<1>2. QuietMove
  <2>1. CASE Throw
    BY <2>1, ThrowMoves DEF Oracles, At, QuietMove, Throwing, DrillPlaces, Early, Following,
       Restoring, Later
  <2>2. CASE drill.case = "keep" /\ drill' = [drill EXCEPT !.pc = "baseline", !.back = "inline"]
    BY <2>2, InlineMoves DEF DrillInv, Oracles, At, QuietMove, DrillPlaces, Early, Following,
       Restoring, Later
  <2>3. CASE drill.case # "keep" /\ Go("credit")
    BY <2>3, GoMoves DEF DrillInv, Oracles, At, QuietMove, DrillPlaces, Early, Following,
       Restoring, Later
  <2> QED
    BY <2>1, <2>2, <2>3 DEF Oracles, Go
<1> QED
  BY <1>1, <1>2, QuietSafe

LEMMA ParseHostDrillSafe ==
  ASSUME DrillInv, ParseHostDrill
  PROVE  DrillInv'
<1>1. UNCHANGED <<op, node, net, served, starts, loader, file, baseline, raced>> /\ owned' \in BOOLEAN
  BY DEF ParseHostDrill, hostVars, DrillInv, DrillTypes
<1>2. QuietMove
  <2>1. CASE Throw
    BY <2>1, ThrowMoves DEF ParseHostDrill, At, QuietMove, Throwing, DrillPlaces, Early,
       Following, Restoring, Later
  <2>2. CASE drill' = [drill EXCEPT !.pc = "reserve", !.plan = node.boot, !.back = IF drill.case = "keep" THEN "registered" ELSE "none"]
    BY <2>2, PlanMoves DEF ParseHostDrill, At, QuietMove, DrillPlaces, Early, Following,
       Restoring, Later
  <2> QED
    BY <2>1, <2>2 DEF ParseHostDrill
<1> QED
  BY <1>1, <1>2, QuietSafe

LEMMA PinSafe ==
  ASSUME DrillInv, Pin
  PROVE  DrillInv'
<1>1. UNCHANGED <<op, node, net, served, starts, loader, file, baseline, raced>> /\ owned' \in BOOLEAN
  BY DEF Pin, hostVars, DrillInv, DrillTypes
<1>2. QuietMove
  <2>1. CASE drill' = [drill EXCEPT !.pc = "ended", !.clean = TRUE]
    BY <2>1, PinMoves DEF Pin, At, QuietMove, DrillPlaces, Early, Following, Restoring, Later
  <2> QED
    BY <2>1 DEF Pin
<1> QED
  BY <1>1, <1>2, QuietSafe

-----------------------------------------------------------------------------
(* HostDrill: the writes of a drill.                                       *)

LEMMA PreviewRecorded ==
  ASSUME DrillInv, UNCHANGED <<op, node, net, served, starts>>, owned' \in BOOLEAN,
         baseline' \in Baselines, baseline'.req = Preview, UNCHANGED <<loader, file, raced>>,
         drill.pc = "preview", GoesTo("ask")
  PROVE  DrillInv'
<1>1. drill' \in Drills /\ drill'.case = drill.case
  BY DEF DrillMoves, GoesTo, Thrown, NotRestored, IsRestored
<1>2. OpKnown' /\ ServedOnce' /\ PowerServed'
  BY <1>1, HostKept
<1>3. DrillTypes'
  BY <1>1 DEF DrillInv, DrillTypes
<1>4. FileNames'
  BY CasesKnown DEF Operations, DrillMoves, GoesTo, Thrown, NotRestored, IsRestored, Onward,
     DrillPlaces, Early, Following, Restoring, Later, DrillInv, FileNames, Planned, Browser,
     Credited, DrillServed, My, BaselineNames, DrillTypes, Drills, Ours, DrillFiles
<1>5. BaselineNames'
  BY CasesKnown DEF Operations, DrillMoves, GoesTo, Thrown, NotRestored, IsRestored, Onward,
     DrillPlaces, Early, Following, Restoring, Later, DrillInv, BaselineNames, OpKnown,
     Restorations, Preview, Ended, NetworkKept, HostCalm, DrillTypes, Drills
<1>6. RaceKnown'
  BY CasesKnown DEF Operations, DrillMoves, GoesTo, Thrown, NotRestored, IsRestored, Onward,
     DrillPlaces, Early, Following, Restoring, Later, DrillInv, RaceKnown, BaselineNames,
     FileNames, OpKnown, My, Ours, DrillTypes, Drills, Operations
<1>7. Credited'
  BY CasesKnown DEF Operations, DrillMoves, GoesTo, Thrown, NotRestored, IsRestored, Onward,
     DrillPlaces, Early, Following, Restoring, Later, DrillInv, Credited, DrillServed, My,
     FileNames, BaselineNames, Ours
<1>8. NetworkKept'
  BY CasesKnown DEF Operations, DrillMoves, GoesTo, Thrown, NotRestored, IsRestored, Onward,
     DrillPlaces, Early, Following, Restoring, Later, DrillInv, NetworkKept, HostCalm,
     BaselineNames, FileNames, Ended
<1> QED
  BY <1>2, <1>3, <1>4, <1>5, <1>6, <1>7, <1>8 DEF DrillInv

LEMMA RequestPersisted ==
  ASSUME DrillInv, UNCHANGED <<op, node, net, served, starts>>, owned' \in BOOLEAN,
         file' \in DrillFiles, file'.req = Planned, file'.state = "requested", file'.uid = 0, UNCHANGED <<loader, baseline, raced>>,
         drill.pc = "reserve", (GoesTo("browser") /\ My.ui) \/ (GoesTo("send") /\ ~My.ui)
  PROVE  DrillInv'
<1>1. drill' \in Drills /\ drill'.case = drill.case
  BY DEF DrillMoves, GoesTo, Thrown, NotRestored, IsRestored
<1>2. OpKnown' /\ ServedOnce' /\ PowerServed'
  BY <1>1, HostKept
<1>3. DrillTypes'
  BY <1>1 DEF DrillInv, DrillTypes
<1>4. FileNames'
  BY CasesKnown DEF Operations, DrillMoves, GoesTo, Thrown, NotRestored, IsRestored, Onward,
     DrillPlaces, Early, Following, Restoring, Later, DrillInv, FileNames, Planned, Browser,
     Credited, DrillServed, My, BaselineNames, DrillTypes, Drills, Ours, DrillFiles
<1>5. BaselineNames'
  BY CasesKnown DEF Operations, DrillMoves, GoesTo, Thrown, NotRestored, IsRestored, Onward,
     DrillPlaces, Early, Following, Restoring, Later, DrillInv, BaselineNames, OpKnown,
     Restorations, Preview, Ended, NetworkKept, HostCalm, DrillTypes, Drills
<1>6. RaceKnown'
  BY CasesKnown DEF Operations, DrillMoves, GoesTo, Thrown, NotRestored, IsRestored, Onward,
     DrillPlaces, Early, Following, Restoring, Later, DrillInv, RaceKnown, BaselineNames,
     FileNames, OpKnown, My, Ours, DrillTypes, Drills, Operations
<1>7. Credited'
  BY CasesKnown DEF Operations, DrillMoves, GoesTo, Thrown, NotRestored, IsRestored, Onward,
     DrillPlaces, Early, Following, Restoring, Later, DrillInv, Credited, DrillServed, My,
     FileNames, BaselineNames, Ours
<1>8. NetworkKept'
  BY CasesKnown DEF Operations, DrillMoves, GoesTo, Thrown, NotRestored, IsRestored, Onward,
     DrillPlaces, Early, Following, Restoring, Later, DrillInv, NetworkKept, HostCalm,
     BaselineNames, FileNames, Ended
<1> QED
  BY <1>2, <1>3, <1>4, <1>5, <1>6, <1>7, <1>8 DEF DrillInv

LEMMA BrowserRecorded ==
  ASSUME DrillInv, UNCHANGED <<op, node, net, served, starts>>, owned' \in BOOLEAN,
         file' \in DrillFiles, file'.req = Browser, file'.state = file.state, file'.uid = file.uid, UNCHANGED <<loader, baseline, raced>>,
         drill.pc = "browser", drill' \in Drills, drill'.pc = "send", drill'.case = drill.case,
         drill'.sent = Browser, drill'.back = drill.back, drill'.clean = drill.clean
  PROVE  DrillInv'
<1>1. drill' \in Drills /\ drill'.case = drill.case
  BY DEF DrillMoves, GoesTo, Thrown, NotRestored, IsRestored
<1>2. OpKnown' /\ ServedOnce' /\ PowerServed'
  BY <1>1, HostKept
<1>3. DrillTypes'
  BY <1>1 DEF DrillInv, DrillTypes
<1>4. FileNames'
  BY CasesKnown DEF Operations, DrillMoves, GoesTo, Thrown, NotRestored, IsRestored, Onward,
     DrillPlaces, Early, Following, Restoring, Later, DrillInv, FileNames, Planned, Browser,
     Credited, DrillServed, My, BaselineNames, DrillTypes, Drills, Ours, DrillFiles
<1>5. BaselineNames'
  BY CasesKnown DEF Operations, DrillMoves, GoesTo, Thrown, NotRestored, IsRestored, Onward,
     DrillPlaces, Early, Following, Restoring, Later, DrillInv, BaselineNames, OpKnown,
     Restorations, Preview, Ended, NetworkKept, HostCalm, DrillTypes, Drills
<1>6. RaceKnown'
  BY CasesKnown DEF Operations, DrillMoves, GoesTo, Thrown, NotRestored, IsRestored, Onward,
     DrillPlaces, Early, Following, Restoring, Later, DrillInv, RaceKnown, BaselineNames,
     FileNames, OpKnown, My, Ours, DrillTypes, Drills, Operations
<1>7. Credited'
  BY CasesKnown DEF Operations, DrillMoves, GoesTo, Thrown, NotRestored, IsRestored, Onward,
     DrillPlaces, Early, Following, Restoring, Later, DrillInv, Credited, DrillServed, My,
     FileNames, BaselineNames, Ours
<1>8. NetworkKept'
  BY CasesKnown DEF Operations, DrillMoves, GoesTo, Thrown, NotRestored, IsRestored, Onward,
     DrillPlaces, Early, Following, Restoring, Later, DrillInv, NetworkKept, HostCalm,
     BaselineNames, FileNames, Ended
<1> QED
  BY <1>2, <1>3, <1>4, <1>5, <1>6, <1>7, <1>8 DEF DrillInv

LEMMA RaceStarted ==
  ASSUME DrillInv, UNCHANGED <<op, node, net, served, starts>>, owned' \in BOOLEAN,
         loader' = "wanted", raced' \in BOOLEAN, raced' <=> (raced \/ (op.req = Planned /\ op.phase = "Running")), UNCHANGED <<file, baseline>>,
         drill.pc = "compete", GoesTo("observe")
  PROVE  DrillInv'
<1>1. drill' \in Drills /\ drill'.case = drill.case
  BY DEF DrillMoves, GoesTo, Thrown, NotRestored, IsRestored
<1>2. OpKnown' /\ ServedOnce' /\ PowerServed'
  BY <1>1, HostKept
<1>3. DrillTypes'
  BY <1>1 DEF DrillInv, DrillTypes
<1>4. FileNames'
  BY CasesKnown DEF Operations, DrillMoves, GoesTo, Thrown, NotRestored, IsRestored, Onward,
     DrillPlaces, Early, Following, Restoring, Later, DrillInv, FileNames, Planned, Browser,
     Credited, DrillServed, My, BaselineNames, DrillTypes, Drills, Ours, DrillFiles
<1>5. BaselineNames'
  BY CasesKnown DEF Operations, DrillMoves, GoesTo, Thrown, NotRestored, IsRestored, Onward,
     DrillPlaces, Early, Following, Restoring, Later, DrillInv, BaselineNames, OpKnown,
     Restorations, Preview, Ended, NetworkKept, HostCalm, DrillTypes, Drills
<1>6. RaceKnown'
  BY CasesKnown DEF Operations, DrillMoves, GoesTo, Thrown, NotRestored, IsRestored, Onward,
     DrillPlaces, Early, Following, Restoring, Later, DrillInv, RaceKnown, BaselineNames,
     FileNames, OpKnown, My, Ours, DrillTypes, Drills, Operations
<1>7. Credited'
  BY CasesKnown DEF Operations, DrillMoves, GoesTo, Thrown, NotRestored, IsRestored, Onward,
     DrillPlaces, Early, Following, Restoring, Later, DrillInv, Credited, DrillServed, My,
     FileNames, BaselineNames, Ours
<1>8. NetworkKept'
  BY CasesKnown DEF Operations, DrillMoves, GoesTo, Thrown, NotRestored, IsRestored, Onward,
     DrillPlaces, Early, Following, Restoring, Later, DrillInv, NetworkKept, HostCalm,
     BaselineNames, FileNames, Ended
<1> QED
  BY <1>2, <1>3, <1>4, <1>5, <1>6, <1>7, <1>8 DEF DrillInv

LEMMA IntentSeen ==
  ASSUME DrillInv, UNCHANGED <<op, node, net, served, starts>>, owned' \in BOOLEAN,
         file' \in DrillFiles, file'.req = file.req, file'.state = "accepted", file'.uid = op.uid, UNCHANGED <<loader, baseline, raced>>,
         drill.pc = "observe", op.req = file.req,
         \/ GoesTo("replay") /\ drill.case = "prepare"
         \/ GoesTo("race") /\ drill.case = "race"
         \/ GoesTo("trial") /\ My.kind = "trial"
         \/ GoesTo("poll") /\ drill.case # "race"
  PROVE  DrillInv'
<1>1. drill' \in Drills /\ drill'.case = drill.case
  BY DEF DrillMoves, GoesTo, Thrown, NotRestored, IsRestored
<1>2. OpKnown' /\ ServedOnce' /\ PowerServed'
  BY <1>1, HostKept
<1>3. DrillTypes'
  BY <1>1 DEF DrillInv, DrillTypes
<1>4. FileNames'
  BY CasesKnown DEF Operations, DrillMoves, GoesTo, Thrown, NotRestored, IsRestored, Onward,
     DrillPlaces, Early, Following, Restoring, Later, DrillInv, FileNames, Planned, Browser,
     Credited, DrillServed, My, BaselineNames, DrillTypes, Drills, Ours, DrillFiles
<1>5. BaselineNames'
  BY CasesKnown DEF Operations, DrillMoves, GoesTo, Thrown, NotRestored, IsRestored, Onward,
     DrillPlaces, Early, Following, Restoring, Later, DrillInv, BaselineNames, OpKnown,
     Restorations, Preview, Ended, NetworkKept, HostCalm, DrillTypes, Drills
<1>6. RaceKnown'
  BY CasesKnown DEF Operations, DrillMoves, GoesTo, Thrown, NotRestored, IsRestored, Onward,
     DrillPlaces, Early, Following, Restoring, Later, DrillInv, RaceKnown, BaselineNames,
     FileNames, OpKnown, My, Ours, DrillTypes, Drills, Operations
<1>7. Credited'
  BY CasesKnown DEF Operations, DrillMoves, GoesTo, Thrown, NotRestored, IsRestored, Onward,
     DrillPlaces, Early, Following, Restoring, Later, DrillInv, Credited, DrillServed, My,
     FileNames, BaselineNames, Ours
<1>8. NetworkKept'
  BY CasesKnown DEF Operations, DrillMoves, GoesTo, Thrown, NotRestored, IsRestored, Onward,
     DrillPlaces, Early, Following, Restoring, Later, DrillInv, NetworkKept, HostCalm,
     BaselineNames, FileNames, Ended
<1> QED
  BY <1>2, <1>3, <1>4, <1>5, <1>6, <1>7, <1>8 DEF DrillInv

LEMMA RaceEnded ==
  ASSUME DrillInv, UNCHANGED <<op, node, net, served, starts>>, owned' \in BOOLEAN,
         loader' = "removed", UNCHANGED <<file, baseline, raced>>,
         drill.pc = "race", GoesTo("poll"), raced
  PROVE  DrillInv'
<1>1. drill' \in Drills /\ drill'.case = drill.case
  BY DEF DrillMoves, GoesTo, Thrown, NotRestored, IsRestored
<1>2. OpKnown' /\ ServedOnce' /\ PowerServed'
  BY <1>1, HostKept
<1>3. DrillTypes'
  BY <1>1 DEF DrillInv, DrillTypes
<1>4. FileNames'
  BY CasesKnown DEF Operations, DrillMoves, GoesTo, Thrown, NotRestored, IsRestored, Onward,
     DrillPlaces, Early, Following, Restoring, Later, DrillInv, FileNames, Planned, Browser,
     Credited, DrillServed, My, BaselineNames, DrillTypes, Drills, Ours, DrillFiles
<1>5. BaselineNames'
  BY CasesKnown DEF Operations, DrillMoves, GoesTo, Thrown, NotRestored, IsRestored, Onward,
     DrillPlaces, Early, Following, Restoring, Later, DrillInv, BaselineNames, OpKnown,
     Restorations, Preview, Ended, NetworkKept, HostCalm, DrillTypes, Drills
<1>6. RaceKnown'
  BY CasesKnown DEF Operations, DrillMoves, GoesTo, Thrown, NotRestored, IsRestored, Onward,
     DrillPlaces, Early, Following, Restoring, Later, DrillInv, RaceKnown, BaselineNames,
     FileNames, OpKnown, My, Ours, DrillTypes, Drills, Operations
<1>7. Credited'
  BY CasesKnown DEF Operations, DrillMoves, GoesTo, Thrown, NotRestored, IsRestored, Onward,
     DrillPlaces, Early, Following, Restoring, Later, DrillInv, Credited, DrillServed, My,
     FileNames, BaselineNames, Ours
<1>8. NetworkKept'
  BY CasesKnown DEF Operations, DrillMoves, GoesTo, Thrown, NotRestored, IsRestored, Onward,
     DrillPlaces, Early, Following, Restoring, Later, DrillInv, NetworkKept, HostCalm,
     BaselineNames, FileNames, Ended
<1> QED
  BY <1>2, <1>3, <1>4, <1>5, <1>6, <1>7, <1>8 DEF DrillInv

LEMMA RestorationRecorded ==
  ASSUME DrillInv, UNCHANGED <<op, node, net, served, starts>>, owned' \in BOOLEAN,
         baseline' \in Baselines, baseline'.req \in Restorations, UNCHANGED <<loader, file, raced>>,
         drill.pc = "baseline", GoesTo("restore"), HostCalm
  PROVE  DrillInv'
<1>1. drill' \in Drills /\ drill'.case = drill.case
  BY DEF DrillMoves, GoesTo, Thrown, NotRestored, IsRestored
<1>2. OpKnown' /\ ServedOnce' /\ PowerServed'
  BY <1>1, HostKept
<1>3. DrillTypes'
  BY <1>1 DEF DrillInv, DrillTypes
<1>4. FileNames'
  BY CasesKnown DEF Operations, DrillMoves, GoesTo, Thrown, NotRestored, IsRestored, Onward,
     DrillPlaces, Early, Following, Restoring, Later, DrillInv, FileNames, Planned, Browser,
     Credited, DrillServed, My, BaselineNames, DrillTypes, Drills, Ours, DrillFiles
<1>5. BaselineNames'
  BY CasesKnown DEF Operations, DrillMoves, GoesTo, Thrown, NotRestored, IsRestored, Onward,
     DrillPlaces, Early, Following, Restoring, Later, DrillInv, BaselineNames, OpKnown,
     Restorations, Preview, Ended, NetworkKept, HostCalm, DrillTypes, Drills
<1>6. RaceKnown'
  BY CasesKnown DEF Operations, DrillMoves, GoesTo, Thrown, NotRestored, IsRestored, Onward,
     DrillPlaces, Early, Following, Restoring, Later, DrillInv, RaceKnown, BaselineNames,
     FileNames, OpKnown, My, Ours, DrillTypes, Drills, Operations
<1>7. Credited'
  BY CasesKnown DEF Operations, DrillMoves, GoesTo, Thrown, NotRestored, IsRestored, Onward,
     DrillPlaces, Early, Following, Restoring, Later, DrillInv, Credited, DrillServed, My,
     FileNames, BaselineNames, Ours
<1>8. NetworkKept'
  BY CasesKnown DEF Operations, DrillMoves, GoesTo, Thrown, NotRestored, IsRestored, Onward,
     DrillPlaces, Early, Following, Restoring, Later, DrillInv, NetworkKept, HostCalm,
     BaselineNames, FileNames, Ended
<1> QED
  BY <1>2, <1>3, <1>4, <1>5, <1>6, <1>7, <1>8 DEF DrillInv

LEMMA RequestCredited ==
  ASSUME DrillInv, UNCHANGED <<op, node, net, served, starts>>, owned' \in BOOLEAN,
         file' \in DrillFiles, file'.req = file.req, file'.state = "verified", file'.uid = file.uid, UNCHANGED <<loader, baseline, raced>>,
         drill.pc = "credit", GoesTo("pin")
  PROVE  DrillInv'
<1>1. drill' \in Drills /\ drill'.case = drill.case
  BY DEF DrillMoves, GoesTo, Thrown, NotRestored, IsRestored
<1>2. OpKnown' /\ ServedOnce' /\ PowerServed'
  BY <1>1, HostKept
<1>3. DrillTypes'
  BY <1>1 DEF DrillInv, DrillTypes
<1>4. FileNames'
  BY CasesKnown DEF Operations, DrillMoves, GoesTo, Thrown, NotRestored, IsRestored, Onward,
     DrillPlaces, Early, Following, Restoring, Later, DrillInv, FileNames, Planned, Browser,
     Credited, DrillServed, My, BaselineNames, DrillTypes, Drills, Ours, DrillFiles
<1>5. BaselineNames'
  BY CasesKnown DEF Operations, DrillMoves, GoesTo, Thrown, NotRestored, IsRestored, Onward,
     DrillPlaces, Early, Following, Restoring, Later, DrillInv, BaselineNames, OpKnown,
     Restorations, Preview, Ended, NetworkKept, HostCalm, DrillTypes, Drills
<1>6. RaceKnown'
  BY CasesKnown DEF Operations, DrillMoves, GoesTo, Thrown, NotRestored, IsRestored, Onward,
     DrillPlaces, Early, Following, Restoring, Later, DrillInv, RaceKnown, BaselineNames,
     FileNames, OpKnown, My, Ours, DrillTypes, Drills, Operations
<1>7. Credited'
  BY CasesKnown DEF Operations, DrillMoves, GoesTo, Thrown, NotRestored, IsRestored, Onward,
     DrillPlaces, Early, Following, Restoring, Later, DrillInv, Credited, DrillServed, My,
     FileNames, BaselineNames, Ours
<1>8. NetworkKept'
  BY CasesKnown DEF Operations, DrillMoves, GoesTo, Thrown, NotRestored, IsRestored, Onward,
     DrillPlaces, Early, Following, Restoring, Later, DrillInv, NetworkKept, HostCalm,
     BaselineNames, FileNames, Ended
<1> QED
  BY <1>2, <1>3, <1>4, <1>5, <1>6, <1>7, <1>8 DEF DrillInv

-----------------------------------------------------------------------------
(* HostDrill: the host's steps.                                            *)

LEMMA NodeMoves ==
  ASSUME DrillInv, node' \in HostNodes, node'.boot >= node.boot, owned' \in BOOLEAN,
         UNCHANGED <<op, net, served, starts, loader, drill, file, baseline, raced>>
  PROVE  DrillInv'
<1>1. DrillTypes'
  BY DEF DrillInv, DrillTypes
<1>2. OpKnown'
  BY CasesKnown DEF DrillInv, DrillTypes, Drills, DrillPlaces, OpKnown, My, Ended, Ours,
     HostNodes, Operations, Restorations, Requests, Planned, Browser, Other, Preview
<1>3. ServedOnce'
  BY DEF DrillInv, ServedOnce
<1>4. PowerServed'
  BY DEF DrillInv, PowerServed, My
<1>5. FileNames'
  BY DEF DrillInv, FileNames, My
<1>6. BaselineNames'
  BY DEF DrillInv, BaselineNames
<1>7. RaceKnown'
  BY DEF DrillInv, RaceKnown
<1>8. Credited'
  BY DEF DrillInv, Credited, DrillServed, My
<1>9. NetworkKept'
  BY DEF DrillInv, NetworkKept, HostCalm
<1> QED
  BY <1>1, <1>2, <1>3, <1>4, <1>5, <1>6, <1>7, <1>8, <1>9 DEF DrillInv

LEMMA WorkerRebootsSafe ==
  ASSUME DrillInv, WorkerReboots
  PROVE  DrillInv'
<1>1. node \in HostNodes /\ owned \in BOOLEAN
  BY DEF DrillInv, DrillTypes
<1>2. node' \in HostNodes /\ node'.boot >= node.boot
  BY <1>1 DEF WorkerReboots, HostNodes
<1>3. owned' \in BOOLEAN /\ UNCHANGED <<op, net, served, starts, loader, drill, file, baseline, raced>>
  BY <1>1 DEF WorkerReboots, runVars
<1> QED
  BY <1>2, <1>3, NodeMoves

LEMMA NodeUpSafe ==
  ASSUME DrillInv, NodeUp
  PROVE  DrillInv'
<1>1. node \in HostNodes /\ owned \in BOOLEAN
  BY DEF DrillInv, DrillTypes
<1>2. node' \in HostNodes /\ node'.boot >= node.boot
  <2>1. node' = [node EXCEPT !.up = TRUE]
    BY DEF NodeUp
  <2>2. node' \in HostNodes /\ node'.boot = node.boot /\ node.boot \in Nat
    BY <1>1, <2>1 DEF HostNodes
  <2> QED
    BY <2>2
<1>3. owned' \in BOOLEAN /\ UNCHANGED <<op, net, served, starts, loader, drill, file, baseline, raced>>
  BY <1>1 DEF NodeUp, runVars
<1> QED
  BY <1>2, <1>3, NodeMoves

LEMMA WorkerReportsSafe ==
  ASSUME DrillInv, WorkerReports
  PROVE  DrillInv'
<1>1. node \in HostNodes /\ owned \in BOOLEAN
  BY DEF DrillInv, DrillTypes
<1>2. node' \in HostNodes /\ node'.boot >= node.boot
  <2>1. node' = [node EXCEPT !.fresh = TRUE]
    BY DEF WorkerReports
  <2>2. node' \in HostNodes /\ node'.boot = node.boot /\ node.boot \in Nat
    BY <1>1, <2>1 DEF HostNodes
  <2> QED
    BY <2>2
<1>3. owned' \in BOOLEAN /\ UNCHANGED <<op, net, served, starts, loader, drill, file, baseline, raced>>
  BY <1>1 DEF WorkerReports, runVars
<1> QED
  BY <1>2, <1>3, NodeMoves

LEMMA HostRestartsSafe ==
  ASSUME DrillInv, HostRestarts
  PROVE  DrillInv'
<1>1. node \in HostNodes /\ owned \in BOOLEAN
  BY DEF DrillInv, DrillTypes
<1>2. node' \in HostNodes /\ node'.boot >= node.boot
  BY <1>1 DEF HostRestarts, HostNodes, DFault
<1>3. owned' \in BOOLEAN /\ UNCHANGED <<op, net, served, starts, loader, drill, file, baseline, raced>>
  BY <1>1 DEF HostRestarts, runVars, DFault
<1> QED
  BY <1>2, <1>3, NodeMoves

LEMMA LeaseLostSafe ==
  ASSUME DrillInv, LeaseLost
  PROVE  DrillInv'
<1>1. node \in HostNodes /\ owned \in BOOLEAN
  BY DEF DrillInv, DrillTypes
<1>2. node' \in HostNodes /\ node'.boot >= node.boot
  BY <1>1 DEF LeaseLost, HostNodes, hostVars
<1>3. owned' \in BOOLEAN /\ UNCHANGED <<op, net, served, starts, loader, drill, file, baseline, raced>>
  BY <1>1 DEF LeaseLost, runVars, hostVars
<1> QED
  BY <1>2, <1>3, NodeMoves

LEMMA RequestRejected ==
  ASSUME DrillInv, op' \in Operations, op'.uid = op.uid, op'.req = op.req, op'.kind = op.kind, op'.boot = op.boot,
         op.uid # 0, op.phase = "Pending", op'.phase = "Rejected",
         UNCHANGED <<node, net, served, starts, loader, drill, file, baseline, raced, owned>>
  PROVE  DrillInv'
<1>1. DrillTypes'
  BY DEF DrillInv, DrillTypes
<1>2. OpKnown'
  BY CasesKnown DEF DrillInv, DrillTypes, Drills, DrillPlaces, OpKnown, My, Ended, Ours,
     HostNodes, Operations, Restorations, Requests, Planned, Browser, Other, Preview
<1>3. ServedOnce'
  BY CasesKnown DEF DrillInv, DrillTypes, Drills, DrillPlaces, OpKnown, ServedOnce, Ended,
     NotServed, Operations, Restorations, Requests, Planned, Browser, Other, Preview
<1>4. PowerServed'
  BY CasesKnown DEF DrillInv, DrillTypes, Drills, DrillPlaces, OpKnown, ServedOnce,
     PowerServed, NotServed, My, Ours, HostNodes, Operations, Requests, Planned, Browser,
     Other, Preview
<1>5. FileNames'
  BY CasesKnown DEF DrillInv, DrillTypes, Drills, DrillPlaces, OpKnown, FileNames, My, Ours,
     Operations, Early, Later, Restoring, Following, Planned, Browser, Other, Preview,
     Requests
<1>6. BaselineNames'
  BY CasesKnown DEF DrillInv, DrillTypes, Drills, DrillPlaces, OpKnown, BaselineNames, Ended,
     Restoring, Operations, Restorations, Planned, Browser, Other, Preview
<1>7. RaceKnown'
  BY CasesKnown DEF DrillInv, DrillTypes, Drills, DrillPlaces, OpKnown, FileNames, RaceKnown,
     Ours, Planned, Browser, Other, Preview, Operations, DrillFiles, My, Following, Restoring,
     Early, Later
<1>8. Credited'
  BY CasesKnown DEF DrillInv, DrillTypes, Drills, DrillPlaces, OpKnown, ServedOnce, Credited,
     DrillServed, FileNames, RaceKnown, NotServed, My, Ours, Restoring, Following, Early,
     Later, Operations, Requests, Planned, Browser, Other, Preview, Restorations
<1>9. NetworkKept'
  BY CasesKnown DEF DrillInv, DrillTypes, Drills, DrillPlaces, OpKnown, NetworkKept, FileNames,
     HostCalm, Ended, Early, Later, Following, Restoring, BaselineNames, My
<1> QED
  BY <1>1, <1>2, <1>3, <1>4, <1>5, <1>6, <1>7, <1>8, <1>9 DEF DrillInv

LEMMA RequestStarted ==
  ASSUME DrillInv, op' \in Operations, op'.uid = op.uid, op'.req = op.req, op'.kind = op.kind, op'.boot = op.boot,
         op.uid # 0, op.phase = "Pending", op.req \in Requests, starts[op.req] = 0,
         op'.phase = IF op.kind = "trial" THEN "AwaitingConfirmation" ELSE "Running",
         starts' = [starts EXCEPT ![op.req] = @ + 1],
         raced' \in BOOLEAN, raced' <=> (raced \/ (op.kind = "cache" /\ loader # "none")),
         UNCHANGED <<node, net, served, loader, drill, file, baseline, owned>>
  PROVE  DrillInv'
<1>1. DrillTypes'
  BY DEF DrillInv, DrillTypes
<1>2. OpKnown'
  BY CasesKnown DEF DrillInv, DrillTypes, Drills, DrillPlaces, OpKnown, My, Ended, Ours,
     HostNodes, Operations, Restorations, Requests, Planned, Browser, Other, Preview
<1>3. ServedOnce'
  BY CasesKnown DEF DrillInv, DrillTypes, Drills, DrillPlaces, OpKnown, ServedOnce, Ended,
     NotServed, Operations, Restorations, Requests, Planned, Browser, Other, Preview
<1>4. PowerServed'
  BY CasesKnown DEF DrillInv, DrillTypes, Drills, DrillPlaces, OpKnown, ServedOnce,
     PowerServed, NotServed, My, Ours, HostNodes, Operations, Requests, Planned, Browser,
     Other, Preview
<1>5. FileNames'
  <2>1. \A r \in Ours : starts'[r] > 0 => op.req = r \/ starts[r] > 0
    BY DEF DrillInv, DrillTypes, Ours, Requests, Planned, Browser
  <2> QED
    BY <2>1 DEF DrillInv, FileNames, My
<1>6. BaselineNames'
  BY CasesKnown DEF DrillInv, DrillTypes, Drills, DrillPlaces, OpKnown, BaselineNames, Ended,
     Restoring, Operations, Restorations, Planned, Browser, Other, Preview
<1>7. RaceKnown'
  BY CasesKnown DEF DrillInv, DrillTypes, Drills, DrillPlaces, OpKnown, FileNames, RaceKnown,
     Ours, Planned, Browser, Other, Preview, Operations, DrillFiles, My, Following, Restoring,
     Early, Later
<1>8. Credited'
  BY CasesKnown DEF DrillInv, DrillTypes, Drills, DrillPlaces, OpKnown, ServedOnce, Credited,
     DrillServed, FileNames, RaceKnown, NotServed, My, Ours, Restoring, Following, Early,
     Later, Operations, Requests, Planned, Browser, Other, Preview, Restorations
<1>9. NetworkKept'
  BY CasesKnown DEF DrillInv, DrillTypes, Drills, DrillPlaces, OpKnown, NetworkKept, FileNames,
     HostCalm, Ended, Early, Later, Following, Restoring, BaselineNames, My
<1> QED
  BY <1>1, <1>2, <1>3, <1>4, <1>5, <1>6, <1>7, <1>8, <1>9 DEF DrillInv

LEMMA WorkerStartSafe ==
  ASSUME DrillInv, WorkerStart
  PROVE  DrillInv'
<1>1. op \in Operations /\ op.req \in Requests /\ op.uid # 0 /\ op.phase = "Pending"
  BY DEF DrillInv, DrillTypes, Operations, OpKnown, WorkerStart
<1>2. UNCHANGED <<node, net, served, loader, drill, file, baseline, owned>>
  BY DEF WorkerStart, runVars
<1>3. CASE starts[op.req] > 0 \/ op.boot # node.boot
  <2>1. op' = [op EXCEPT !.phase = "Rejected"] /\ UNCHANGED <<starts, raced>>
    BY <1>3 DEF WorkerStart
  <2>2. op' \in Operations /\ op'.uid = op.uid /\ op'.req = op.req /\ op'.kind = op.kind /\ op'.boot = op.boot
        /\ op'.phase = "Rejected"
    BY <1>1, <2>1 DEF Operations, OpPhases, Ended
  <2> QED
    BY <1>1, <1>2, <2>1, <2>2, RequestRejected
<1>4. CASE ~(starts[op.req] > 0 \/ op.boot # node.boot)
  <2> DEFINE next == IF op.kind = "trial" THEN "AwaitingConfirmation" ELSE "Running"
  <2>1. op' = [op EXCEPT !.phase = next] /\ starts' = [starts EXCEPT ![op.req] = @ + 1]
    BY <1>4 DEF WorkerStart
  <2>2. next \in OpPhases
    BY DEF OpPhases
  <2>3. op' \in Operations /\ op'.uid = op.uid /\ op'.req = op.req /\ op'.kind = op.kind /\ op'.boot = op.boot
        /\ op'.phase = next
    BY <1>1, <2>1, <2>2 DEF Operations
  <2>4. starts[op.req] = 0
    BY <1>1, <1>4 DEF DrillInv, DrillTypes
  <2>5. raced' = (raced \/ (op.kind = "cache" /\ loader # "none"))
    BY <1>4 DEF WorkerStart
  <2>6. raced' \in BOOLEAN /\ (raced' <=> (raced \/ (op.kind = "cache" /\ loader # "none")))
    BY <2>5, Zenon
  <2> QED
    BY <1>1, <1>2, <2>1, <2>3, <2>4, <2>6, RequestStarted
<1> QED
  BY <1>3, <1>4

LEMMA RequestServed ==
  ASSUME DrillInv, op' \in Operations, op'.uid = op.uid, op'.req = op.req, op'.kind = op.kind, op'.boot = op.boot,
         op.req \in Requests, op.phase \in {"Running", "AwaitingConfirmation", "Confirmed"},
         op'.phase \in {"Succeeded", "Failed", "RolledBack"},
         op.kind = "power" /\ op'.phase = "Succeeded" => node.boot # op.boot,
         served' = [served EXCEPT ![op.req] = [phase |-> op'.phase, boots |-> node.boot - op.boot]],
         net' = net \/ op.phase = "Confirmed",
         UNCHANGED <<node, starts, loader, drill, file, baseline, raced, owned>>
  PROVE  DrillInv'
<1>1. DrillTypes'
  BY DEF DrillInv, DrillTypes, Operations, HostNodes, OpPhases, Ended
<1>2. OpKnown'
  BY CasesKnown DEF DrillInv, DrillTypes, Drills, DrillPlaces, OpKnown, My, Ended, Ours,
     HostNodes, Operations, Restorations, Requests, Planned, Browser, Other, Preview
<1>3. ServedOnce'
  BY CasesKnown DEF DrillInv, DrillTypes, Drills, DrillPlaces, OpKnown, ServedOnce, Ended,
     NotServed, Operations, Restorations, Requests, Planned, Browser, Other, Preview
<1>4. PowerServed'
  BY CasesKnown DEF DrillInv, DrillTypes, Drills, DrillPlaces, OpKnown, ServedOnce,
     PowerServed, NotServed, My, Ours, HostNodes, Operations, Requests, Planned, Browser,
     Other, Preview
<1>5. FileNames'
  BY CasesKnown DEF DrillInv, DrillTypes, Drills, DrillPlaces, OpKnown, FileNames, My, Ours,
     Operations, Early, Later, Restoring, Following, Planned, Browser, Other, Preview,
     Requests
<1>6. BaselineNames'
  BY CasesKnown DEF DrillInv, DrillTypes, Drills, DrillPlaces, OpKnown, BaselineNames, Ended,
     Restoring, Operations, Restorations, Planned, Browser, Other, Preview
<1>7. RaceKnown'
  BY CasesKnown DEF DrillInv, DrillTypes, Drills, DrillPlaces, OpKnown, FileNames, RaceKnown,
     Ours, Planned, Browser, Other, Preview, Operations, DrillFiles, My, Following, Restoring,
     Early, Later
<1>8. Credited'
  BY CasesKnown DEF DrillInv, DrillTypes, Drills, DrillPlaces, OpKnown, ServedOnce, Credited,
     DrillServed, FileNames, RaceKnown, NotServed, My, Ours, Restoring, Following, Early,
     Later, Operations, Requests, Planned, Browser, Other, Preview, Restorations
<1>9. NetworkKept'
  BY CasesKnown DEF DrillInv, DrillTypes, Drills, DrillPlaces, OpKnown, NetworkKept, FileNames,
     HostCalm, Ended, Early, Later, Following, Restoring, BaselineNames, My
<1> QED
  BY <1>1, <1>2, <1>3, <1>4, <1>5, <1>6, <1>7, <1>8, <1>9 DEF DrillInv

LEMMA WorkerFinishesSafe ==
  ASSUME DrillInv, WorkerFinishes
  PROVE  DrillInv'
<1>1. op \in Operations /\ op.req \in Requests
  BY DEF DrillInv, DrillTypes, Operations, OpKnown, WorkerFinishes
<1>2. UNCHANGED <<node, starts, loader, drill, file, baseline, raced, owned>>
  BY DEF WorkerFinishes, runVars
<1>3. op.phase \in {"Running", "AwaitingConfirmation", "Confirmed"} /\ (net' = net \/ op.phase = "Confirmed")
  BY DEF WorkerFinishes
<1>4. PICK end \in {"Succeeded", "Failed", "RolledBack"} :
        Serve(end) /\ (op.kind = "power" /\ end = "Succeeded" => node.boot # op.boot)
  BY DEF WorkerFinishes, DrillInv, OpKnown
<1>5. op' = [op EXCEPT !.phase = end]
      /\ served' = [served EXCEPT ![op.req] = [phase |-> end, boots |-> node.boot - op.boot]]
  BY <1>4 DEF Serve
<1>6. op' \in Operations /\ op'.uid = op.uid /\ op'.req = op.req /\ op'.kind = op.kind /\ op'.boot = op.boot
      /\ op'.phase = end
  BY <1>1, <1>5 DEF Operations, OpPhases, Ended
<1> QED
  BY <1>1, <1>2, <1>3, <1>4, <1>5, <1>6, RequestServed

LEMMA OthersOperate ==
  ASSUME DrillInv, HostCalm, op' \in Operations, op'.uid = op.uid + 1, op'.req = Other, op'.kind = "local", op'.phase = "Succeeded",
         op'.boot = node.boot,
         UNCHANGED <<node, net, served, starts, loader, drill, file, baseline, raced, owned>>
  PROVE  DrillInv'
<1>1. DrillTypes'
  BY DEF DrillInv, DrillTypes
<1>2. OpKnown'
  BY CasesKnown DEF DrillInv, DrillTypes, Drills, DrillPlaces, OpKnown, My, Ended, Ours,
     HostNodes, Operations, Restorations, Requests, Planned, Browser, Other, Preview
<1>3. ServedOnce'
  BY CasesKnown DEF DrillInv, DrillTypes, Drills, DrillPlaces, OpKnown, ServedOnce, Ended,
     NotServed, Operations, Restorations, Requests, Planned, Browser, Other, Preview
<1>4. PowerServed'
  BY CasesKnown DEF DrillInv, DrillTypes, Drills, DrillPlaces, OpKnown, ServedOnce,
     PowerServed, NotServed, My, Ours, HostNodes, Operations, Requests, Planned, Browser,
     Other, Preview
<1>5. FileNames'
  BY CasesKnown DEF DrillInv, DrillTypes, Drills, DrillPlaces, OpKnown, FileNames, My, Ours,
     Operations, Early, Later, Restoring, Following, Planned, Browser, Other, Preview,
     Requests
<1>6. BaselineNames'
  BY CasesKnown DEF DrillInv, DrillTypes, Drills, DrillPlaces, OpKnown, BaselineNames, Ended,
     Restoring, Operations, Restorations, Planned, Browser, Other, Preview
<1>7. RaceKnown'
  BY CasesKnown DEF DrillInv, DrillTypes, Drills, DrillPlaces, OpKnown, FileNames, RaceKnown,
     Ours, Planned, Browser, Other, Preview, Operations, DrillFiles, My, Following, Restoring,
     Early, Later
<1>8. Credited'
  BY CasesKnown DEF DrillInv, DrillTypes, Drills, DrillPlaces, OpKnown, ServedOnce, Credited,
     DrillServed, FileNames, RaceKnown, NotServed, My, Ours, Restoring, Following, Early,
     Later, Operations, Requests, Planned, Browser, Other, Preview, Restorations
<1>9. NetworkKept'
  BY CasesKnown DEF DrillInv, DrillTypes, Drills, DrillPlaces, OpKnown, NetworkKept, FileNames,
     HostCalm, Ended, Early, Later, Following, Restoring, BaselineNames, My
<1> QED
  BY <1>1, <1>2, <1>3, <1>4, <1>5, <1>6, <1>7, <1>8, <1>9 DEF DrillInv

LEMMA UserOperatesSafe ==
  ASSUME DrillInv, UserOperates
  PROVE  DrillInv'
<1>1. op.uid \in Nat /\ node.boot \in Nat
  BY DEF DrillInv, DrillTypes, Operations, HostNodes
<1>2. HostCalm
  BY DEF UserOperates, NothingRuns, HostCalm
<1>3. op' = [uid |-> op.uid + 1, req |-> Other, kind |-> "local", phase |-> "Succeeded", boot |-> node.boot]
  BY DEF UserOperates
<1>4. op' \in Operations /\ op'.uid = op.uid + 1 /\ op'.req = Other /\ op'.kind = "local"
      /\ op'.phase = "Succeeded" /\ op'.boot = node.boot
  BY <1>1, <1>3 DEF Operations, Requests, Kinds, OpPhases, Ended
<1> QED
  BY <1>2, <1>4, OthersOperate DEF UserOperates, runVars

-----------------------------------------------------------------------------
(* HostDrill: the requests of a drill.                                     *)

OwnRequests == Ours \union Restorations \union {Preview}

\* A request becomes the host's object.
Fresh(r) ==
  /\ HostCalm /\ op.req # r /\ r \in OwnRequests
  /\ op' \in Operations /\ op'.uid = op.uid + 1 /\ op'.req = r /\ op'.phase = "Pending" /\ op'.boot = node.boot
  /\ r \in Ours => op'.kind = My.kind
  /\ r \in Restorations => op'.kind = "trial"
  /\ r = Preview => op'.kind = "preview"

LEMMA PostingMoves ==
  ASSUME DrillInv, NEW r \in OwnRequests, NEW kind \in Kinds, NEW boot,
         r \in Ours => kind = My.kind, r \in Restorations => kind = "trial", r = Preview => kind = "preview",
         Accepts(r, boot), op' = Posted(r, kind, boot)
  PROVE  (op' = op /\ op.req = r) \/ Fresh(r)
<1>1. CASE op.req = r
  BY <1>1 DEF Posted
<1>2. CASE op.req # r
  <2>1. op.uid \in Nat /\ node.boot \in Nat
    BY DEF DrillInv, DrillTypes, Operations, HostNodes
  <2>2. HostCalm /\ boot = node.boot
    BY <1>2 DEF Accepts, NothingRuns, HostCalm
  <2>3. op' = [uid |-> op.uid + 1, req |-> r, kind |-> kind, phase |-> "Pending", boot |-> node.boot]
    BY <1>2, <2>2 DEF Posted
  <2>4. r \in Requests
    BY DEF OwnRequests, Ours, Requests
  <2>5. op' \in Operations /\ op'.uid = op.uid + 1 /\ op'.req = r /\ op'.kind = kind /\ op'.phase = "Pending"
        /\ op'.boot = node.boot
    BY <2>1, <2>3, <2>4 DEF Operations, OpPhases
  <2> QED
    BY <1>2, <2>2, <2>5 DEF Fresh
<1> QED
  BY <1>1, <1>2

SendingMove(r) ==
  \/ r = Preview /\ drill.pc = "ask" /\ (GoesTo("checked") \/ Thrown)
  \/ r = drill.sent /\ drill.pc = "send" /\ (GoesTo(IF drill.case = "race" THEN "compete" ELSE "observe") \/ Thrown)
  \/ r = file.req /\ drill.pc = "replay" /\ (GoesTo("poll") \/ Thrown)
  \/ r = baseline.req /\ drill.pc = "restore" /\ (GoesTo("confirm") \/ NotRestored)

ConfirmingMove ==
  \/ drill.pc = "keep" /\ (GoesTo("poll") \/ Thrown)
  \/ drill.pc = "confirm" /\ GoesTo("restored")

LEMMA SendingSafe ==
  ASSUME DrillInv, NEW r, Fresh(r), SendingMove(r), owned' \in BOOLEAN,
         UNCHANGED <<node, net, served, starts, loader, file, baseline, raced>>
  PROVE  DrillInv'
<1>1. drill' \in Drills /\ drill'.case = drill.case /\ drill'.sent = drill.sent
  BY DEF SendingMove, ConfirmingMove, DrillMoves, GoesTo, Thrown, NotRestored
<1>2. DrillTypes'
  BY <1>1 DEF DrillInv, DrillTypes, Fresh
<1>3. OpKnown'
  BY <1>1, CasesKnown DEF DrillInv, DrillTypes, Drills, Fresh, OwnRequests, HostCalm, OpKnown,
     My, Ended, Ours, HostNodes, Operations, Restorations, Requests, Planned, Browser, Other,
     Preview
<1>4. ServedOnce'
  BY <1>1, CasesKnown DEF DrillInv, DrillTypes, Drills, Fresh, OwnRequests, HostCalm, OpKnown,
     ServedOnce, Ended, NotServed, Operations, Restorations, Requests, Planned, Browser, Other,
     Preview
<1>5. PowerServed'
  BY <1>1, CasesKnown DEF DrillInv, DrillTypes, Drills, Fresh, OwnRequests, HostCalm, OpKnown,
     ServedOnce, PowerServed, NotServed, My, Ours, HostNodes, Operations, Requests, Planned,
     Browser, Other, Preview
<1>6. FileNames'
  <2>1. r \in Ours => file.req = r /\ drill.pc \in {"send", "replay"}
    BY DEF SendingMove, DrillInv, DrillTypes, Drills, FileNames, Following, Early, Baselines,
       Ours, Restorations,
           Planned, Browser, Preview
  <2>2. drill.pc \in {"ask", "send", "replay", "restore"} /\ drill'.pc # "browser" /\ drill'.pc # "send"
        /\ drill'.pc \in Later \union {"checked"}
    BY DEF SendingMove, DrillMoves, GoesTo, Thrown, NotRestored, DrillPlaces, Following,
       Restoring, Later
  <2>3. drill'.pc = "checked" => drill.pc = "ask"
    BY DEF SendingMove, DrillMoves, GoesTo, Thrown, NotRestored
  <2>4. drill'.pc \in Following \union {"compete", "observe", "credit", "pin"} => file.req \in Ours
    BY DEF SendingMove, DrillMoves, GoesTo, Thrown, NotRestored, DrillInv, DrillTypes, Drills,
       FileNames, Following
  <2>5. \A q \in Ours : (op'.req = q \/ starts'[q] > 0) => file'.req = q /\ drill'.pc \in Later
    BY <2>1, <2>2, <2>3 DEF Fresh, DrillInv, FileNames, Early, Following, Restoring, Later
  <2> QED
    BY <1>1, <2>2, <2>3, <2>4, <2>5 DEF DrillInv, FileNames, My, Early, Following, Restoring,
       Later
<1>7. BaselineNames'
  <2>1. r \in Restorations \union {Preview} => r = baseline.req
    BY DEF SendingMove, DrillInv, DrillTypes, Drills, FileNames, BaselineNames, Following,
       Ours, Restorations,
           Planned, Browser, Preview
  <2> QED
    BY <1>1, <2>1 DEF Fresh, OwnRequests, SendingMove, DrillMoves, GoesTo, Thrown, NotRestored,
       DrillInv, BaselineNames, Restoring
<1>8. RaceKnown'
  BY <1>1, CasesKnown DEF DrillInv, DrillTypes, Drills, Fresh, OwnRequests, HostCalm,
     SendingMove, ConfirmingMove, DrillMoves, GoesTo, Thrown, NotRestored, DrillPlaces,
     OpKnown, FileNames, RaceKnown, Ours, Planned, Browser, Other, Preview, Operations,
     DrillFiles, My, Following, Restoring, Early, Later
<1>9. Credited'
  BY <1>1, CasesKnown DEF DrillInv, DrillTypes, Drills, Fresh, OwnRequests, HostCalm,
     SendingMove, ConfirmingMove, DrillMoves, GoesTo, Thrown, NotRestored, DrillPlaces,
     OpKnown, ServedOnce, Credited, DrillServed, FileNames, RaceKnown, NotServed, My, Ours,
     Restoring, Following, Early, Later, Operations, Requests, Planned, Browser, Other,
     Preview, Restorations
<1>10. NetworkKept'
  BY <1>1, CasesKnown DEF DrillInv, DrillTypes, Drills, Fresh, OwnRequests, HostCalm,
     SendingMove, ConfirmingMove, DrillMoves, GoesTo, Thrown, NotRestored, DrillPlaces,
     OpKnown, NetworkKept, FileNames, HostCalm, Ended, Early, Later, Following, Restoring,
     BaselineNames, My
<1> QED
  BY <1>2, <1>3, <1>4, <1>5, <1>6, <1>7, <1>8, <1>9, <1>10 DEF DrillInv

LEMMA ConfirmingSafe ==
  ASSUME DrillInv, op' \in Operations, op'.uid = op.uid, op'.req = op.req, op'.kind = op.kind, op'.boot = op.boot,
         op.phase = "AwaitingConfirmation", op'.phase = "Confirmed", ConfirmingMove, owned' \in BOOLEAN,
         UNCHANGED <<node, net, served, starts, loader, file, baseline, raced>>
  PROVE  DrillInv'
<1>1. drill' \in Drills /\ drill'.case = drill.case /\ drill'.sent = drill.sent
  BY DEF SendingMove, ConfirmingMove, DrillMoves, GoesTo, Thrown, NotRestored
<1>2. DrillTypes'
  BY <1>1 DEF DrillInv, DrillTypes, Fresh
<1>3. OpKnown'
  BY <1>1, CasesKnown DEF DrillInv, DrillTypes, Drills, Fresh, OwnRequests, HostCalm, OpKnown,
     My, Ended, Ours, HostNodes, Operations, Restorations, Requests, Planned, Browser, Other,
     Preview
<1>4. ServedOnce'
  BY <1>1, CasesKnown DEF DrillInv, DrillTypes, Drills, Fresh, OwnRequests, HostCalm, OpKnown,
     ServedOnce, Ended, NotServed, Operations, Restorations, Requests, Planned, Browser, Other,
     Preview
<1>5. PowerServed'
  BY <1>1, CasesKnown DEF DrillInv, DrillTypes, Drills, Fresh, OwnRequests, HostCalm, OpKnown,
     ServedOnce, PowerServed, NotServed, My, Ours, HostNodes, Operations, Requests, Planned,
     Browser, Other, Preview
<1>6. FileNames'
  BY <1>1, CasesKnown DEF DrillInv, DrillTypes, Drills, Fresh, OwnRequests, HostCalm,
     SendingMove, ConfirmingMove, DrillMoves, GoesTo, Thrown, NotRestored, DrillPlaces,
     OpKnown, FileNames, My, Ours, Operations, Early, Later, Restoring, Following, Planned,
     Browser, Other, Preview, Requests
<1>7. BaselineNames'
  BY <1>1, CasesKnown DEF DrillInv, DrillTypes, Drills, Fresh, OwnRequests, HostCalm,
     SendingMove, ConfirmingMove, DrillMoves, GoesTo, Thrown, NotRestored, DrillPlaces,
     OpKnown, BaselineNames, Ended, Restoring, Operations, Restorations, Planned, Browser,
     Other, Preview
<1>8. RaceKnown'
  BY <1>1, CasesKnown DEF DrillInv, DrillTypes, Drills, Fresh, OwnRequests, HostCalm,
     SendingMove, ConfirmingMove, DrillMoves, GoesTo, Thrown, NotRestored, DrillPlaces,
     OpKnown, FileNames, RaceKnown, Ours, Planned, Browser, Other, Preview, Operations,
     DrillFiles, My, Following, Restoring, Early, Later
<1>9. Credited'
  BY <1>1, CasesKnown DEF DrillInv, DrillTypes, Drills, Fresh, OwnRequests, HostCalm,
     SendingMove, ConfirmingMove, DrillMoves, GoesTo, Thrown, NotRestored, DrillPlaces,
     OpKnown, ServedOnce, Credited, DrillServed, FileNames, RaceKnown, NotServed, My, Ours,
     Restoring, Following, Early, Later, Operations, Requests, Planned, Browser, Other,
     Preview, Restorations
<1>10. NetworkKept'
  BY <1>1, CasesKnown DEF DrillInv, DrillTypes, Drills, Fresh, OwnRequests, HostCalm,
     SendingMove, ConfirmingMove, DrillMoves, GoesTo, Thrown, NotRestored, DrillPlaces,
     OpKnown, NetworkKept, FileNames, HostCalm, Ended, Early, Later, Following, Restoring,
     BaselineNames, My
<1> QED
  BY <1>2, <1>3, <1>4, <1>5, <1>6, <1>7, <1>8, <1>9, <1>10 DEF DrillInv

LEMMA ConfirmedMoves ==
  ASSUME DrillInv, NEW r, Confirmable(r), Confirmed(r)
  PROVE  /\ op' \in Operations /\ op'.uid = op.uid /\ op'.req = op.req /\ op'.kind = op.kind /\ op'.boot = op.boot
         /\ op.phase = "AwaitingConfirmation" /\ op'.phase = "Confirmed"
<1>1. op \in Operations /\ op.phase = "AwaitingConfirmation"
  BY DEF DrillInv, DrillTypes, Confirmable
<1>2. op' = [op EXCEPT !.phase = "Confirmed"]
  BY DEF Confirmed
<1> QED
  BY <1>1, <1>2 DEF Operations, OpPhases

-----------------------------------------------------------------------------
(* HostDrill: the actions.                                                 *)

LEMMA RecordPreviewSafe ==
  ASSUME DrillInv, RecordPreview
  PROVE  DrillInv'
<1>0. owned \in BOOLEAN /\ drill.case \in DOMAIN Cases
  BY DEF DrillInv, DrillTypes, Drills
<1>1. CASE KnownBoot
  <2>1. baseline' = [state |-> "requested", req |-> Preview, uid |-> 0] /\ Go("ask")
    BY <1>1 DEF RecordPreview
  <2>2. baseline' \in Baselines /\ baseline'.req = Preview
    BY <2>1 DEF Baselines
  <2>3. GoesTo("ask")
    BY <2>1, GoMoves DEF DrillInv, DrillPlaces, Early
  <2> QED
    BY <1>0, <2>2, <2>3, PreviewRecorded DEF RecordPreview, At, hostVars
<1>2. CASE ~KnownBoot
  <2>1. UNCHANGED <<op, node, net, served, starts, loader, file, baseline, raced>> /\ owned' \in BOOLEAN
    BY <1>2, <1>0 DEF RecordPreview, hostVars
  <2>2. QuietMove
    BY <1>2, ThrowMoves DEF RecordPreview, At, QuietMove, Throwing, DrillPlaces, Early,
       Following, Restoring, Later
  <2> QED
    BY <2>1, <2>2, QuietSafe
<1> QED
  BY <1>1, <1>2 DEF RecordPreview

LEMMA PersistRequestSafe ==
  ASSUME DrillInv, PersistRequest
  PROVE  DrillInv'
<1>0. owned \in BOOLEAN /\ drill.case \in DOMAIN Cases
  BY DEF DrillInv, DrillTypes, Drills
<1>1. CASE file' = [state |-> "requested", req |-> Planned, uid |-> 0] /\ Go(IF My.ui THEN "browser" ELSE "send")
  <2>1. file' \in DrillFiles /\ file'.req = Planned /\ file'.state = "requested" /\ file'.uid = 0
    BY <1>1 DEF DrillFiles, Ours
  <2>2. "browser" \in DrillPlaces /\ "send" \in DrillPlaces
    BY DEF DrillPlaces, Early
  <2>3. My.ui => GoesTo("browser")
    BY <1>1, <2>2, GoMoves DEF DrillInv
  <2>4. ~My.ui => GoesTo("send")
    BY <1>1, <2>2, GoMoves DEF DrillInv
  <2>5. (GoesTo("browser") /\ My.ui) \/ (GoesTo("send") /\ ~My.ui)
    BY <2>3, <2>4
  <2>6. drill.pc = "reserve" /\ UNCHANGED <<op, node, net, served, starts, loader, baseline, raced>> /\ owned' \in BOOLEAN
    BY <1>0 DEF PersistRequest, At, hostVars
  <2> QED
    BY <2>1, <2>5, <2>6, RequestPersisted
<1>2. CASE Throw /\ UNCHANGED file
  <2>1. UNCHANGED <<op, node, net, served, starts, loader, file, baseline, raced>> /\ owned' \in BOOLEAN
    BY <1>2, <1>0 DEF PersistRequest, hostVars
  <2>2. QuietMove
    BY <1>2, ThrowMoves DEF PersistRequest, At, QuietMove, Throwing, DrillPlaces, Early,
       Following, Restoring, Later
  <2> QED
    BY <2>1, <2>2, QuietSafe
<1> QED
  BY <1>1, <1>2 DEF PersistRequest

LEMMA SubmitThroughUiSafe ==
  ASSUME DrillInv, SubmitThroughUi
  PROVE  DrillInv'
<1>1. file \in DrillFiles /\ drill \in Drills /\ owned \in BOOLEAN
  BY DEF DrillInv, DrillTypes
<1>2. file' \in DrillFiles /\ file'.req = Browser /\ file'.state = file.state /\ file'.uid = file.uid
  BY <1>1 DEF SubmitThroughUi, DrillFiles, Ours
<1>3. drill' = [drill EXCEPT !.pc = "send", !.sent = Browser]
  BY DEF SubmitThroughUi
<1>4. drill' \in Drills /\ drill'.pc = "send" /\ drill'.case = drill.case /\ drill'.sent = Browser
      /\ drill'.back = drill.back /\ drill'.clean = drill.clean
  BY <1>1, <1>3 DEF Drills, DrillPlaces, Ours
<1> QED
  BY <1>1, <1>2, <1>4, BrowserRecorded DEF SubmitThroughUi, At, hostVars

LEMMA CreateRaceSafe ==
  ASSUME DrillInv, CreateRace
  PROVE  DrillInv'
<1>1. GoesTo("observe")
  BY GoMoves DEF CreateRace, DrillInv, DrillPlaces, Later
<1>2. raced \in BOOLEAN /\ owned \in BOOLEAN /\ raced' = (raced \/ (op.req = Planned /\ op.phase = "Running"))
  BY DEF DrillInv, DrillTypes, CreateRace
<1>3. raced' \in BOOLEAN /\ (raced' <=> (raced \/ (op.req = Planned /\ op.phase = "Running")))
  BY <1>2, Zenon
<1> QED
  BY <1>1, <1>2, <1>3, RaceStarted DEF CreateRace, At, hostVars

LEMMA ObserveIntentSafe ==
  ASSUME DrillInv, ObserveIntent
  PROVE  DrillInv'
<1>0. owned \in BOOLEAN /\ drill.case \in DOMAIN Cases
  BY DEF DrillInv, DrillTypes, Drills
<1>1. CASE op.req = file.req /\ owned
  <2>1. file \in DrillFiles /\ op.uid \in Nat /\ file' = [file EXCEPT !.state = "accepted", !.uid = op.uid]
    BY <1>1 DEF DrillInv, DrillTypes, Operations, ObserveIntent
  <2>2. file' \in DrillFiles /\ file'.req = file.req /\ file'.state = "accepted" /\ file'.uid = op.uid
    BY <2>1 DEF DrillFiles
  <2>3. \/ GoesTo("replay") /\ drill.case = "prepare"
        \/ GoesTo("race") /\ drill.case = "race"
        \/ GoesTo("trial") /\ My.kind = "trial"
        \/ GoesTo("poll") /\ drill.case # "race"
    BY <1>1, GoMoves DEF ObserveIntent, DrillInv, DrillPlaces, Later, Following
  <2> QED
    BY <1>0, <1>1, <2>2, <2>3, IntentSeen DEF ObserveIntent, At, hostVars
<1>2. CASE ~(op.req = file.req /\ owned)
  <2>1. UNCHANGED <<op, node, net, served, starts, loader, file, baseline, raced>> /\ owned' \in BOOLEAN
    BY <1>2, <1>0 DEF ObserveIntent, hostVars
  <2>2. QuietMove
    BY <1>2, ThrowMoves DEF ObserveIntent, At, QuietMove, Throwing, DrillPlaces, Early,
       Following, Restoring, Later
  <2> QED
    BY <2>1, <2>2, QuietSafe
<1> QED
  BY <1>1, <1>2 DEF ObserveIntent

LEMMA AwaitRaceSafe ==
  ASSUME DrillInv, AwaitRace
  PROVE  DrillInv'
<1>0. owned \in BOOLEAN /\ drill.case \in DOMAIN Cases
  BY DEF DrillInv, DrillTypes, Drills
<1>1. CASE CacheRaceOutcome = "won" /\ Go("poll") /\ loader' = "removed"
  <2>1. GoesTo("poll")
    BY <1>1, GoMoves DEF DrillInv, DrillPlaces, Later, Following
  <2>2. drill.pc = "race" /\ drill.case = "race" /\ op.uid = file.uid /\ ((op.phase = "Failed" /\ raced) \/ op.phase = "Running")
    BY <1>1 DEF AwaitRace, At, CacheRaceOutcome, DrillInv, RaceKnown
  <2>3. raced
    BY <1>0, <2>2, CasesKnown DEF DrillInv, RaceKnown, OpKnown, FileNames, My, Following, Ours,
       Planned, Browser
  <2> QED
    BY <1>0, <1>1, <2>1, <2>2, <2>3, RaceEnded DEF AwaitRace, hostVars
<1>2. CASE Throw /\ UNCHANGED loader
  <2>1. UNCHANGED <<op, node, net, served, starts, loader, file, baseline, raced>> /\ owned' \in BOOLEAN
    BY <1>2, <1>0 DEF AwaitRace, hostVars
  <2>2. QuietMove
    BY <1>2, ThrowMoves DEF AwaitRace, At, QuietMove, Throwing, DrillPlaces, Early, Following,
       Restoring, Later
  <2> QED
    BY <2>1, <2>2, QuietSafe
<1> QED
  BY <1>1, <1>2 DEF AwaitRace

LEMMA CreditSafe ==
  ASSUME DrillInv, Credit
  PROVE  DrillInv'
<1>1. file \in DrillFiles /\ owned \in BOOLEAN
  BY DEF DrillInv, DrillTypes
<1>2. file' = [file EXCEPT !.state = "verified"]
  BY DEF Credit
<1>3. file' \in DrillFiles /\ file'.req = file.req /\ file'.state = "verified" /\ file'.uid = file.uid
  BY <1>1, <1>2 DEF DrillFiles
<1>4. GoesTo("pin")
  BY GoMoves DEF Credit, DrillInv, DrillPlaces, Later
<1> QED
  BY <1>1, <1>3, <1>4, RequestCredited DEF Credit, At, hostVars

LEMMA CheckChannelSafe ==
  ASSUME DrillInv, CheckChannel
  PROVE  DrillInv'
<1>0. owned' \in BOOLEAN /\ UNCHANGED <<node, net, served, starts, loader, file, baseline, raced>>
  BY DEF DrillInv, DrillTypes, CheckChannel
<1>1. Preview \in OwnRequests /\ "preview" \in Kinds /\ Preview \notin Ours \union Restorations
  BY DEF OwnRequests, Kinds, Ours, Restorations, Planned, Browser, Preview
<1>2. CASE Accepts(Preview, 0) /\ op' = Posted(Preview, "preview", 0)
  <2>1. SendingMove(Preview)
    BY <1>0, <1>1, <1>2, GoMoves, ThrowMoves DEF CheckChannel, At, SendingMove, DrillInv,
       DrillPlaces, Early, Following, Restoring, Later
  <2>2. (op' = op /\ op.req = Preview) \/ Fresh(Preview)
    BY <1>1, <1>2, PostingMoves
  <2>3. CASE Fresh(Preview)
    BY <1>0, <2>1, <2>3, SendingSafe
  <2>4. CASE op' = op /\ op.req = Preview
    <3>1. QuietMove
      BY <1>0, <1>1, <2>1, <2>4 DEF CheckChannel, At, SendingMove, QuietMove, Throwing, Onward,
         DrillInv, FileNames, DrillPlaces, Early, Following, Restoring, Later
    <3> QED
      BY <1>0, <2>4, <3>1, QuietSafe
  <2> QED
    BY <2>2, <2>3, <2>4
<1>3. CASE Throw /\ UNCHANGED op
  <2>1. UNCHANGED <<op, node, net, served, starts, loader, file, baseline, raced>> /\ owned' \in BOOLEAN
    BY <1>3, <1>0 DEF CheckChannel, hostVars
  <2>2. QuietMove
    BY <1>3, ThrowMoves DEF CheckChannel, At, QuietMove, Throwing, DrillPlaces, Early,
       Following, Restoring, Later
  <2> QED
    BY <2>1, <2>2, QuietSafe
<1> QED
  BY <1>2, <1>3 DEF CheckChannel

LEMMA PostSafe ==
  ASSUME DrillInv, Post
  PROVE  DrillInv'
<1>0. owned' \in BOOLEAN /\ UNCHANGED <<node, net, served, starts, loader, file, baseline, raced>>
  BY DEF DrillInv, DrillTypes, Post
<1>1. /\ drill.sent \in OwnRequests /\ My.kind \in Kinds /\ drill.sent \in Ours /\ drill.sent \notin Restorations \union {Preview}
      /\ drill.pc = "send"
  BY CasesKnown DEF DrillInv, DrillTypes, Drills, My, OwnRequests, Kinds, Ours, Restorations,
     Planned, Browser, Preview, Post, At
<1>2. CASE Accepts(drill.sent, drill.plan) /\ op' = Posted(drill.sent, My.kind, drill.plan)
  <2>1. SendingMove(drill.sent)
    BY <1>0, <1>1, <1>2, GoMoves, ThrowMoves DEF Post, At, SendingMove, DrillInv, DrillPlaces,
       Early, Following, Restoring, Later
  <2>2. (op' = op /\ op.req = drill.sent) \/ Fresh(drill.sent)
    BY <1>1, <1>2, PostingMoves
  <2>3. CASE Fresh(drill.sent)
    BY <1>0, <2>1, <2>3, SendingSafe
  <2>4. CASE op' = op /\ op.req = drill.sent
    <3>1. QuietMove
      BY <1>0, <1>1, <2>1, <2>4 DEF Post, At, SendingMove, QuietMove, Throwing, Onward,
         DrillInv, FileNames, DrillPlaces, Early, Following, Restoring, Later
    <3> QED
      BY <1>0, <2>4, <3>1, QuietSafe
  <2> QED
    BY <2>2, <2>3, <2>4
<1>3. CASE Throw /\ UNCHANGED op
  <2>1. UNCHANGED <<op, node, net, served, starts, loader, file, baseline, raced>> /\ owned' \in BOOLEAN
    BY <1>3, <1>0 DEF Post, hostVars
  <2>2. QuietMove
    BY <1>3, ThrowMoves DEF Post, At, QuietMove, Throwing, DrillPlaces, Early, Following,
       Restoring, Later
  <2> QED
    BY <2>1, <2>2, QuietSafe
<1> QED
  BY <1>2, <1>3 DEF Post

LEMMA ReplaySafe ==
  ASSUME DrillInv, Replay
  PROVE  DrillInv'
<1>0. owned' \in BOOLEAN /\ UNCHANGED <<node, net, served, starts, loader, file, baseline, raced>>
  BY DEF DrillInv, DrillTypes, Replay
<1>1. /\ file.req \in OwnRequests /\ My.kind \in Kinds /\ file.req \in Ours /\ file.req \notin Restorations \union {Preview}
      /\ drill.pc = "replay"
  BY CasesKnown DEF DrillInv, DrillTypes, Drills, FileNames, Following, My, OwnRequests, Kinds,
     Ours, Restorations, Planned,
                    Browser, Preview, Replay, At
<1>2. CASE Accepts(file.req, drill.plan) /\ op' = Posted(file.req, My.kind, drill.plan)
  <2>1. SendingMove(file.req)
    BY <1>0, <1>1, <1>2, GoMoves, ThrowMoves DEF Replay, At, SendingMove, DrillInv,
       DrillPlaces, Early, Following, Restoring, Later
  <2>2. (op' = op /\ op.req = file.req) \/ Fresh(file.req)
    BY <1>1, <1>2, PostingMoves
  <2>3. CASE Fresh(file.req)
    BY <1>0, <2>1, <2>3, SendingSafe
  <2>4. CASE op' = op /\ op.req = file.req
    <3>1. QuietMove
      BY <1>0, <1>1, <2>1, <2>4 DEF Replay, At, SendingMove, QuietMove, Throwing, Onward,
         DrillInv, FileNames, DrillPlaces, Early, Following, Restoring, Later
    <3> QED
      BY <1>0, <2>4, <3>1, QuietSafe
  <2> QED
    BY <2>2, <2>3, <2>4
<1>3. CASE op' = op
  <2>1. QuietMove
    BY <1>1, <1>3, GoMoves, ThrowMoves DEF Replay, At, QuietMove, Throwing, Onward, DrillInv,
       DrillPlaces, Early, Following, Restoring, Later
  <2> QED
    BY <1>0, <1>3, <2>1, QuietSafe
<1> QED
  BY <1>2, <1>3 DEF Replay

LEMMA PostRestoreSafe ==
  ASSUME DrillInv, PostRestore
  PROVE  DrillInv'
<1>0. owned' \in BOOLEAN /\ UNCHANGED <<node, net, served, starts, loader, file, baseline, raced>>
  BY DEF DrillInv, DrillTypes, PostRestore
<1>1. /\ baseline.req \in OwnRequests /\ "trial" \in Kinds /\ baseline.req \in Restorations /\ baseline.req \notin Ours \union {Preview}
      /\ drill.pc = "restore"
  BY DEF DrillInv, BaselineNames, OwnRequests, Kinds, Ours, Restorations, Planned, Browser,
     Preview, PostRestore, At
<1>2. CASE Accepts(baseline.req, drill.plan) /\ op' = Posted(baseline.req, "trial", drill.plan)
  <2>1. SendingMove(baseline.req)
    BY <1>0, <1>1, <1>2, GoMoves, RestorationFailsMoves DEF PostRestore, At, SendingMove,
       DrillInv, DrillPlaces, Early, Following, Restoring, Later
  <2>2. (op' = op /\ op.req = baseline.req) \/ Fresh(baseline.req)
    BY <1>1, <1>2, PostingMoves
  <2>3. CASE Fresh(baseline.req)
    BY <1>0, <2>1, <2>3, SendingSafe
  <2>4. CASE op' = op /\ op.req = baseline.req
    <3>1. QuietMove
      BY <1>0, <1>1, <2>1, <2>4 DEF PostRestore, At, SendingMove, QuietMove, Throwing, Onward,
         DrillInv, FileNames, DrillPlaces, Early, Following, Restoring, Later
    <3> QED
      BY <1>0, <2>4, <3>1, QuietSafe
  <2> QED
    BY <2>2, <2>3, <2>4
<1>3. CASE RestorationFails /\ UNCHANGED op
  <2>1. UNCHANGED <<op, node, net, served, starts, loader, file, baseline, raced>> /\ owned' \in BOOLEAN
    BY <1>3, <1>0
  <2>2. QuietMove
    BY <1>3, <1>0, <1>1, RestorationFailsMoves DEF PostRestore, At, QuietMove, DrillInv,
       DrillPlaces, Early, Following, Restoring, Later
  <2> QED
    BY <2>1, <2>2, QuietSafe
<1> QED
  BY <1>2, <1>3 DEF PostRestore

LEMMA KeepSafe ==
  ASSUME DrillInv, Keep
  PROVE  DrillInv'
<1>0. owned' \in BOOLEAN /\ UNCHANGED <<node, net, served, starts, loader, file, baseline, raced>>
  BY DEF DrillInv, DrillTypes, Keep
<1>1. drill.pc = "keep"
  BY DEF Keep, At
<1>2. CASE Confirmable(file.req) /\ Confirmed(file.req) /\ (Go("poll") \/ Throw)
  <2>1. ConfirmingMove
    BY <1>1, <1>2, GoMoves, ThrowMoves DEF ConfirmingMove, DrillInv, DrillPlaces, Early,
       Following, Restoring, Later
  <2> QED
    BY <1>0, <1>2, <2>1, ConfirmedMoves, ConfirmingSafe
<1>3. CASE op' = op /\ Throw
  <2>1. QuietMove
    BY <1>1, <1>3, ThrowMoves DEF QuietMove, Throwing, DrillInv, DrillPlaces, Early, Following,
       Restoring, Later
  <2> QED
    BY <1>0, <1>3, <2>1, QuietSafe
<1> QED
  BY <1>2, <1>3 DEF Keep, Confirmed

LEMMA ConfirmRestoreSafe ==
  ASSUME DrillInv, ConfirmRestore
  PROVE  DrillInv'
<1>0. owned' \in BOOLEAN /\ UNCHANGED <<node, net, served, starts, loader, file, baseline, raced>>
  BY DEF DrillInv, DrillTypes, ConfirmRestore
<1>1. drill.pc = "confirm"
  BY DEF ConfirmRestore, At
<1>2. CASE Confirmable(baseline.req) /\ Confirmed(baseline.req) /\ Go("restored")
  <2>1. ConfirmingMove
    BY <1>1, <1>2, GoMoves, RestorationFailsMoves DEF ConfirmingMove, DrillInv, DrillPlaces,
       Early, Following, Restoring, Later
  <2> QED
    BY <1>0, <1>2, <2>1, ConfirmedMoves, ConfirmingSafe
<1>3. CASE op' = op /\ RestorationFails
  <2>1. QuietMove
    BY <1>1, <1>3, RestorationFailsMoves DEF QuietMove, Throwing, DrillInv, DrillPlaces, Early,
       Following, Restoring, Later
  <2> QED
    BY <1>0, <1>3, <2>1, QuietSafe
<1> QED
  BY <1>2, <1>3 DEF ConfirmRestore, Confirmed

LEMMA RestoreNetworkBaselineSafe ==
  ASSUME DrillInv, RestoreNetworkBaseline
  PROVE  DrillInv'
<1>0. owned \in BOOLEAN /\ drill.pc = "baseline"
  BY DEF DrillInv, DrillTypes, RestoreNetworkBaseline, At
<1>1. HostIdle => HostCalm
  BY DEF HostIdle, HostCalm, Ended
<1>2. CASE HostIdle /\ net = "base" /\ Restored /\ UNCHANGED baseline
  <2>1. QuietMove
    BY <1>0, <1>1, <1>2, RestoredMoves DEF QuietMove, DrillInv, Restoring
  <2> QED
    BY <1>0, <1>2, <2>1, QuietSafe DEF RestoreNetworkBaseline, hostVars
<1>3. CASE RestorationFails /\ UNCHANGED baseline
  <2>1. QuietMove
    BY <1>0, <1>3, RestorationFailsMoves DEF QuietMove, DrillInv, Restoring
  <2> QED
    BY <1>0, <1>3, <2>1, QuietSafe DEF RestoreNetworkBaseline, hostVars
<1>4. CASE HostIdle /\ Go("restore") /\ \E r \in Restorations : baseline' = [state |-> "requested", req |-> r, uid |-> 0]
  <2>1. baseline' \in Baselines /\ baseline'.req \in Restorations
    BY <1>4 DEF Baselines
  <2>2. GoesTo("restore")
    BY <1>4, GoMoves DEF DrillInv, DrillPlaces, Later, Restoring
  <2> QED
    BY <1>0, <1>1, <1>4, <2>1, <2>2, RestorationRecorded DEF RestoreNetworkBaseline, hostVars
<1> QED
  BY <1>2, <1>3, <1>4 DEF RestoreNetworkBaseline

LEMMA VerifyBaselineSafe ==
  ASSUME DrillInv, VerifyBaseline
  PROVE  DrillInv'
<1>0. owned \in BOOLEAN /\ drill.pc = "restored"
  BY DEF DrillInv, DrillTypes, VerifyBaseline, At
<1>1. QuietMove
  BY <1>0, RestoredMoves, RestorationFailsMoves DEF VerifyBaseline, QuietMove, DrillInv,
     Restoring, HostCalm, Ended
<1> QED
  BY <1>0, <1>1, QuietSafe DEF VerifyBaseline, hostVars

-----------------------------------------------------------------------------
(* HostDrill: what is proved.                                              *)

LEMMA DrillInitSafe ==
  ASSUME DrillInit
  PROVE  DrillInv
<1>1. PICK c \in DrillCases :
        drill = [pc |-> CASE c = "race" -> "seed" [] c = "channel" -> "preview" [] OTHER -> "plan", case |-> c,
                 plan |-> 0, seen |-> {}, at |-> 0, sent |-> Planned, back |-> "none", clean |-> FALSE]
  BY DEF DrillInit
<1>2. c \in DOMAIN Cases
  BY DrillAssumption
<1> DEFINE start == CASE c = "race" -> "seed" [] c = "channel" -> "preview" [] OTHER -> "plan"
<1>3. start \in {"seed", "preview", "plan"} /\ (start = "seed" => c = "race") /\ (start = "preview" => c = "channel")
  OBVIOUS
<1>4. start \in DrillPlaces /\ start \in Early
  BY <1>3 DEF DrillPlaces, Early
<1> HIDE DEF start
<1>5. drill = [pc |-> start, case |-> c, plan |-> 0, seen |-> {}, at |-> 0, sent |-> Planned, back |-> "none",
               clean |-> FALSE]
  BY <1>1 DEF start
<1>6. /\ drill \in Drills /\ drill.pc = start /\ drill.case = c /\ drill.sent = Planned /\ drill.back = "none"
      /\ drill.clean = FALSE
  BY <1>2, <1>4, <1>5 DEF Drills, Ours
<1>7. /\ node \in HostNodes /\ node.boot = 0 /\ op \in Operations /\ op.uid = 0 /\ op.req = 0 /\ op.phase = "none"
      /\ op.kind = "none" /\ op.boot = 0
  BY DEF DrillInit, NoOperation, HostNodes, Operations, Kinds, OpPhases
<1>8. /\ file \in DrillFiles /\ file.req = 0 /\ file.state = "none" /\ file.uid = 0
      /\ baseline \in Baselines /\ baseline.req = 0
  BY DEF DrillInit, NoFile, DrillFiles, Baselines
<1>9. /\ starts \in [Requests -> Nat] /\ served \in [Requests -> [phase : OpPhases, boots : Int]]
      /\ \A r \in Requests : starts[r] = 0 /\ served[r] = NotServed
  BY DEF DrillInit, NotServed, OpPhases
<1>10. DrillTypes
  BY <1>6, <1>7, <1>8, <1>9 DEF DrillInit, DrillTypes
<1>11. OpKnown
  BY <1>7 DEF OpKnown, Ours, Restorations, Planned, Browser, Other, Preview
<1>12. ServedOnce
  BY <1>7, <1>9 DEF ServedOnce, Ended, NotServed
<1>13. PowerServed
  BY <1>9 DEF PowerServed, NotServed, Ours, Requests
<1>14. FileNames
  BY <1>3, <1>4, <1>6, <1>7, <1>8, <1>9 DEF FileNames, Ours, Planned, Browser, Requests, Early,
     Following
<1>15. BaselineNames
  BY <1>3, <1>6, <1>7, <1>8 DEF BaselineNames, Restorations, Preview, Restoring
<1>16. RaceKnown
  BY <1>3, <1>6, <1>7, <1>8 DEF RaceKnown
<1>17. Credited
  BY <1>3, <1>6, <1>8 DEF Credited
<1>18. NetworkKept
  BY <1>3, <1>6, <1>7 DEF NetworkKept, HostCalm, DrillInit
<1> QED
  BY <1>10, <1>11, <1>12, <1>13, <1>14, <1>15, <1>16, <1>17, <1>18 DEF DrillInv

LEMMA DrillStepsSafe ==
  ASSUME DrillInv, [DrillNext]_drillVars
  PROVE  DrillInv'
<1>1. CASE HostSteps
  BY <1>1, WorkerStartSafe, WorkerRebootsSafe, NodeUpSafe, WorkerReportsSafe,
     WorkerFinishesSafe DEF HostSteps
<1>2. CASE DrillSteps
  BY <1>2, PrepareCacheFixtureSafe, RecordPreviewSafe, CheckChannelSafe, AwaitPreviewSafe,
     ParseHostDrillSafe, PersistRequestSafe, SubmitThroughUiSafe, PostSafe, CreateRaceSafe,
     ObserveIntentSafe, ReplaySafe, AwaitRaceSafe, AwaitTrialSafe, KeepSafe, AwaitConsoleSafe,
     PollNodeSafe, PollReportSafe, PollTimesOutSafe, VerifyFailedSafe, OraclesSafe,
     RestoreNetworkBaselineSafe, PostRestoreSafe, ConfirmRestoreSafe, VerifyBaselineSafe, CreditSafe,
     PinSafe DEF DrillSteps
<1>3. CASE HostRestarts \/ UserOperates \/ LeaseLost \/ DrillKilled
  BY <1>3, HostRestartsSafe, UserOperatesSafe, LeaseLostSafe, DrillKilledSafe
<1>4. CASE UNCHANGED drillVars
  <2>1. UNCHANGED <<op, node, net, served, starts, loader, file, baseline, raced, drill, owned>>
    BY <1>4 DEF drillVars
  <2> QED
    BY <2>1 DEF DrillInv, DrillTypes, OpKnown, ServedOnce, PowerServed, FileNames,
       BaselineNames, RaceKnown, Credited,
                DrillServed, NetworkKept, HostCalm, My
<1> QED
  BY <1>1, <1>2, <1>3, <1>4 DEF DrillNext

\* What is on record, what the host did and what is left of it.
LEMMA DrillInvSafe ==
  ASSUME DrillInv
  PROVE  DrillSafe
<1>1. DrillTrue
  <2>1. file.state = "verified" => DrillServed
    BY DEF DrillInv, Credited
  <2>2. My.kind = "power" => My.terminal = "Succeeded" /\ drill.case # "race"
    BY CasesKnown DEF DrillInv, DrillTypes, Drills, My
  <2>3. file.state = "verified" /\ My.kind = "power" => served[file.req].boots >= 1
    BY <2>1, <2>2 DEF DrillServed, DrillInv, PowerServed
  <2>4. file.state = "verified" /\ drill.case = "race" => raced
    BY DEF DrillInv, RaceKnown
  <2> QED
    BY <2>1, <2>3, <2>4 DEF DrillTrue, DrillServed
<1>2. RecordedFirst
  <2>1. op.uid # 0 => op.req \in OwnRequests \union {Other}
    BY DEF DrillInv, DrillTypes, Operations, OpKnown, OwnRequests, Ours, Requests
  <2>2. op.req \in Ours => op.req = file.req
    BY DEF DrillInv, FileNames
  <2>3. op.req \in Restorations \union {Preview} /\ op.phase \notin Ended => op.req = baseline.req
    BY DEF DrillInv, BaselineNames
  <2> QED
    BY <2>1, <2>2, <2>3 DEF RecordedFirst, OwnRequests
<1>3. OneDisruption
  <2>1. Planned # Browser /\ Planned \in Requests /\ Browser \in Requests /\ Planned \in Ours /\ Browser \in Ours
    BY DEF Planned, Browser, Requests, Ours
  <2>2. starts[Planned] \in Nat /\ starts[Browser] \in Nat
    BY <2>1 DEF DrillInv, DrillTypes
  <2>3. starts[Planned] <= 1 /\ starts[Browser] <= 1
    BY <2>1 DEF DrillInv, ServedOnce
  <2>4. ~(starts[Planned] > 0 /\ starts[Browser] > 0)
    BY <2>1 DEF DrillInv, FileNames
  <2> QED
    BY <2>2, <2>3, <2>4 DEF OneDisruption
<1>4. NetworkBack
  BY DEF DrillInv, NetworkKept, NetworkBack, At
<1> QED
  BY <1>1, <1>2, <1>3, <1>4 DEF DrillSafe

\* A drill is credited only with what the host did for the request on record,
\* starts it at most once, has every request on record before it is sent, and
\* ends as clean only with the saved network as it was: whatever the operations
\* of others, restarts, lost answers and kills fell into the outage.
THEOREM DrillStaysSafe == DrillSpec => []DrillSafe
<1>1. DrillInit => DrillInv
  BY DrillInitSafe
<1>2. DrillInv /\ [DrillNext]_drillVars => DrillInv'
  BY DrillStepsSafe
<1>3. DrillInv => DrillSafe
  BY DrillInvSafe
<1> QED
  BY <1>1, <1>2, <1>3, PTL DEF DrillSpec

(***************************************************************************)
(* GpuValidation.                                                          *)
(***************************************************************************)
Devices == {"card", "other"}
PodPhases == {"absent", "pending", "scheduled", "running", "succeeded", "gone"}
WatchPlaces == {"prepare", "blocked", "request", "jobs", "inventory", "pods", "claim", "judge", "decide", "credited", "failed"}
PodOver == {"succeeded", "gone"}
ClaimOk(c) == DOMAIN c = {"uid", "alloc", "users"} /\ c.uid \in Nat \ {0} /\ c.users \subseteq {Pod, Workload}
              /\ c.alloc \in Devices \cup {"none"} /\ (c.alloc = "none" <=> c.users = {})

ValidationTypes ==
  /\ backend \in {"device-plugin", "dra"} /\ cards \in {1, 2} /\ pod \in PodPhases /\ ClaimOk(claim)
  /\ ran \in Devices \cup {"none"} /\ DOMAIN watch = {"pc", "view"} /\ watch.pc \in WatchPlaces
  /\ DOMAIN Seen = {"job", "result", "phase", "uid", "alloc", "users"} /\ Seen.uid \in Nat
  /\ allocated \in Nat /\ DOMAIN pending = {"uid", "age"} /\ pending.age \in Nat /\ pending.uid \in Nat
  /\ validationFaults \in Nat
  /\ asked \in {"none", "file", "sent"} /\ job \in {"none", "open", "complete", "failed"}

\* Where the Pod is and what its claim and its engine have to do with it.
PodOk ==
  /\ pod \in {"absent", "pending", "scheduled"} => ran = "none"
  /\ pod \in {"running", "succeeded"} => ran # "none"
  /\ (pod = "absent" <=> job = "none") /\ (asked # "sent" => job = "none")
  /\ watch.pc = "prepare" => asked = "none"
  /\ backend = "dra" /\ pod = "scheduled" /\ claim.users # {} => Pod \in claim.users
  /\ backend = "dra" /\ pod = "running" => Pod \in claim.users /\ ran = claim.alloc
  /\ backend = "dra" /\ pod \in PodOver /\ ran # "none" => claim.alloc \in {"none", ran}
  /\ backend # "dra" /\ cards = 1 => ran # "other"

\* What can be said of the engine once the claim was seen allocated to this Pod.
Proven ==
  \/ ran = "card"
  \/ ran = "none" /\ pod = "gone"
  \/ ran = "none" /\ pod = "scheduled" /\ Pod \in claim.users /\ claim.alloc = "card"

\* What the run has read is still true, or was true of the same Pod.
ViewOk ==
  /\ Seen.phase \in PodPhases \ {"gone"}
  /\ watch.pc \in {"claim", "judge"} => Seen.phase # "absent"
  /\ Seen.phase # "absent" => pod # "absent"
  /\ Seen.phase = "succeeded" => ran # "none" /\ pod \in PodOver
  /\ backend = "dra" /\ Seen.phase # "absent" => Seen.phase # "pending" /\ pod # "pending"
  /\ Seen.phase = "running" => pod \in {"running", "succeeded", "gone"}
  /\ watch.pc = "judge" => Seen.uid # 0 /\ Seen.alloc \in Devices \cup {"none"}
  /\ watch.pc = "judge" /\ backend = "dra" /\ Seen.alloc = "card" => Proven
  /\ allocated # 0 => backend = "dra" /\ pod # "absent" /\ Proven

CreditOk == bound => ran = "card"

\* Nothing is out of order unless a fault happened or the engine was too quick.
Undisturbed ==
  \/ validationFaults > 0 \/ unseen
  \/ /\ job # "failed" /\ pod # "gone" /\ claim.uid = 1 /\ claim.alloc # "other"
     /\ allocated \in {0, 1} /\ pending.uid \in {0, 1}
     /\ watch.pc \notin {"prepare", "blocked"} => backend = "dra" \/ cards = 1
     /\ pod = "succeeded" /\ backend = "dra" => allocated # 0
     /\ watch.pc = "judge" =>
          /\ Seen.uid = 1 /\ Seen.alloc # "other" /\ (Seen.alloc = "none" => Seen.users = {})
          /\ Seen.alloc = "none" /\ backend = "dra" /\ (Seen.phase = "running" \/ allocated # 0) => pod \in PodOver
     /\ watch.pc = "failed" => pending.age >= PendingLimit

ValidationInv == ValidationTypes /\ PodOk /\ ViewOk /\ CreditOk /\ Undisturbed


LEMMA ValidationStep ==
  ASSUME LateSharers = FALSE, ValidationInv, [ValidationNext]_validationVars
  PROVE  ValidationInv'
<1> USE ValidationAssumption DEF Pod, Workload, Devices, PodPhases, WatchPlaces, PodOver,
   NoView, NoPending, Seen
<1>1. CASE ControllerStarts
  <2>1. ValidationTypes'
    BY <1>1 DEF ControllerStarts, evidence, ValidationInv, ValidationTypes, ClaimOk
  <2>2. PodOk'
    BY <1>1 DEF ControllerStarts, evidence, ValidationInv, ValidationTypes, ClaimOk, PodOk
  <2>3. ViewOk'
    BY <1>1 DEF ControllerStarts, evidence, ValidationInv, ValidationTypes, ClaimOk, PodOk,
       ViewOk, Proven
  <2>4. CreditOk'
    BY <1>1 DEF ControllerStarts, evidence, ValidationInv, ValidationTypes, PodOk, ViewOk,
       CreditOk, Proven
  <2>5. Undisturbed'
    BY <1>1 DEF ControllerStarts, evidence, ValidationInv, ValidationTypes, ClaimOk, PodOk,
       ViewOk, Undisturbed, Proven
  <2> QED
    BY <2>1, <2>2, <2>3, <2>4, <2>5 DEF ValidationInv
<1>2. CASE ControllerPublishes
  <2>1. ValidationTypes'
    BY <1>2 DEF ControllerPublishes, evidence, ValidationInv, ValidationTypes, ClaimOk
  <2>2. PodOk'
    BY <1>2 DEF ControllerPublishes, evidence, ValidationInv, ValidationTypes, ClaimOk, PodOk
  <2>3. ViewOk'
    BY <1>2 DEF ControllerPublishes, evidence, ValidationInv, ValidationTypes, ClaimOk, PodOk,
       ViewOk, Proven
  <2>4. CreditOk'
    BY <1>2 DEF ControllerPublishes, evidence, ValidationInv, ValidationTypes, PodOk, ViewOk,
       CreditOk, Proven
  <2>5. Undisturbed'
    BY <1>2 DEF ControllerPublishes, evidence, ValidationInv, ValidationTypes, ClaimOk, PodOk,
       ViewOk, Undisturbed, Proven
  <2> QED
    BY <2>1, <2>2, <2>3, <2>4, <2>5 DEF ValidationInv
<1>3. CASE Schedule
  <2>1. ValidationTypes'
    BY <1>3 DEF Schedule, evidence, ValidationInv, ValidationTypes, ClaimOk
  <2>2. PodOk'
    BY <1>3 DEF Schedule, evidence, ValidationInv, ValidationTypes, ClaimOk, PodOk
  <2>3. ViewOk'
    BY <1>3 DEF Schedule, evidence, ValidationInv, ValidationTypes, ClaimOk, PodOk, ViewOk,
       Proven
  <2>4. CreditOk'
    BY <1>3 DEF Schedule, evidence, ValidationInv, ValidationTypes, PodOk, ViewOk, CreditOk,
       Proven
  <2>5. Undisturbed'
    BY <1>3 DEF Schedule, evidence, ValidationInv, ValidationTypes, ClaimOk, PodOk, ViewOk,
       Undisturbed, Proven
  <2> QED
    BY <2>1, <2>2, <2>3, <2>4, <2>5 DEF ValidationInv
<1>4. CASE AllocatePod("card")
  <2>1. ValidationTypes'
    BY <1>4 DEF AllocatePod, evidence, Allocate, ValidationInv, ValidationTypes, ClaimOk
  <2>2. PodOk'
    BY <1>4 DEF AllocatePod, evidence, Allocate, ValidationInv, ValidationTypes, ClaimOk, PodOk
  <2>3. ViewOk'
    BY <1>4 DEF AllocatePod, evidence, Allocate, ValidationInv, ValidationTypes, ClaimOk,
       PodOk, ViewOk, Proven
  <2>4. CreditOk'
    BY <1>4 DEF AllocatePod, evidence, Allocate, ValidationInv, ValidationTypes, PodOk, ViewOk,
       CreditOk, Proven
  <2>5. Undisturbed'
    BY <1>4 DEF AllocatePod, evidence, Allocate, ValidationInv, ValidationTypes, ClaimOk,
       PodOk, ViewOk, Undisturbed, Proven
  <2> QED
    BY <2>1, <2>2, <2>3, <2>4, <2>5 DEF ValidationInv
<1>5. CASE AllocatePod("other")
  <2>1. ValidationTypes'
    BY <1>5 DEF AllocatePod, evidence, Allocate, ValidationInv, ValidationTypes, ClaimOk
  <2>2. PodOk'
    BY <1>5 DEF AllocatePod, evidence, Allocate, ValidationInv, ValidationTypes, ClaimOk, PodOk
  <2>3. ViewOk'
    BY <1>5 DEF AllocatePod, evidence, Allocate, ValidationInv, ValidationTypes, ClaimOk,
       PodOk, ViewOk, Proven
  <2>4. CreditOk'
    BY <1>5 DEF AllocatePod, evidence, Allocate, ValidationInv, ValidationTypes, PodOk, ViewOk,
       CreditOk, Proven
  <2>5. Undisturbed'
    BY <1>5 DEF AllocatePod, evidence, Allocate, ValidationInv, ValidationTypes, ClaimOk,
       PodOk, ViewOk, Undisturbed, Proven
  <2> QED
    BY <2>1, <2>2, <2>3, <2>4, <2>5 DEF ValidationInv
<1>6. CASE AllocateWorkload("card")
  <2>1. ValidationTypes'
    BY <1>6 DEF AllocateWorkload, evidence, Allocate, Reserving, ValidationInv,
       ValidationTypes, ClaimOk
  <2>2. PodOk'
    BY <1>6 DEF AllocateWorkload, evidence, Allocate, Reserving, ValidationInv,
       ValidationTypes, ClaimOk, PodOk
  <2>3. ViewOk'
    BY <1>6 DEF AllocateWorkload, evidence, Allocate, Reserving, ValidationInv,
       ValidationTypes, ClaimOk, PodOk, ViewOk, Proven
  <2>4. CreditOk'
    BY <1>6 DEF AllocateWorkload, evidence, Allocate, Reserving, ValidationInv,
       ValidationTypes, PodOk, ViewOk, CreditOk, Proven
  <2>5. Undisturbed'
    BY <1>6 DEF AllocateWorkload, evidence, Allocate, Reserving, ValidationInv,
       ValidationTypes, ClaimOk, PodOk, ViewOk, Undisturbed, Proven
  <2> QED
    BY <2>1, <2>2, <2>3, <2>4, <2>5 DEF ValidationInv
<1>7. CASE AllocateWorkload("other")
  <2>1. ValidationTypes'
    BY <1>7 DEF AllocateWorkload, evidence, Allocate, Reserving, ValidationInv,
       ValidationTypes, ClaimOk
  <2>2. PodOk'
    BY <1>7 DEF AllocateWorkload, evidence, Allocate, Reserving, ValidationInv,
       ValidationTypes, ClaimOk, PodOk
  <2>3. ViewOk'
    BY <1>7 DEF AllocateWorkload, evidence, Allocate, Reserving, ValidationInv,
       ValidationTypes, ClaimOk, PodOk, ViewOk, Proven
  <2>4. CreditOk'
    BY <1>7 DEF AllocateWorkload, evidence, Allocate, Reserving, ValidationInv,
       ValidationTypes, PodOk, ViewOk, CreditOk, Proven
  <2>5. Undisturbed'
    BY <1>7 DEF AllocateWorkload, evidence, Allocate, Reserving, ValidationInv,
       ValidationTypes, ClaimOk, PodOk, ViewOk, Undisturbed, Proven
  <2> QED
    BY <2>1, <2>2, <2>3, <2>4, <2>5 DEF ValidationInv
<1>8. CASE StartEngine
  <2>1. ValidationTypes'
    BY <1>8 DEF StartEngine, evidence, ValidationInv, ValidationTypes, ClaimOk
  <2>2. PodOk'
    BY <1>8 DEF StartEngine, evidence, ValidationInv, ValidationTypes, ClaimOk, PodOk
  <2>3. ViewOk'
    BY <1>8 DEF StartEngine, evidence, ValidationInv, ValidationTypes, ClaimOk, PodOk, ViewOk,
       Proven
  <2>4. CreditOk'
    BY <1>8 DEF StartEngine, evidence, ValidationInv, ValidationTypes, PodOk, ViewOk, CreditOk,
       Proven
  <2>5. Undisturbed'
    BY <1>8 DEF StartEngine, evidence, ValidationInv, ValidationTypes, ClaimOk, PodOk, ViewOk,
       Undisturbed, Proven
  <2> QED
    BY <2>1, <2>2, <2>3, <2>4, <2>5 DEF ValidationInv
<1>9. CASE ValidationComplete
  <2>1. ValidationTypes'
    BY <1>9 DEF ValidationComplete, evidence, ValidationInv, ValidationTypes, ClaimOk
  <2>2. PodOk'
    BY <1>9 DEF ValidationComplete, evidence, ValidationInv, ValidationTypes, ClaimOk, PodOk
  <2>3. ViewOk'
    BY <1>9 DEF ValidationComplete, evidence, ValidationInv, ValidationTypes, ClaimOk, PodOk,
       ViewOk, Proven
  <2>4. CreditOk'
    BY <1>9 DEF ValidationComplete, evidence, ValidationInv, ValidationTypes, PodOk, ViewOk,
       CreditOk, Proven
  <2>5. Undisturbed'
    BY <1>9 DEF ValidationComplete, evidence, ValidationInv, ValidationTypes, ClaimOk, PodOk,
       ViewOk, Undisturbed, Proven
  <2> QED
    BY <2>1, <2>2, <2>3, <2>4, <2>5 DEF ValidationInv
<1>10. CASE Deallocate(Pod)
  <2>1. ValidationTypes'
    BY <1>10 DEF Deallocate, evidence, ValidationInv, ValidationTypes, ClaimOk
  <2>2. PodOk'
    BY <1>10 DEF Deallocate, evidence, ValidationInv, ValidationTypes, ClaimOk, PodOk
  <2>3. ViewOk'
    BY <1>10 DEF Deallocate, evidence, ValidationInv, ValidationTypes, ClaimOk, PodOk, ViewOk,
       Proven
  <2>4. CreditOk'
    BY <1>10 DEF Deallocate, evidence, ValidationInv, ValidationTypes, PodOk, ViewOk, CreditOk,
       Proven
  <2>5. Undisturbed'
    BY <1>10 DEF Deallocate, evidence, ValidationInv, ValidationTypes, ClaimOk, PodOk, ViewOk,
       Undisturbed, Proven
  <2> QED
    BY <2>1, <2>2, <2>3, <2>4, <2>5 DEF ValidationInv
<1>11. CASE Deallocate(Workload)
  <2>1. ValidationTypes'
    BY <1>11 DEF Deallocate, evidence, ValidationInv, ValidationTypes, ClaimOk
  <2>2. PodOk'
    BY <1>11 DEF Deallocate, evidence, ValidationInv, ValidationTypes, ClaimOk, PodOk
  <2>3. ViewOk'
    BY <1>11 DEF Deallocate, evidence, ValidationInv, ValidationTypes, ClaimOk, PodOk, ViewOk,
       Proven
  <2>4. CreditOk'
    BY <1>11 DEF Deallocate, evidence, ValidationInv, ValidationTypes, PodOk, ViewOk, CreditOk,
       Proven
  <2>5. Undisturbed'
    BY <1>11 DEF Deallocate, evidence, ValidationInv, ValidationTypes, ClaimOk, PodOk, ViewOk,
       Undisturbed, Proven
  <2> QED
    BY <2>1, <2>2, <2>3, <2>4, <2>5 DEF ValidationInv
<1>12. CASE PrepareValidation
  <2>1. ValidationTypes'
    BY <1>12 DEF PrepareValidation, evidence, On, Move, ValidationInv, ValidationTypes, ClaimOk
  <2>2. PodOk'
    BY <1>12 DEF PrepareValidation, evidence, On, Move, ValidationInv, ValidationTypes,
       ClaimOk, PodOk
  <2>3. ViewOk'
    BY <1>12 DEF PrepareValidation, evidence, On, Move, ValidationInv, ValidationTypes,
       ClaimOk, PodOk, ViewOk, Proven
  <2>4. CreditOk'
    BY <1>12 DEF PrepareValidation, evidence, On, Move, ValidationInv, ValidationTypes, PodOk,
       ViewOk, CreditOk, Proven
  <2>5. Undisturbed'
    BY <1>12 DEF PrepareValidation, evidence, On, Move, ValidationInv, ValidationTypes,
       ClaimOk, PodOk, ViewOk, Undisturbed, Proven
  <2> QED
    BY <2>1, <2>2, <2>3, <2>4, <2>5 DEF ValidationInv
<1>13. CASE RequestValidationUi
  <2>1. ValidationTypes'
    BY <1>13 DEF RequestValidationUi, clusterVars, evidence, VFault, On, Move, Fails,
       ValidationInv, ValidationTypes, ClaimOk
  <2>2. PodOk'
    BY <1>13 DEF RequestValidationUi, clusterVars, evidence, VFault, On, Move, Fails,
       ValidationInv, ValidationTypes, ClaimOk, PodOk
  <2>3. ViewOk'
    BY <1>13 DEF RequestValidationUi, clusterVars, evidence, VFault, On, Move, Fails,
       ValidationInv, ValidationTypes, ClaimOk, PodOk, ViewOk, Proven
  <2>4. CreditOk'
    BY <1>13 DEF RequestValidationUi, clusterVars, evidence, VFault, On, Move, Fails,
       ValidationInv, ValidationTypes, PodOk, ViewOk, CreditOk, Proven
  <2>5. Undisturbed'
    BY <1>13 DEF RequestValidationUi, clusterVars, evidence, VFault, On, Move, Fails,
       ValidationInv, ValidationTypes, ClaimOk, PodOk, ViewOk, Undisturbed, Proven
  <2> QED
    BY <2>1, <2>2, <2>3, <2>4, <2>5 DEF ValidationInv
<1>14. CASE ReadJobs
  <2>1. ValidationTypes'
    BY <1>14 DEF ReadJobs, clusterVars, evidence, On, Move, Fails, ValidationInv,
       ValidationTypes, ClaimOk
  <2>2. PodOk'
    BY <1>14 DEF ReadJobs, clusterVars, evidence, On, Move, Fails, ValidationInv,
       ValidationTypes, ClaimOk, PodOk
  <2>3. ViewOk'
    BY <1>14 DEF ReadJobs, clusterVars, evidence, On, Move, Fails, ValidationInv,
       ValidationTypes, ClaimOk, PodOk, ViewOk, Proven
  <2>4. CreditOk'
    BY <1>14 DEF ReadJobs, clusterVars, evidence, On, Move, Fails, ValidationInv,
       ValidationTypes, PodOk, ViewOk, CreditOk, Proven
  <2>5. Undisturbed'
    BY <1>14 DEF ReadJobs, clusterVars, evidence, On, Move, Fails, ValidationInv,
       ValidationTypes, ClaimOk, PodOk, ViewOk, Undisturbed, Proven
  <2> QED
    BY <2>1, <2>2, <2>3, <2>4, <2>5 DEF ValidationInv
<1>15. CASE ReadInventory
  <2>1. ValidationTypes'
    BY <1>15 DEF ReadInventory, clusterVars, evidence, On, ValidationInv, ValidationTypes,
       ClaimOk
  <2>2. PodOk'
    BY <1>15 DEF ReadInventory, clusterVars, evidence, On, ValidationInv, ValidationTypes,
       ClaimOk, PodOk
  <2>3. ViewOk'
    BY <1>15 DEF ReadInventory, clusterVars, evidence, On, ValidationInv, ValidationTypes,
       ClaimOk, PodOk, ViewOk, Proven
  <2>4. CreditOk'
    BY <1>15 DEF ReadInventory, clusterVars, evidence, On, ValidationInv, ValidationTypes,
       PodOk, ViewOk, CreditOk, Proven
  <2>5. Undisturbed'
    BY <1>15 DEF ReadInventory, clusterVars, evidence, On, ValidationInv, ValidationTypes,
       ClaimOk, PodOk, ViewOk, Undisturbed, Proven
  <2> QED
    BY <2>1, <2>2, <2>3, <2>4, <2>5 DEF ValidationInv
<1>16. CASE ListPods
  <2>1. ValidationTypes'
    BY <1>16 DEF ListPods, clusterVars, evidence, On, Move, LivePods, ValidationInv,
       ValidationTypes, ClaimOk
  <2>2. PodOk'
    BY <1>16 DEF ListPods, clusterVars, evidence, On, Move, LivePods, ValidationInv,
       ValidationTypes, ClaimOk, PodOk
  <2>3. ViewOk'
    BY <1>16 DEF ListPods, clusterVars, evidence, On, Move, LivePods, ValidationInv,
       ValidationTypes, ClaimOk, PodOk, ViewOk, Proven
  <2>4. CreditOk'
    BY <1>16 DEF ListPods, clusterVars, evidence, On, Move, LivePods, ValidationInv,
       ValidationTypes, PodOk, ViewOk, CreditOk, Proven
  <2>5. Undisturbed'
    BY <1>16 DEF ListPods, clusterVars, evidence, On, Move, LivePods, ValidationInv,
       ValidationTypes, ClaimOk, PodOk, ViewOk, Undisturbed, Proven
  <2> QED
    BY <2>1, <2>2, <2>3, <2>4, <2>5 DEF ValidationInv
<1>17. CASE ReadClaim
  <2>0. /\ DOMAIN watch' = {"pc", "view"} /\ watch'.pc = "judge"
        /\ DOMAIN watch'.view = {"job", "result", "phase", "uid", "alloc", "users"} /\ watch'.view.uid = claim.uid
        /\ UNCHANGED <<clusterVars, asked, evidence, validationFaults>>
    BY <1>17 DEF ReadClaim, ValidationInv, ValidationTypes
  <2>1. ValidationTypes'
    BY <2>0 DEF clusterVars, evidence, ValidationInv, ValidationTypes, ClaimOk
  <2>2. PodOk'
    BY <1>17 DEF ReadClaim, clusterVars, evidence, On, ValidationInv, ValidationTypes, ClaimOk,
       PodOk
  <2>3. ViewOk'
    BY <1>17 DEF ReadClaim, clusterVars, evidence, On, ValidationInv, ValidationTypes, ClaimOk,
       PodOk, ViewOk, Proven
  <2>4. CreditOk'
    BY <1>17 DEF ReadClaim, clusterVars, evidence, On, ValidationInv, ValidationTypes, PodOk,
       ViewOk, CreditOk, Proven
  <2>5. Undisturbed'
    BY <1>17 DEF ReadClaim, clusterVars, evidence, On, ValidationInv, ValidationTypes, ClaimOk,
       PodOk, ViewOk, Undisturbed, Proven
  <2> QED
    BY <2>1, <2>2, <2>3, <2>4, <2>5 DEF ValidationInv
<1>18. CASE JudgePlugin
  <2>1. ValidationTypes'
    BY <1>18 DEF JudgePlugin, clusterVars, On, Move, Fails, Bind, ValidationInv,
       ValidationTypes, ClaimOk
  <2>2. PodOk'
    BY <1>18 DEF JudgePlugin, clusterVars, On, Move, Fails, Bind, ValidationInv,
       ValidationTypes, ClaimOk, PodOk
  <2>3. ViewOk'
    BY <1>18 DEF JudgePlugin, clusterVars, On, Move, Fails, Bind, ValidationInv,
       ValidationTypes, ClaimOk, PodOk, ViewOk, Proven
  <2>4. CreditOk'
    BY <1>18 DEF JudgePlugin, clusterVars, On, Move, Fails, Bind, ValidationInv,
       ValidationTypes, PodOk, ViewOk, CreditOk, Proven
  <2>5. Undisturbed'
    BY <1>18 DEF JudgePlugin, clusterVars, On, Move, Fails, Bind, ValidationInv,
       ValidationTypes, ClaimOk, PodOk, ViewOk, Undisturbed, Proven
  <2> QED
    BY <2>1, <2>2, <2>3, <2>4, <2>5 DEF ValidationInv
<1>19. CASE JudgePending
  <2>1. ValidationTypes'
    BY <1>19 DEF JudgePending, clusterVars, On, Move, Fails, SameClaim, AllocationPending,
       Unallocated, ValidationInv, ValidationTypes, ClaimOk
  <2>2. PodOk'
    BY <1>19 DEF JudgePending, clusterVars, On, Move, Fails, SameClaim, AllocationPending,
       Unallocated, ValidationInv, ValidationTypes, ClaimOk, PodOk
  <2>3. ViewOk'
    BY <1>19 DEF JudgePending, clusterVars, On, Move, Fails, SameClaim, AllocationPending,
       Unallocated, ValidationInv, ValidationTypes, ClaimOk, PodOk, ViewOk, Proven
  <2>4. CreditOk'
    BY <1>19 DEF JudgePending, clusterVars, On, Move, Fails, SameClaim, AllocationPending,
       Unallocated, ValidationInv, ValidationTypes, PodOk, ViewOk, CreditOk, Proven
  <2>5. Undisturbed'
    BY <1>19 DEF JudgePending, clusterVars, On, Move, Fails, SameClaim, AllocationPending,
       Unallocated, ValidationInv, ValidationTypes, ClaimOk, PodOk, ViewOk, Undisturbed,
       Proven
  <2> QED
    BY <2>1, <2>2, <2>3, <2>4, <2>5 DEF ValidationInv
<1>20. CASE Reread
  <2>1. ValidationTypes'
    BY <1>20 DEF Reread, clusterVars, evidence, On, Move, Fails, SameClaim, AllocationPending,
       DeallocationRaced, Unallocated, ValidationInv, ValidationTypes, ClaimOk
  <2>2. PodOk'
    BY <1>20 DEF Reread, clusterVars, evidence, On, Move, Fails, SameClaim, AllocationPending,
       DeallocationRaced, Unallocated, ValidationInv, ValidationTypes, ClaimOk, PodOk
  <2>3. ViewOk'
    BY <1>20 DEF Reread, clusterVars, evidence, On, Move, Fails, SameClaim, AllocationPending,
       DeallocationRaced, Unallocated, ValidationInv, ValidationTypes, ClaimOk, PodOk, ViewOk,
       Proven
  <2>4. CreditOk'
    BY <1>20 DEF Reread, clusterVars, evidence, On, Move, Fails, SameClaim, AllocationPending,
       DeallocationRaced, Unallocated, ValidationInv, ValidationTypes, PodOk, ViewOk, CreditOk,
       Proven
  <2>5. Undisturbed'
    BY <1>20 DEF Reread, clusterVars, evidence, On, Move, Fails, SameClaim, AllocationPending,
       DeallocationRaced, Unallocated, ValidationInv, ValidationTypes, ClaimOk, PodOk, ViewOk,
       Undisturbed, Proven
  <2> QED
    BY <2>1, <2>2, <2>3, <2>4, <2>5 DEF ValidationInv
<1>21. CASE JudgeBinding
  <2> DEFINE proof == IF Unallocated /\ Seen.phase = "succeeded" THEN PreviousProof ELSE NvidiaValidationBinding
             known == allocated \in {0, Seen.uid}
             passed == SameClaim /\ proof /\ (Seen.phase # "succeeded" => known)
  <2>0. watch.pc = "judge" /\ backend = "dra" /\ ~(SameClaim /\ (AllocationPending \/ DeallocationRaced))
        /\ UNCHANGED clusterVars /\ UNCHANGED <<asked, validationFaults>>
    BY <1>21 DEF JudgeBinding, clusterVars, evidence, On, Move, Fails, Bind, SameClaim,
       AllocationPending, DeallocationRaced, Unallocated, PreviousProof,
       NvidiaValidationBinding
  <2>a. CASE ~passed
    <3>1. watch' = [watch EXCEPT !.pc = "failed"] /\ UNCHANGED evidence
      BY <1>21, <2>a DEF JudgeBinding, Fails, Move
    <3>2. ValidationTypes' /\ PodOk' /\ ViewOk' /\ CreditOk'
      BY <2>0, <3>1 DEF clusterVars, evidence, ValidationInv, ValidationTypes, ClaimOk, PodOk,
         ViewOk, CreditOk, Proven
    <3>3. validationFaults > 0 \/ unseen
      <4>1. SUFFICES ASSUME validationFaults = 0, ~unseen PROVE FALSE
        BY DEF ValidationInv, ValidationTypes
      <4>2. /\ job # "failed" /\ pod # "gone" /\ claim.uid = 1 /\ allocated \in {0, 1} /\ pending.uid \in {0, 1}
            /\ pod = "succeeded" => allocated # 0
            /\ Seen.uid = 1 /\ Seen.alloc # "other" /\ (Seen.alloc = "none" => Seen.users = {})
            /\ Seen.alloc = "none" /\ (Seen.phase = "running" \/ allocated # 0) => pod \in PodOver
        BY <2>0, <4>1 DEF ValidationInv, Undisturbed
      <4>3. SameClaim /\ known
        BY <4>2 DEF SameClaim
      <4>4. CASE Seen.alloc = "none"
        <5>1. Seen.phase = "succeeded" => pod = "succeeded"
          BY <2>0, <4>2 DEF ValidationInv, ViewOk
        <5>2. CASE Seen.phase = "succeeded"
          BY <2>a, <4>2, <4>3, <4>4, <5>1, <5>2 DEF PreviousProof, Unallocated
        <5>3. CASE Seen.phase # "succeeded"
          <6>1. Seen.phase # "scheduled" /\ allocated = 0
            BY <2>0, <4>2, <4>3, <4>4, <5>3 DEF AllocationPending, DeallocationRaced,
               Unallocated
          <6>2. Seen.phase = "running"
            BY <2>0, <5>3, <6>1 DEF ValidationInv, ViewOk
          <6> QED
            BY <4>2, <4>4, <6>1, <6>2
        <5> QED
          BY <5>2, <5>3
      <4>5. CASE Seen.alloc # "none"
        <5>1. Seen.alloc = "card"
          BY <2>0, <4>2, <4>5 DEF ValidationInv, ViewOk
        <5> QED
          BY <2>a, <4>3, <4>5, <5>1 DEF Unallocated, NvidiaValidationBinding
      <4> QED
        BY <4>4, <4>5
    <3>4. Undisturbed'
      BY <2>0, <3>3 DEF clusterVars, Undisturbed
    <3> QED
      BY <3>2, <3>4 DEF ValidationInv
  <2>b. CASE passed
    <3>1. /\ watch' = [watch EXCEPT !.pc = "decide"] /\ bound' = (bound \/ Seen.phase = "succeeded")
          /\ allocated' = (IF Seen.phase # "succeeded" THEN Seen.uid ELSE allocated)
          /\ pending' = (IF Unallocated THEN pending ELSE NoPending)
      BY <1>21, <2>b DEF JudgeBinding, Bind, Move
    <3>2. ValidationTypes' /\ PodOk'
      BY <2>0, <3>1 DEF clusterVars, ValidationInv, ValidationTypes, ClaimOk, PodOk
    <3>3. Seen.phase # "succeeded" => Seen.alloc = "card"
      BY <2>b DEF NvidiaValidationBinding
    <3>4. ViewOk'
      BY <2>0, <3>1, <3>3 DEF clusterVars, ValidationInv, ViewOk, Proven
    <3>5. Seen.phase = "succeeded" => ran = "card"
      <4>1. SUFFICES ASSUME Seen.phase = "succeeded" PROVE ran = "card"
        OBVIOUS
      <4>2. ran # "none" /\ pod \in PodOver
        BY <4>1 DEF ValidationInv, ViewOk
      <4>3. Seen.alloc = "card" \/ (allocated = Seen.uid /\ Seen.uid # 0)
        BY <2>b, <4>1, <2>0 DEF PreviousProof, NvidiaValidationBinding, ValidationInv, ViewOk
      <4> QED
        BY <2>0, <4>2, <4>3 DEF ValidationInv, ViewOk, Proven
    <3>6. CreditOk'
      BY <2>0, <3>1, <3>5 DEF clusterVars, ValidationInv, CreditOk
    <3>7. Undisturbed'
      BY <2>0, <3>1 DEF clusterVars, ValidationInv, Undisturbed, ViewOk, ValidationTypes
    <3> QED
      BY <3>2, <3>4, <3>6, <3>7 DEF ValidationInv
  <2> QED
    BY <2>a, <2>b
<1>22. CASE CompletedValidation
  <2>1. ValidationTypes'
    BY <1>22 DEF CompletedValidation, clusterVars, evidence, On, Move, ValidationInv,
       ValidationTypes, ClaimOk
  <2>2. PodOk'
    BY <1>22 DEF CompletedValidation, clusterVars, evidence, On, Move, ValidationInv,
       ValidationTypes, ClaimOk, PodOk
  <2>3. ViewOk'
    BY <1>22 DEF CompletedValidation, clusterVars, evidence, On, Move, ValidationInv,
       ValidationTypes, ClaimOk, PodOk, ViewOk, Proven
  <2>4. CreditOk'
    BY <1>22 DEF CompletedValidation, clusterVars, evidence, On, Move, ValidationInv,
       ValidationTypes, PodOk, ViewOk, CreditOk, Proven
  <2>5. Undisturbed'
    BY <1>22 DEF CompletedValidation, clusterVars, evidence, On, Move, ValidationInv,
       ValidationTypes, ClaimOk, PodOk, ViewOk, Undisturbed, Proven
  <2> QED
    BY <2>1, <2>2, <2>3, <2>4, <2>5 DEF ValidationInv
<1>23. CASE ValidationTimesOut
  <2>1. ValidationTypes'
    BY <1>23 DEF ValidationTimesOut, clusterVars, evidence, On, Move, Fails, ValidationInv,
       ValidationTypes, ClaimOk
  <2>2. PodOk'
    BY <1>23 DEF ValidationTimesOut, clusterVars, evidence, On, Move, Fails, ValidationInv,
       ValidationTypes, ClaimOk, PodOk
  <2>3. ViewOk'
    BY <1>23 DEF ValidationTimesOut, clusterVars, evidence, On, Move, Fails, ValidationInv,
       ValidationTypes, ClaimOk, PodOk, ViewOk, Proven
  <2>4. CreditOk'
    BY <1>23 DEF ValidationTimesOut, clusterVars, evidence, On, Move, Fails, ValidationInv,
       ValidationTypes, PodOk, ViewOk, CreditOk, Proven
  <2>5. Undisturbed'
    BY <1>23 DEF ValidationTimesOut, clusterVars, evidence, On, Move, Fails, ValidationInv,
       ValidationTypes, ClaimOk, PodOk, ViewOk, Undisturbed, Proven
  <2> QED
    BY <2>1, <2>2, <2>3, <2>4, <2>5 DEF ValidationInv
<1>24. CASE RemovePod
  <2>1. ValidationTypes'
    BY <1>24 DEF RemovePod, evidence, VFault, ValidationInv, ValidationTypes, ClaimOk
  <2>2. PodOk'
    BY <1>24 DEF RemovePod, evidence, VFault, ValidationInv, ValidationTypes, ClaimOk, PodOk
  <2>3. ViewOk'
    BY <1>24 DEF RemovePod, evidence, VFault, ValidationInv, ValidationTypes, ClaimOk, PodOk,
       ViewOk, Proven
  <2>4. CreditOk'
    BY <1>24 DEF RemovePod, evidence, VFault, ValidationInv, ValidationTypes, PodOk, ViewOk,
       CreditOk, Proven
  <2>5. Undisturbed'
    BY <1>24 DEF RemovePod, evidence, VFault, ValidationInv, ValidationTypes, ClaimOk, PodOk,
       ViewOk, Undisturbed, Proven
  <2> QED
    BY <2>1, <2>2, <2>3, <2>4, <2>5 DEF ValidationInv
<1>25. CASE Evict
  <2>1. ValidationTypes'
    BY <1>25 DEF Evict, evidence, VFault, ValidationInv, ValidationTypes, ClaimOk
  <2>2. PodOk'
    BY <1>25 DEF Evict, evidence, VFault, ValidationInv, ValidationTypes, ClaimOk, PodOk
  <2>3. ViewOk'
    BY <1>25 DEF Evict, evidence, VFault, ValidationInv, ValidationTypes, ClaimOk, PodOk,
       ViewOk, Proven
  <2>4. CreditOk'
    BY <1>25 DEF Evict, evidence, VFault, ValidationInv, ValidationTypes, PodOk, ViewOk,
       CreditOk, Proven
  <2>5. Undisturbed'
    BY <1>25 DEF Evict, evidence, VFault, ValidationInv, ValidationTypes, ClaimOk, PodOk,
       ViewOk, Undisturbed, Proven
  <2> QED
    BY <2>1, <2>2, <2>3, <2>4, <2>5 DEF ValidationInv
<1>26. CASE ReplaceClaim
  <2>1. ValidationTypes'
    BY <1>26 DEF ReplaceClaim, evidence, VFault, ValidationInv, ValidationTypes, ClaimOk
  <2>2. PodOk'
    BY <1>26 DEF ReplaceClaim, evidence, VFault, ValidationInv, ValidationTypes, ClaimOk, PodOk
  <2>3. ViewOk'
    BY <1>26 DEF ReplaceClaim, evidence, VFault, ValidationInv, ValidationTypes, ClaimOk,
       PodOk, ViewOk, Proven
  <2>4. CreditOk'
    BY <1>26 DEF ReplaceClaim, evidence, VFault, ValidationInv, ValidationTypes, PodOk, ViewOk,
       CreditOk, Proven
  <2>5. Undisturbed'
    BY <1>26 DEF ReplaceClaim, evidence, VFault, ValidationInv, ValidationTypes, ClaimOk,
       PodOk, ViewOk, Undisturbed, Proven
  <2> QED
    BY <2>1, <2>2, <2>3, <2>4, <2>5 DEF ValidationInv
<1>27. CASE ChangeBackend
  <2>1. ValidationTypes'
    BY <1>27 DEF ChangeBackend, evidence, VFault, ValidationInv, ValidationTypes, ClaimOk
  <2>2. PodOk'
    BY <1>27 DEF ChangeBackend, evidence, VFault, ValidationInv, ValidationTypes, ClaimOk, PodOk
  <2>3. ViewOk'
    BY <1>27 DEF ChangeBackend, evidence, VFault, ValidationInv, ValidationTypes, ClaimOk,
       PodOk, ViewOk, Proven
  <2>4. CreditOk'
    BY <1>27 DEF ChangeBackend, evidence, VFault, ValidationInv, ValidationTypes, PodOk,
       ViewOk, CreditOk, Proven
  <2>5. Undisturbed'
    BY <1>27 DEF ChangeBackend, evidence, VFault, ValidationInv, ValidationTypes, ClaimOk,
       PodOk, ViewOk, Undisturbed, Proven
  <2> QED
    BY <2>1, <2>2, <2>3, <2>4, <2>5 DEF ValidationInv
<1>28. CASE UNCHANGED validationVars
  BY <1>28 DEF validationVars, ValidationInv, ValidationTypes, ClaimOk, PodOk, ViewOk,
     CreditOk, Undisturbed, Proven
<1> QED
  BY <1>1, <1>2, <1>3, <1>4, <1>5, <1>6, <1>7, <1>8, <1>9, <1>10, <1>11, <1>12, <1>13, <1>14,
     <1>15, <1>16, <1>17, <1>18, <1>19, <1>20, <1>21, <1>22, <1>23, <1>24, <1>25, <1>26, <1>27,
     <1>28 DEF ValidationNext, ClusterSteps, WatchSteps

LEMMA ValidationStarts ==
  ASSUME ValidationInit
  PROVE  ValidationInv
  BY DEF ValidationInit, NoView, NoPending, Devices, PodPhases, WatchPlaces, PodOver, Pod,
     Workload, Seen,
     ValidationInv, ValidationTypes, ClaimOk, PodOk, ViewOk, CreditOk, Undisturbed

LEMMA ValidationSound ==
  ASSUME ValidationInv
  PROVE  ValidationTrue /\ FailureTrue
  BY DEF ValidationInv, CreditOk, Undisturbed, ValidationTrue, FailureTrue, On

(***************************************************************************)
(* GpuScenario.                                                            *)
(***************************************************************************)
ScenarioPlaces == {"begin", "busy", "open", "backend", "create", "ready", "bind", "infer", "credited", "stopping",
                   "stopped", "cleanup", "recover", "removed", "restore", "restoring", "clean", "unclean"}
Gone == {"removed", "restore", "restoring", "clean", "unclean"}
ScenarioShape(g) ==
  /\ DOMAIN g = {"pc", "gen", "view", "read", "tries", "edits"} /\ g.pc \in ScenarioPlaces
  /\ DOMAIN g.view = {"item", "st", "routed", "pods"} /\ IsFiniteSet(g.view.pods) /\ g.read \subseteq {"models", "pods"}
RuntimeShape(p) == p = [cfg |-> p.cfg, state |-> p.state, on |-> p.on]
ScenarioTypes ==
  /\ DOMAIN spec = {"exists", "gen", "cfg", "on"} /\ IsFiniteSet(runtime)
  /\ \A p \in runtime : RuntimeShape(p)
  /\ ScenarioShape(gs)

\* The model's only runtime has the saved configuration and is on this card; it may
\* restart its container, and stays as long as the model is on.
OnlyRuntime(card) == \E s \in {"starting", "ready"} : runtime = {[cfg |-> spec.cfg, state |-> s, on |-> card]}
Converged(p) == V.pods = {p} /\ p.state = "ready" /\ p.cfg = spec.cfg

\* What was read is still so: the saved model, its runtime, its absence.
ReadsOk ==
  /\ gs.pc = "bind" => gs.read = {"models", "pods"} /\ \E p \in V.pods : Converged(p)
  /\ gs.pc \in {"ready", "bind", "stopping"} /\ "models" \in gs.read => V.item = spec
  /\ gs.pc \in {"ready", "bind"} /\ "pods" \in gs.read => \A p \in V.pods : Converged(p) => OnlyRuntime(p.on)
  /\ gs.pc = "stopping" /\ "pods" \in gs.read /\ V.pods = {} => runtime = {}
  /\ gs.pc = "stopping" /\ "models" \in gs.read /\ ~V.routed => ~routed

\* What the appliance has saved at each place of the scenario.
SpecOk ==
  /\ gs.pc \in {"ready", "bind", "infer", "credited"} => spec.exists /\ spec.on
  /\ gs.pc \in {"stopping", "stopped"} => ~spec.on
  /\ gs.pc \in Gone => ~spec.exists
  /\ gs.pc \in Gone \ {"removed"} => runtime = {}
  /\ gs.pc \in {"backend", "create"} => mode = "lab"
  /\ gs.pc = "infer" => OnlyRuntime("card")
  /\ gs.pc = "create" => gs.read = {}

ScenarioInv == ScenarioTypes /\ ReadsOk /\ SpecOk /\ AnswerTrue /\ StopTrue /\ BackendTrue

\* The runtimes change while the scenario waits.
RuntimesMove ==
  /\ UNCHANGED <<mode, actual, spec, routed, checkJob, gs, answer>>
  /\ IsFiniteSet(runtime') /\ \A p \in runtime' : RuntimeShape(p)
  /\ spec.exists /\ spec.on => \A card : OnlyRuntime(card) => OnlyRuntime(card)'
  /\ runtime = {} /\ (~spec.exists \/ ~spec.on) => runtime' = {}

LEMMA RuntimesMoved ==
  ASSUME ScenarioInv, RuntimesMove
  PROVE  ScenarioInv'
<1>1. ScenarioTypes'
  BY DEF ScenarioInv, RuntimesMove, ScenarioTypes
<1>2. UNCHANGED <<mode, actual, spec, routed, checkJob, gs, answer>> /\ \A p : Converged(p)' <=> Converged(p)
  BY DEF RuntimesMove, Converged, V
<1>3. /\ spec.exists /\ spec.on => \A card : OnlyRuntime(card) => OnlyRuntime(card)'
      /\ runtime = {} /\ (~spec.exists \/ ~spec.on) => runtime' = {}
  BY DEF RuntimesMove
<1>4. ReadsOk'
  BY <1>2, <1>3 DEF ScenarioInv, ReadsOk, SpecOk, V
<1>5. SpecOk'
  BY <1>2, <1>3 DEF ScenarioInv, SpecOk, Gone
<1>6. AnswerTrue' /\ StopTrue' /\ BackendTrue'
  BY <1>2, <1>3 DEF ScenarioInv, SpecOk, AnswerTrue, StopTrue, BackendTrue, Is, Gone
<1> QED
  BY <1>1, <1>4, <1>5, <1>6 DEF ScenarioInv

\* The appliance follows what is saved.
LEMMA ApplianceStep ==
  ASSUME ScenarioInv, BackendFollows \/ Reconcile \/ Route \/ JobEnds \/ Degrade
  PROVE  ScenarioInv'
<1>1. UNCHANGED <<mode, spec, runtime, gs, answer>> /\ (checkJob' => checkJob)
  BY DEF BackendFollows, Reconcile, Route, JobEnds, Degrade, backendVars, modelVars
<1>2. (mode = "lab" /\ actual = "lab" => actual' = "lab") /\ (~routed /\ (~spec.on \/ Serving = {}) => ~routed')
  <2>1. CASE Route
    <3>1. UNCHANGED <<mode, actual>> /\ routed' = (spec.on /\ Serving # {})
      BY <2>1 DEF Route, backendVars
    <3> QED
      BY <3>1
  <2>2. CASE BackendFollows \/ Reconcile \/ JobEnds \/ Degrade
    BY <2>2 DEF BackendFollows, Reconcile, JobEnds, Degrade, backendVars, modelVars
  <2> QED
    BY <2>1, <2>2
<1>3. (\A p : Converged(p)' <=> Converged(p)) /\ (\A card : OnlyRuntime(card)' <=> OnlyRuntime(card))
  BY <1>1 DEF Converged, V, OnlyRuntime
<1>4. ScenarioTypes'
  BY <1>1, <1>2 DEF ScenarioInv, ScenarioTypes
<1>5. ReadsOk'
  BY <1>1, <1>2, <1>3 DEF ScenarioInv, ReadsOk, SpecOk, V
<1>6. SpecOk'
  BY <1>1, <1>2, <1>3 DEF ScenarioInv, SpecOk
<1>7. AnswerTrue' /\ StopTrue' /\ BackendTrue'
  BY <1>1, <1>2 DEF ScenarioInv, SpecOk, AnswerTrue, StopTrue, BackendTrue, Is
<1> QED
  BY <1>4, <1>5, <1>6, <1>7 DEF ScenarioInv

\* One runtime is replaced by another, or goes.
LEMMA RuntimeStep ==
  ASSUME ScenarioInv, StartPod \/ MisplacePod \/ PodReady \/ TerminatePod \/ PodGone \/ PodCrashes
  PROVE  ScenarioInv'
<1>1. \A p \in runtime : RuntimeShape(p)
  BY DEF ScenarioInv, ScenarioTypes
<1>0. IsFiniteSet(runtime)
  BY DEF ScenarioInv, ScenarioTypes
<1>2. UNCHANGED <<mode, actual, spec, routed, checkJob, gs, answer>>
  BY DEF StartPod, MisplacePod, StartOn, PodReady, TerminatePod, PodGone, PodCrashes,
     backendVars
<1>3. ASSUME NEW device, StartOn(device)
      PROVE  RuntimesMove
  <2> DEFINE q == [cfg |-> spec.cfg, state |-> "starting", on |-> device]
  <2>1. runtime' = runtime \cup {q} /\ spec.exists /\ spec.on /\ ~\E p \in runtime : p.cfg = spec.cfg
    BY <1>3 DEF StartOn
  <2>2. IsFiniteSet(runtime') /\ RuntimeShape(q)
    BY <1>0, <2>1, FS_AddElement DEF RuntimeShape
  <2>3. ASSUME NEW card, OnlyRuntime(card)
        PROVE  FALSE
    <3>1. PICK t \in {"starting", "ready"} : runtime = {[cfg |-> spec.cfg, state |-> t, on |-> card]}
      BY <2>3 DEF OnlyRuntime
    <3>2. PICK p \in runtime : p = [cfg |-> spec.cfg, state |-> t, on |-> card]
      BY <3>1
    <3>3. p.cfg = spec.cfg
      BY <3>2
    <3> QED
      BY <2>1, <3>3
  <2> HIDE DEF q
  <2> QED
    BY <1>1, <1>2, <2>1, <2>2, <2>3 DEF RuntimesMove
<1>4. ASSUME NEW p \in runtime, NEW s, runtime' = (runtime \ {p}) \cup {[p EXCEPT !.state = s]},
             s \in {"starting", "ready"} \/ ~spec.exists \/ ~spec.on \/ p.cfg # spec.cfg
      PROVE  RuntimesMove
  <2> DEFINE q == [p EXCEPT !.state = s]
  <2>1. RuntimeShape(q) /\ IsFiniteSet(runtime')
    <3>1. p = [cfg |-> p.cfg, state |-> p.state, on |-> p.on]
      BY <1>1 DEF RuntimeShape
    <3>2. q = [cfg |-> p.cfg, state |-> s, on |-> p.on]
      BY <3>1
    <3>3. IsFiniteSet(runtime')
      BY <1>0, <1>4, FS_AddElement, FS_RemoveElement
    <3> QED
      BY <3>2, <3>3 DEF RuntimeShape
  <2>2. ASSUME spec.exists, spec.on, NEW card, OnlyRuntime(card)
        PROVE  OnlyRuntime(card)'
    <3>1. PICK t \in {"starting", "ready"} : runtime = {[cfg |-> spec.cfg, state |-> t, on |-> card]}
      BY <2>2 DEF OnlyRuntime
    <3>2. p = [cfg |-> spec.cfg, state |-> t, on |-> card]
      BY <3>1
    <3>3. q = [cfg |-> spec.cfg, state |-> s, on |-> card] /\ p.cfg = spec.cfg
      BY <3>2
    <3> HIDE DEF q
    <3>4. runtime' = {q}
      BY <1>4, <3>1, <3>2 DEF q
    <3> QED
      BY <1>2, <1>4, <2>2, <3>3, <3>4 DEF OnlyRuntime
  <2> HIDE DEF q
  <2> QED
    BY <1>1, <1>2, <1>4, <2>1, <2>2 DEF RuntimesMove, q
<1>5. ASSUME PodGone
      PROVE  RuntimesMove
  <2>1. PICK p \in runtime : p.state = "terminating" /\ runtime' = runtime \ {p}
    BY <1>5 DEF PodGone
  <2>2. IsFiniteSet(runtime')
    BY <1>0, <2>1, FS_RemoveElement
  <2>3. ASSUME NEW card, OnlyRuntime(card)
        PROVE  FALSE
    <3>1. PICK t \in {"starting", "ready"} : runtime = {[cfg |-> spec.cfg, state |-> t, on |-> card]}
      BY <2>3 DEF OnlyRuntime
    <3>2. p = [cfg |-> spec.cfg, state |-> t, on |-> card]
      BY <3>1
    <3> QED
      BY <2>1, <3>2
  <2> QED
    BY <1>1, <1>2, <2>1, <2>2, <2>3 DEF RuntimesMove
<1>6. CASE StartPod \/ MisplacePod
  BY <1>3, <1>6, RuntimesMoved DEF StartPod, MisplacePod
<1>7. CASE PodReady
  BY <1>4, <1>7, RuntimesMoved DEF PodReady
<1>8. CASE TerminatePod
  BY <1>4, <1>8, RuntimesMoved DEF TerminatePod
<1>9. CASE PodCrashes
  BY <1>4, <1>9, RuntimesMoved DEF PodCrashes, Serving
<1> QED
  BY <1>5, <1>6, <1>7, <1>8, <1>9, RuntimesMoved

\* The scenario goes on with nothing read; the model and its runtimes stay.
LEMMA Elsewhere ==
  ASSUME ScenarioInv, NEW s \in ScenarioPlaces \ {"bind"}, To(s), UNCHANGED <<spec, runtime, routed>>,
         s \in {"infer", "credited"} => spec.exists /\ spec.on,
         s # "ready", s # "stopping", s = "stopped" => ~spec.on /\ runtime = {} /\ ~routed,
         s \in Gone => ~spec.exists, s \in Gone \ {"removed"} => runtime = {},
         s \in {"backend", "create"} => mode' = "lab", s = "create" => actual' = "lab",
         s = "infer" => OnlyRuntime("card"),
         s = "credited" => answer' = [cfg |-> spec.cfg, on |-> "card"],
         s \in {"restoring", "clean"} => ~checkJob'
  PROVE  ScenarioInv'
<1>1. gs'.pc = s /\ gs'.read = {} /\ ScenarioShape(gs')
  <2>1. IsFiniteSet({})
    BY FS_EmptySet
  <2> QED
    BY <2>1 DEF To, ScenarioInv, ScenarioTypes, ScenarioShape, Nothing
<1>2. \A card : OnlyRuntime(card)' <=> OnlyRuntime(card)
  BY DEF OnlyRuntime
<1>3. ScenarioTypes'
  BY <1>1 DEF ScenarioInv, ScenarioTypes
<1>4. ReadsOk'
  BY <1>1 DEF ReadsOk
<1>5. SpecOk'
  BY <1>1, <1>2 DEF SpecOk, Gone
<1>6. AnswerTrue' /\ StopTrue' /\ BackendTrue'
  BY <1>1 DEF AnswerTrue, StopTrue, BackendTrue, Is, Gone
<1> QED
  BY <1>3, <1>4, <1>5, <1>6 DEF ScenarioInv

LEMMA ScenarioStep ==
  ASSUME ScenarioInv, [ScenarioNext]_scenarioVars
  PROVE  ScenarioInv'
<1> USE DEF ScenarioPlaces, Gone
<1>1. CASE ApplianceSteps \/ Degrade \/ MisplacePod \/ PodCrashes
  BY <1>1, ApplianceStep, RuntimeStep DEF ApplianceSteps
<1>2. CASE Open
  BY <1>2, Elsewhere DEF Open, Is, modelVars
<1>3. CASE Transition
  <2>1. CASE mode' = "lab" /\ To("backend")
    BY <1>3, <2>1, Elsewhere DEF Transition, modelVars
  <2>2. CASE mode' = mode /\ \E t : gs' \in {[gs EXCEPT !.tries = t], [gs EXCEPT !.pc = "cleanup"]}
    <3>1. /\ gs'.pc \in {"open", "cleanup"} /\ ScenarioShape(gs')
      BY <1>3, <2>2 DEF Transition, Is, ScenarioInv, ScenarioTypes, ScenarioShape
    <3>2. UNCHANGED <<actual, spec, runtime, routed, checkJob, answer>>
      BY <1>3 DEF Transition, modelVars
    <3> QED
      BY <3>1, <3>2 DEF ScenarioInv, ScenarioTypes, ReadsOk, SpecOk, AnswerTrue, StopTrue,
         BackendTrue, Is
  <2> QED
    BY <1>3, <2>1, <2>2 DEF Transition
<1>4. CASE WaitBackend
  BY <1>4, Elsewhere DEF WaitBackend, BackendReady, Is, modelVars, backendVars, ScenarioInv,
     SpecOk
<1>5. CASE Create
  <2>1. /\ gs'.pc = "ready" /\ ScenarioShape(gs') /\ gs'.read = gs.read /\ gs'.view = gs.view
    BY <1>5 DEF Create, ScenarioInv, ScenarioTypes, ScenarioShape
  <2>2. gs.pc = "create" /\ UNCHANGED <<runtime, routed>> /\ spec' = [exists |-> TRUE, gen |-> 1, cfg |-> 1, on |-> TRUE]
    BY <1>5 DEF Create, Is, modelVars
  <2>3. gs.read = {}
    BY <2>2 DEF ScenarioInv, SpecOk
  <2> QED
    BY <2>1, <2>2, <2>3 DEF ScenarioInv, ScenarioTypes, ReadsOk, SpecOk, AnswerTrue, StopTrue,
       BackendTrue, Is
<1>6. CASE ReadModels
  <2> DEFINE w1 == [gs.view EXCEPT !.item = spec, !.st = status, !.routed = routed]
  <2>1. /\ gs' = [gs EXCEPT !.read = gs.read \cup {"models"}, !.view = w1]
        /\ UNCHANGED <<mode, actual, spec, runtime, routed, checkJob, answer>> /\ gs.pc \in {"ready", "stopping"}
    BY <1>6 DEF ReadModels, modelVars, backendVars
  <2>2. /\ DOMAIN w1 = {"item", "st", "routed", "pods"} /\ w1.item = spec /\ w1.routed = routed /\ w1.pods = gs.view.pods
    BY DEF ScenarioInv, ScenarioTypes, ScenarioShape
  <2> HIDE DEF w1
  <2>3. gs'.pc = gs.pc /\ gs'.read = gs.read \cup {"models"} /\ gs'.view = w1 /\ ScenarioShape(gs')
    BY <2>1, <2>2 DEF ScenarioInv, ScenarioTypes, ScenarioShape
  <2>4. (\A p : Converged(p)' <=> Converged(p)) /\ (\A card : OnlyRuntime(card)' <=> OnlyRuntime(card))
    BY <2>1, <2>2, <2>3 DEF Converged, OnlyRuntime, V
  <2> QED
    BY <2>1, <2>2, <2>3, <2>4 DEF ScenarioInv, ScenarioTypes, ReadsOk, SpecOk, AnswerTrue,
       StopTrue, BackendTrue, Is, V
<1>7. CASE ReadPods
  <2> DEFINE w1 == [gs.view EXCEPT !.pods = runtime]
  <2>1. /\ gs' = [gs EXCEPT !.read = gs.read \cup {"pods"}, !.view = w1]
        /\ UNCHANGED <<mode, actual, spec, runtime, routed, checkJob, answer>> /\ gs.pc \in {"ready", "stopping"}
    BY <1>7 DEF ReadPods, modelVars, backendVars, ScenarioInv, ScenarioTypes, ScenarioShape
  <2>2. /\ DOMAIN w1 = {"item", "st", "routed", "pods"} /\ w1.item = gs.view.item /\ w1.routed = gs.view.routed /\ w1.pods = runtime
    BY DEF ScenarioInv, ScenarioTypes, ScenarioShape
  <2> HIDE DEF w1
  <2>3. gs'.pc = gs.pc /\ gs'.read = gs.read \cup {"pods"} /\ gs'.view = w1 /\ ScenarioShape(gs')
    BY <2>1, <2>2 DEF ScenarioInv, ScenarioTypes, ScenarioShape
  <2>4. (\A card : OnlyRuntime(card)' <=> OnlyRuntime(card))
    BY <2>1 DEF OnlyRuntime
  <2>5. ASSUME NEW p \in runtime, Converged(p)'
        PROVE  OnlyRuntime(p.on)
    <3>1. runtime = {p} /\ p.state = "ready" /\ p.cfg = spec.cfg
      BY <2>1, <2>2, <2>3, <2>5 DEF Converged, V
    <3>2. p = [cfg |-> p.cfg, state |-> p.state, on |-> p.on]
      BY DEF ScenarioInv, ScenarioTypes, RuntimeShape
    <3>3. p = [cfg |-> spec.cfg, state |-> "ready", on |-> p.on]
      BY <3>1, <3>2
    <3> QED
      BY <3>1, <3>3 DEF OnlyRuntime
  <2>6. ReadsOk'
    BY <2>1, <2>2, <2>3, <2>4, <2>5 DEF ScenarioInv, ReadsOk, V
  <2> QED
    BY <2>1, <2>2, <2>3, <2>4, <2>6 DEF ScenarioInv, ScenarioTypes, SpecOk, AnswerTrue,
       StopTrue, BackendTrue, Is
<1>8. ASSUME Again, gs.pc \in {"ready", "stopping"}, UNCHANGED <<mode, actual, spec, runtime, routed, checkJob, answer>>
      PROVE  ScenarioInv'
  <2>1. gs'.pc = gs.pc /\ gs'.read = {} /\ ScenarioShape(gs')
    BY <1>8, FS_EmptySet DEF Again, Nothing, ScenarioInv, ScenarioTypes, ScenarioShape
  <2>2. \A card : OnlyRuntime(card)' <=> OnlyRuntime(card)
    BY <1>8 DEF OnlyRuntime
  <2> QED
    BY <1>8, <2>1, <2>2 DEF ScenarioInv, ScenarioTypes, ReadsOk, SpecOk, AnswerTrue, StopTrue,
       BackendTrue, Is
<1>9. CASE Ready
  <2>1. UNCHANGED <<mode, actual, spec, runtime, routed, checkJob, answer>> /\ gs.pc = "ready" /\ gs.read = {"models", "pods"}
    BY <1>9 DEF Ready, Is, AllRead, modelVars, backendVars
  <2>2. CASE To("cleanup")
    BY <2>1, <2>2, Elsewhere
  <2>3. CASE Again
    BY <1>8, <2>1, <2>3
  <2>4. CASE gs' = [gs EXCEPT !.pc = "bind"] /\ RuntimePodConverged
    <3>1. gs'.pc = "bind" /\ gs'.read = gs.read /\ gs'.view = gs.view /\ ScenarioShape(gs')
      BY <2>4 DEF ScenarioInv, ScenarioTypes, ScenarioShape
    <3>2. PICK p : V.pods = {p}
      <4>1. IsFiniteSet(V.pods) /\ Cardinality(V.pods) = 1
        BY <2>4 DEF RuntimePodConverged, ScenarioInv, ScenarioTypes, ScenarioShape, V
      <4> QED
        BY <4>1, FS_Singleton
    <3>3. Converged(p) /\ p \in V.pods
      BY <2>1, <2>4, <3>2 DEF RuntimePodConverged, Converged, ScenarioInv, ReadsOk
    <3>4. (\A q : Converged(q)' <=> Converged(q)) /\ (\A card : OnlyRuntime(card)' <=> OnlyRuntime(card))
      BY <2>1, <3>1 DEF Converged, OnlyRuntime, V
    <3> QED
      BY <2>1, <3>1, <3>3, <3>4 DEF ScenarioInv, ScenarioTypes, ReadsOk, SpecOk, AnswerTrue,
         StopTrue, BackendTrue, Is, V
  <2> QED
    BY <1>9, <2>2, <2>3, <2>4 DEF Ready, Abort
<1>10. CASE Binding
  <2>1. UNCHANGED <<mode, actual, spec, runtime, routed, checkJob, answer>> /\ gs.pc = "bind"
    BY <1>10 DEF Binding, Is, modelVars, backendVars
  <2>2. CASE OnSelected /\ To("infer")
    <3>1. PICK p \in V.pods : Converged(p)
      BY <2>1 DEF ScenarioInv, ReadsOk
    <3>2. OnlyRuntime("card")
      BY <2>1, <2>2, <3>1 DEF OnSelected, ScenarioInv, ReadsOk
    <3> QED
      BY <2>1, <2>2, <3>2, Elsewhere DEF ScenarioInv, SpecOk
  <2>3. CASE To("cleanup")
    BY <2>1, <2>3, Elsewhere
  <2> QED
    BY <1>10, <2>2, <2>3 DEF Binding, Abort
<1>11. CASE Chat
  <2>1. UNCHANGED <<mode, actual, spec, runtime, routed, checkJob>> /\ gs.pc = "infer"
    BY <1>11 DEF Chat, Is, modelVars, backendVars
  <2>2. ASSUME NEW p \in Serving, answer' = [cfg |-> p.cfg, on |-> p.on], To("credited")
        PROVE  ScenarioInv'
    <3>1. PICK t \in {"starting", "ready"} : runtime = {[cfg |-> spec.cfg, state |-> t, on |-> "card"]}
      BY <2>1 DEF ScenarioInv, SpecOk, OnlyRuntime
    <3>2. p = [cfg |-> spec.cfg, state |-> t, on |-> "card"]
      BY <3>1 DEF Serving
    <3>3. answer' = [cfg |-> spec.cfg, on |-> "card"]
      BY <2>2, <3>2
    <3> QED
      BY <2>1, <2>2, <3>3, Elsewhere DEF ScenarioInv, SpecOk
  <2>3. CASE To("cleanup")
    BY <2>1, <2>3, Elsewhere
  <2> QED
    BY <1>11, <2>2, <2>3 DEF Chat, Abort
<1>12. ASSUME NEW action, Lifecycle(action)
       PROVE  ScenarioInv'
  <2> DEFINE place == IF action = "stop" THEN "stopping" ELSE "ready"
  <2>1. /\ gs'.pc = place /\ gs'.read = {} /\ ScenarioShape(gs')
    BY <1>12, FS_EmptySet DEF Lifecycle, Nothing, ScenarioInv, ScenarioTypes, ScenarioShape
  <2>2. /\ spec.exists /\ UNCHANGED <<mode, actual, runtime, routed, checkJob, answer>>
        /\ gs.pc \in {"credited", "stopped"} /\ (action # "stop" /\ action # "edit" => gs.pc = "stopped")
        /\ (action \in {"stop", "edit"} => gs.pc = "credited")
    BY <1>12 DEF Lifecycle, Is, backendVars
  <2>3. DOMAIN spec' = {"exists", "gen", "cfg", "on"} /\ spec'.exists
        /\ spec'.on = (IF action = "edit" THEN spec.on ELSE action # "stop")
    BY <1>12, <2>2 DEF Lifecycle, ScenarioInv, ScenarioTypes
  <2>4. spec'.on = (action # "stop")
    BY <2>2, <2>3 DEF ScenarioInv, SpecOk
  <2> QED
    BY <2>1, <2>2, <2>3, <2>4 DEF ScenarioInv, ScenarioTypes, ReadsOk, SpecOk, AnswerTrue,
       StopTrue, BackendTrue, Is
<1>13. CASE WaitStopped
  <2>1. UNCHANGED <<mode, actual, spec, runtime, routed, checkJob, answer>> /\ gs.pc = "stopping" /\ gs.read = {"models", "pods"}
    BY <1>13 DEF WaitStopped, Is, AllRead, modelVars, backendVars
  <2>2. CASE ModelStopped /\ To("stopped")
    BY <2>1, <2>2, Elsewhere DEF ModelStopped, ScenarioInv, ReadsOk, SpecOk
  <2>3. CASE Again
    BY <1>8, <2>1, <2>3
  <2> QED
    BY <1>13, <2>2, <2>3 DEF WaitStopped
<1>14. CASE Close \/ ScenarioFails \/ ScenarioKilled \/ Recover
  <2>1. UNCHANGED <<mode, actual, spec, runtime, routed, checkJob, answer>> /\ (To("cleanup") \/ To("recover"))
    BY <1>14 DEF Close, ScenarioFails, ScenarioKilled, Recover, Abort, modelVars, backendVars
  <2> QED
    BY <2>1, Elsewhere
<1>15. CASE Remove
  <2>1. gs'.pc = "removed" /\ gs'.read = {} /\ ScenarioShape(gs')
    BY <1>15, FS_EmptySet DEF Remove, To, Nothing, ScenarioInv, ScenarioTypes, ScenarioShape
  <2>2. spec' = NoModel /\ runtime' = runtime
    BY <1>15 DEF Remove
  <2> QED
    BY <2>1, <2>2 DEF NoModel, ScenarioInv, ScenarioTypes, ReadsOk, SpecOk, AnswerTrue,
       StopTrue, BackendTrue, Is
<1>16. CASE AwaitRemoved
  BY <1>16, Elsewhere DEF AwaitRemoved, VerifyRemoved, Is, modelVars
<1>17. CASE Restore
  BY <1>17, Elsewhere DEF Restore, Is, modelVars, ScenarioInv, SpecOk
<1>18. CASE VerifyRestoredBackend
  BY <1>18, Elsewhere DEF VerifyRestoredBackend, Is, modelVars, ScenarioInv, SpecOk, BackendTrue
<1>19. CASE UNCHANGED scenarioVars
  <2>1. (\A p : Converged(p)' <=> Converged(p)) /\ (\A card : OnlyRuntime(card)' <=> OnlyRuntime(card))
    BY <1>19 DEF scenarioVars, Converged, OnlyRuntime, V
  <2> QED
    BY <1>19, <2>1 DEF scenarioVars, ScenarioInv, ScenarioTypes, ReadsOk, SpecOk, AnswerTrue,
       StopTrue, BackendTrue, Is, V
<1> QED
  BY <1>1, <1>2, <1>3, <1>4, <1>5, <1>6, <1>7, <1>9, <1>10, <1>11, <1>12, <1>13, <1>14, <1>15,
     <1>16,
     <1>17, <1>18, <1>19 DEF ScenarioNext, ScenarioSteps

LEMMA ScenarioStarts ==
  ASSUME ScenarioInit
  PROVE  ScenarioInv
<1>1. gs.pc = "begin" /\ gs.read = {} /\ ScenarioShape(gs) /\ runtime = {}
  BY FS_EmptySet DEF ScenarioInit, Start, Nothing, ScenarioShape, ScenarioPlaces
<1> QED
  BY <1>1, FS_EmptySet DEF ScenarioInit, NoModel, Gone, ScenarioInv, ScenarioTypes, ReadsOk,
     SpecOk, AnswerTrue,
     StopTrue, BackendTrue, Is

-----------------------------------------------------------------------------
(* DeploymentPins.                                                         *)

PinConditions == {"unread", "ready", "missing", "identity", "revision", "generation", "replicas", "containers",
                  "image", "readiness"}
NeverRetried == {"identity", "revision", "image", "missing"}
Identities == Nat \X Nat
PinObjects == [there : BOOLEAN, uid : Nat, gen : Nat, observed : Nat, right : BOOLEAN, up : BOOLEAN,
               pods : SUBSET {"starting", "ready", "wrong"}]
PinErrors == {"none", "OBSERVER", "IDENTITY"}
Samples == [pods : BOOLEAN, flux : BOOLEAN, listed : [Pins -> PinObjects], got : [Pins -> PinObjects],
            next : 0 .. Pinned + 1, checks : [Pins -> PinConditions], error : PinErrors]
Failures == [attempt : Nat, error : PinErrors, checks : [Pins -> PinConditions], got : [Pins -> PinObjects]]
Diagnostics == [state : {"observing", "converged", "failed"}, attempts : Nat, firstFailure : Failures,
                events : {"not-needed", "pending", "collected", "unavailable"},
                logs : {"not-needed", "pending", "captured", "unavailable"}, targets : SUBSET (Pins \X Identities)]
Reading == {"reading", "deployments"}
AfterFailure == {"saving", "collecting", "deciding"}
Pollers == [at : {"start", "idle", "saved", "done"} \cup Reading \cup AfterFailure, attempt : Nat,
            collected : BOOLEAN, pinError : BOOLEAN, outcome : PinErrors \cup {"accepted", "REVISION", "DEADLINE"}]

PinsTypes ==
  /\ cluster \in [Pins -> PinObjects]
  /\ firstRead \in [Pins -> Identities] /\ identities \in [Pins -> Identities] /\ strange \in SUBSET Pins
  /\ poller \in Pollers /\ sample \in Samples /\ diagnostic \in Diagnostics

(***************************************************************************)
(* The inductive invariant.                                                *)
(***************************************************************************)
\* What the place of the poller says of the attempt.
PlacesKnown ==
  /\ poller.at \in {"start", "idle"} \cup Reading \cup {"saved"} => sample.error = "none"
  /\ poller.at \in {"start", "idle"} => ~Final(sample.checks)
  /\ poller.at = "reading" => sample.next = 0
  /\ poller.at = "reading" /\ ~sample.flux => ~sample.got[0].there
  /\ poller.at = "deployments" => sample.next \in 1 .. Pinned
  /\ poller.at \in {"saved"} \cup AfterFailure /\ sample.error = "none" => sample.next = Pinned + 1
  /\ poller.at \in {"start", "idle"} => sample.next \in {0, Pinned + 1}
  /\ poller.at = "saved" => Failing(sample.checks) = {}
  /\ poller.outcome = "accepted" => poller.at = "done"
  /\ poller.at \in {"start", "idle"} => Undecided
  /\ Undecided => poller.at # "done"

\* A pin with the condition ready was what the baseline promises.
ReadyPin(i) ==
  /\ sample.got[i].there /\ Identity(sample.got[i]) = firstRead[i]
  /\ i # 0 => sample.listed[i].uid = sample.got[i].uid /\ sample.listed[i].pods = {"ready"}
ChecksKnown ==
  \A i \in Pins : /\ i < sample.next => sample.checks[i] # "unread"
                  /\ i >= sample.next => sample.checks[i] = "unread"
                  /\ sample.checks[i] = "ready" => ReadyPin(i)

\* The identity that is compared is the first one that was read; one that is not yet
\* remembered is of the attempt under way, or of one that failed.
OfAttempt(i) ==
  \/ /\ poller.at \in Reading /\ sample.got[i].there /\ Identity(sample.got[i]) = firstRead[i]
     /\ i >= sample.next
  \/ sample.error # "none" \/ poller.at = "done"
IdentitiesKept ==
  \A i \in Pins : /\ cluster[i].uid > 0
                  /\ poller.at \in Reading /\ sample.got[i].there => firstRead[i] # Unknown
                  /\ identities[i] # Unknown => identities[i] = firstRead[i]
                  /\ firstRead[i] # Unknown /\ identities[i] = Unknown => OfAttempt(i)

\* What was seen otherwise than it should be ends the attempts.
StrangeEnds ==
  \A i \in strange :
     \/ i < sample.next /\ sample.checks[i] \in NeverRetried
     \/ /\ i = 0 /\ poller.at = "reading" /\ sample.flux
        /\ ~(sample.got[0].there /\ sample.got[0].right)
     \/ sample.error # "none" \/ poller.at = "done"

\* The first failure, and the attempt it is of.
FirstShown ==
  /\ diagnostic.firstFailure.attempt = 1 /\ diagnostic.firstFailure.error = "none"
  /\ Failing(diagnostic.firstFailure.checks) # {}
FailureKept ==
  /\ poller.at \in AfterFailure => sample.error # "none" \/ Failing(sample.checks) # {}
  /\ poller.at = "start" => poller.attempt = 0
  /\ poller.at \in Reading \cup AfterFailure \cup {"saved"} => poller.attempt >= 1
  /\ poller.attempt > 1 \/ (poller.attempt = 1 /\ poller.at = "idle") => FirstShown
  /\ poller.attempt = 0 /\ poller.at # "done" => diagnostic.firstFailure = NoFailure
  /\ poller.attempt = 1 /\ poller.at \in Reading => diagnostic.firstFailure = NoFailure
  /\ poller.attempt = 1 /\ poller.at \in AfterFailure =>
        /\ diagnostic.firstFailure.attempt = 1 /\ diagnostic.firstFailure.error = sample.error
        /\ diagnostic.firstFailure.checks = sample.checks
  /\ diagnostic.firstFailure # NoFailure /\ diagnostic.firstFailure.error = "none" => poller.pinError

\* Events and logs are awaited while they are collected.
AwaitedNow ==
  Undecided /\ (diagnostic.events = "pending" \/ diagnostic.logs = "pending") =>
     poller.at = "collecting" \/ (poller.at = "saving" /\ ~poller.collected)
StateKnown == Undecided => diagnostic.state = IF poller.at = "saved" THEN "converged" ELSE "observing"

PinsInv ==
  /\ PinsTypes /\ PlacesKnown /\ ChecksKnown /\ IdentitiesKept /\ StrangeEnds /\ FailureKept /\ AwaitedNow
  /\ StateKnown /\ PinsTrue

(***************************************************************************)
(* Steps.                                                                  *)
(***************************************************************************)
LEMMA PinObjectsKnown ==
  /\ Absent \in PinObjects
  /\ NoSample \in Samples /\ NoFailure \in Failures /\ Failing(Unchecked) = {}
  /\ Unknown \in Identities
  /\ \A i \in Pins : NoSample.got[i] = Absent
<1>1. Absent \in PinObjects
  BY DEF Absent, PinObjects
<1>2. Pinned + 1 \in Nat /\ 0 \in 0 .. Pinned + 1
  BY PinsAssumption
<1>3. Unchecked \in [Pins -> PinConditions] /\ [i \in Pins |-> Absent] \in [Pins -> PinObjects]
  BY <1>1 DEF Unchecked, PinConditions
<1>4. NoSample \in Samples
  BY <1>1, <1>2, <1>3 DEF NoSample, Samples, PinErrors
<1>5. NoFailure \in Failures
  BY <1>1, <1>3 DEF NoFailure, Failures, PinErrors
<1>6. Failing(Unchecked) = {} /\ Unknown \in Identities
  BY DEF Failing, Unchecked, Unknown, Identities
<1>7. \A i \in Pins : NoSample.got[i] = Absent
  BY DEF NoSample
<1> QED
  BY <1>1, <1>4, <1>5, <1>6, <1>7

LEMMA RememberedAs ==
  ASSUME NEW known \in [Pins -> Identities], NEW i \in Pins, NEW o \in PinObjects
  PROVE  /\ Remembered(known, i, o) \in [Pins -> Identities]
         /\ \A j \in Pins : Remembered(known, i, o)[j] =
              IF j = i /\ known[i] = Unknown /\ o.there THEN Identity(o) ELSE known[j]
<1>1. Identity(o) \in Identities
  BY DEF Identity, Identities, PinObjects
<1> QED
  BY <1>1 DEF Remembered

\* An observation is recorded; only the first failure is kept.
LEMMA ObservationRecorded ==
  ASSUME PinsTypes, NEW error \in PinErrors, NEW checks \in [Pins -> PinConditions]
  PROVE  /\ RecordPinObservation(error, checks) \in Diagnostics
         /\ RecordPinObservation(error, checks).state = diagnostic.state
         /\ RecordPinObservation(error, checks).events = diagnostic.events
         /\ RecordPinObservation(error, checks).logs = diagnostic.logs
         /\ RecordPinObservation(error, checks).targets = diagnostic.targets
         /\ RecordPinObservation(error, checks).firstFailure =
              IF diagnostic.firstFailure = NoFailure /\ (error # "none" \/ Failing(checks) # {})
              THEN [attempt |-> poller.attempt, error |-> error, checks |-> checks, got |-> sample.got]
              ELSE diagnostic.firstFailure
<1> DEFINE F == [attempt |-> poller.attempt, error |-> error, checks |-> checks, got |-> sample.got]
<1>1. F \in Failures /\ poller.attempt \in Nat /\ diagnostic \in Diagnostics
  BY DEF PinsTypes, Pollers, Samples, Failures
<1> QED
  BY <1>1 DEF RecordPinObservation, Diagnostics

LEMMA LaterCollected ==
  ASSUME PinsTypes, NEW d \in Diagnostics
  PROVE  /\ CollectedLater(d) \in Diagnostics
         /\ CollectedLater(d).state = d.state /\ CollectedLater(d).targets = d.targets
         /\ CollectedLater(d).firstFailure = d.firstFailure
         /\ poller.collected => CollectedLater(d) = d
BY DEF CollectedLater, Diagnostics

LEMMA FailedIs ==
  ASSUME NEW d \in Diagnostics
  PROVE  /\ Failed(d) \in Diagnostics /\ Failed(d).state = "failed"
         /\ Failed(d).events # "pending" /\ Failed(d).logs # "pending"
         /\ Failed(d).targets = d.targets /\ Failed(d).firstFailure = d.firstFailure
BY DEF Failed, Diagnostics


\* The poller moves to another place.
PollerOtherwise == UNCHANGED <<poller.attempt, poller.collected, poller.pinError, poller.outcome>>
LEMMA PollerMoves ==
  ASSUME PinsInv, NEW place \in {"start", "idle", "saved", "done"} \cup Reading \cup AfterFailure, PollerTo(place)
  PROVE  poller' \in Pollers /\ poller'.at = place /\ PollerOtherwise
<1>1. poller \in Pollers
  BY DEF PinsInv, PinsTypes
<1> QED
  BY <1>1 DEF PollerTo, Pollers, PollerOtherwise


\* The cluster changes.
LEMMA ClusterChangesSafe ==
  ASSUME PinsInv, ClusterChanges
  PROVE  PinsInv'
<1>1. UNCHANGED <<firstRead, strange, poller, sample, identities, diagnostic>> /\ cluster' \in [Pins -> PinObjects]
      /\ \A i \in Pins : cluster'[i].uid > 0
  <2>1. PICK i \in Pins : \E o \in Changed(i, cluster[i]) : cluster' = [cluster EXCEPT ![i] = o]
    BY DEF ClusterChanges
  <2>2. PICK o \in Changed(i, cluster[i]) : cluster' = [cluster EXCEPT ![i] = o]
    BY <2>1
  <2>3. cluster[i] \in PinObjects /\ cluster \in [Pins -> PinObjects]
    BY DEF PinsInv, PinsTypes
  <2>5. cluster[i].uid > 0 /\ \A j \in Pins : cluster[j].uid > 0
    BY DEF PinsInv, IdentitiesKept
  <2>4. o \in PinObjects /\ o.uid > 0
    <3>1. CASE o = [cluster[i] EXCEPT !.there = FALSE, !.pods = {}]
      BY <2>3, <2>5, <3>1 DEF PinObjects
    <3>2. ASSUME NEW version \in Versions(cluster[i]), NEW seen \in BOOLEAN, NEW up \in BOOLEAN, NEW right \in BOOLEAN,
                 NEW pods \in PodKinds \cup {{}},
                 o = [there |-> TRUE, uid |-> version[1], gen |-> version[2],
                      observed |-> IF seen THEN version[2] ELSE 0, right |-> right, up |-> seen /\ up, pods |-> pods]
          PROVE  o \in PinObjects /\ o.uid > 0
      <4>1. version[1] \in Nat /\ version[2] \in Nat /\ version[1] > 0
        BY <2>3, <2>5 DEF Versions, Identity, PinObjects
      <4>2. pods \subseteq {"starting", "ready", "wrong"}
        BY DEF PodKinds
      <4> QED
        BY <3>2, <4>1, <4>2 DEF PinObjects
    <3>3. ASSUME o # [cluster[i] EXCEPT !.there = FALSE, !.pods = {}]
          PROVE  \E version \in Versions(cluster[i]), seen \in BOOLEAN, up \in BOOLEAN,
                    right \in RightOf(i), pods \in PodsOf(i) :
                    o = [there |-> TRUE, uid |-> version[1], gen |-> version[2],
                         observed |-> IF seen THEN version[2] ELSE 0, right |-> right, up |-> seen /\ up, pods |-> pods]
      BY <2>2, <3>3 DEF Changed
    <3>4. RightOf(i) \subseteq BOOLEAN /\ PodsOf(i) \subseteq PodKinds \cup {{}}
      BY DEF RightOf, PodsOf
    <3> QED
      BY <3>1, <3>2, <3>3, <3>4
  <2> QED
    BY <2>2, <2>3, <2>4, <2>5 DEF ClusterChanges
<1>11. PinsTypes'
  BY <1>1, PinsAssumption DEF PinsInv, PinsTrue, PinsTypes, Pollers, Samples, Diagnostics,
     Reading, AfterFailure
<1>12. PlacesKnown'
  BY <1>1, PinsAssumption DEF PinsInv, PinsTrue, PlacesKnown, Reading, AfterFailure, Undecided,
     Final, Failing
<1>13. ChecksKnown'
  BY <1>1, PinsAssumption DEF PinsInv, PinsTrue, ChecksKnown, ReadyPin
<1>14. IdentitiesKept'
  BY <1>1, PinsAssumption DEF PinsInv, PinsTrue, IdentitiesKept, OfAttempt, Reading
<1>15. StrangeEnds'
  BY <1>1, PinsAssumption DEF PinsInv, PinsTrue, StrangeEnds
<1>16. FailureKept'
  BY <1>1, PinsAssumption DEF PinsInv, PinsTrue, FailureKept, FirstShown, Reading,
     AfterFailure, Failing
<1>17. AwaitedNow'
  BY <1>1, PinsAssumption DEF PinsInv, PinsTrue, AwaitedNow, Undecided
<1>18. StateKnown'
  BY <1>1, PinsAssumption DEF PinsInv, PinsTrue, StateKnown, Undecided
<1>19. BaselineTrue'
  BY <1>1, PinsAssumption DEF PinsInv, PinsTrue, BaselineTrue
<1>20. FailureShown'
  BY <1>1, PinsAssumption DEF PinsInv, PinsTrue, FailureShown, Undecided, Failing
<1> QED
  BY <1>11, <1>12, <1>13, <1>14, <1>15, <1>16, <1>17, <1>18, <1>19, <1>20 DEF PinsInv, PinsTrue

\* The rights of the observer.
LEMMA VerifyConfigurationSafe ==
  ASSUME PinsInv, VerifyConfiguration
  PROVE  PinsInv'
<1>1. poller \in Pollers /\ diagnostic \in Diagnostics /\ NoFailure \in Failures
  BY PinObjectsKnown DEF PinsInv, PinsTypes
<1>2. UNCHANGED <<cluster, firstRead, strange, sample, identities>> /\ poller.at = "start"
  BY DEF VerifyConfiguration, PollerAt
<1>3. UNCHANGED <<poller.attempt, poller.collected, poller.pinError>> /\ poller' \in Pollers
      /\ \/ poller'.at = "idle" /\ poller'.outcome = poller.outcome
         \/ poller'.at = "done" /\ poller'.outcome = "OBSERVER"
  BY <1>1 DEF VerifyConfiguration, PollerTo, Pollers, PinErrors
<1>4. poller'.at = "idle" => diagnostic' = diagnostic
  BY <1>1 DEF VerifyConfiguration, PollerTo, Pollers
<1>5. ASSUME poller'.at = "done"
      PROVE  /\ diagnostic' \in Diagnostics /\ diagnostic'.state = "failed"
             /\ diagnostic'.firstFailure.error = "OBSERVER"
             /\ UNCHANGED <<diagnostic.events, diagnostic.logs, diagnostic.targets>>
  <2> DEFINE F == [NoFailure EXCEPT !.attempt = 1, !.error = "OBSERVER"]
  <2>1. F \in Failures /\ F.error = "OBSERVER"
    BY <1>1 DEF Failures, PinErrors
  <2>2. diagnostic' = [diagnostic EXCEPT !.attempts = 1, !.state = "failed", !.firstFailure = F]
    BY <1>1, <1>5 DEF VerifyConfiguration, PollerTo, Pollers
  <2> HIDE DEF F
  <2> QED
    BY <1>1, <2>1, <2>2 DEF Diagnostics
<1>6. poller.attempt = 0 /\ diagnostic.firstFailure = NoFailure /\ poller.outcome = "none"
      /\ diagnostic.events # "pending" /\ diagnostic.logs # "pending" /\ diagnostic.targets = {}
  <2>1. poller.attempt = 0 /\ diagnostic.firstFailure = NoFailure /\ poller.outcome = "none"
    BY <1>2 DEF PinsInv, FailureKept, PlacesKnown, Undecided
  <2>2. Failing(diagnostic.firstFailure.checks) = {}
    BY <2>1, PinObjectsKnown DEF NoFailure
  <2> QED
    BY <1>2, <2>1, <2>2 DEF PinsInv, AwaitedNow, Undecided, PinsTrue, FailureShown
<1>11. PinsTypes'
  BY <1>2, <1>3, <1>4, <1>5, <1>6, PinsAssumption DEF PinsInv, PinsTrue, PinsTypes, Pollers,
     Samples, Diagnostics, Reading, AfterFailure
<1>12. PlacesKnown'
  BY <1>2, <1>3, <1>4, <1>5, <1>6, PinsAssumption DEF PinsInv, PinsTrue, PlacesKnown, Reading,
     AfterFailure, Undecided, Final
<1>13. ChecksKnown'
  BY <1>2, <1>3, <1>4, <1>5, <1>6, PinsAssumption DEF PinsInv, PinsTrue, ChecksKnown, ReadyPin
<1>14. IdentitiesKept'
  BY <1>2, <1>3, <1>4, <1>5, <1>6, PinsAssumption DEF PinsInv, PinsTrue, IdentitiesKept,
     OfAttempt, Reading
<1>15. StrangeEnds'
  BY <1>2, <1>3, <1>4, <1>5, <1>6, PinsAssumption DEF PinsInv, PinsTrue, StrangeEnds
<1>16. FailureKept'
  BY <1>2, <1>3, <1>4, <1>5, <1>6, PinsAssumption DEF PinsInv, PinsTrue, FailureKept,
     FirstShown, Reading, AfterFailure
<1>17. AwaitedNow'
  BY <1>2, <1>3, <1>4, <1>5, <1>6, PinsAssumption DEF PinsInv, PinsTrue, AwaitedNow, Undecided
<1>18. StateKnown'
  BY <1>2, <1>3, <1>4, <1>5, <1>6, PinsAssumption DEF PinsInv, PinsTrue, StateKnown, Undecided
<1>19. BaselineTrue'
  BY <1>2, <1>3, <1>4, <1>5, <1>6, PinsAssumption DEF PinsInv, PinsTrue, BaselineTrue
<1>20. FailureShown'
  BY <1>2, <1>3, <1>4, <1>5, <1>6, PinsAssumption DEF PinsInv, PinsTrue, FailureShown, Undecided
<1> QED
  BY <1>11, <1>12, <1>13, <1>14, <1>15, <1>16, <1>17, <1>18, <1>19, <1>20 DEF PinsInv, PinsTrue

\* A new attempt.
LEMMA BeginAttemptSafe ==
  ASSUME PinsInv, BeginAttempt
  PROVE  PinsInv'
<1>1. poller \in Pollers /\ diagnostic \in Diagnostics /\ sample \in Samples
  BY PinObjectsKnown DEF PinsInv, PinsTypes
<1>2. UNCHANGED <<cluster, firstRead, strange, diagnostic, identities>> /\ poller.at = "idle"
  BY DEF BeginAttempt, PollerAt
<1>3. poller' \in Pollers /\ poller'.at = "reading" /\ poller'.attempt = poller.attempt + 1
      /\ UNCHANGED <<poller.collected, poller.pinError, poller.outcome>>
  <2>1. poller' = [poller EXCEPT !.at = "reading", !.attempt = poller.attempt + 1] /\ poller.attempt + 1 \in Nat
    BY <1>1 DEF BeginAttempt, Pollers
  <2>2. "reading" \in {"start", "idle", "saved", "done"} \cup Reading \cup AfterFailure
    BY DEF Reading
  <2> QED
    BY <1>1, <2>1, <2>2 DEF Pollers
<1>4. /\ sample' \in Samples /\ sample'.next = 0 /\ ~sample'.got[0].there /\ sample'.error = "none" /\ Failing(sample'.checks) = {}
      /\ \A i \in Pins : sample'.checks[i] = "unread" /\ ~sample'.got[i].there
  <2>1. sample' = NoSample /\ (\A i \in Pins : NoSample.got[i] = Absent) /\ ~Absent.there
    BY PinObjectsKnown DEF BeginAttempt, Absent
  <2>2. NoSample.checks = Unchecked /\ \A i \in Pins : Unchecked[i] = "unread"
    BY DEF NoSample, Unchecked
  <2> QED
    BY <2>1, <2>2, PinObjectsKnown, PinsAssumption DEF NoSample, Pins
<1>5. sample.error = "none" /\ sample.next \in {0, Pinned + 1} /\ ~Final(sample.checks) /\ poller.outcome = "none"
  BY <1>2 DEF PinsInv, PlacesKnown, Undecided
<1>6. strange = {}
  <2>1. ASSUME NEW i \in strange PROVE FALSE
    <3>1. i < sample.next /\ sample.checks[i] \in NeverRetried /\ i \in Pins
      BY <1>2, <1>5 DEF PinsInv, PinsTypes, StrangeEnds
    <3>2. i \in Failing(sample.checks)
      BY <3>1 DEF Failing, NeverRetried
    <3> QED
      BY <1>5, <3>1, <3>2 DEF Final, NeverRetried
  <2> QED
    BY <2>1
<1>7. \A i \in Pins : firstRead[i] # Unknown => identities[i] # Unknown
  BY <1>2, <1>5 DEF PinsInv, IdentitiesKept, OfAttempt, Reading
<1>8. poller.attempt = 0 \/ FirstShown
  BY <1>1, <1>2 DEF PinsInv, FailureKept, Pollers
<1>9. poller'.attempt > 1 => poller.attempt # 0
  BY <1>1, <1>3 DEF Pollers
<1>11. PinsTypes'
  BY <1>1, <1>2, <1>3, <1>4, <1>5, <1>6, <1>7, <1>8, <1>9, PinsAssumption DEF PinsInv,
     PinsTrue, PinsTypes, Pollers, Samples, Diagnostics, Reading, AfterFailure
<1>12. PlacesKnown'
  BY <1>1, <1>2, <1>3, <1>4, <1>5, <1>6, <1>7, <1>8, <1>9, PinsAssumption DEF PinsInv,
     PinsTrue, PlacesKnown, Reading, AfterFailure, Undecided, Final, Samples
<1>13. ChecksKnown'
  BY <1>1, <1>2, <1>3, <1>4, <1>5, <1>6, <1>7, <1>8, <1>9, PinsAssumption DEF PinsInv,
     PinsTrue, ChecksKnown, ReadyPin, Pins
<1>14. IdentitiesKept'
  BY <1>1, <1>2, <1>3, <1>4, <1>5, <1>6, <1>7, <1>8, <1>9, PinsAssumption DEF PinsInv,
     PinsTrue, IdentitiesKept, OfAttempt, Reading
<1>15. StrangeEnds'
  BY <1>1, <1>2, <1>3, <1>4, <1>5, <1>6, <1>7, <1>8, <1>9, PinsAssumption DEF PinsInv,
     PinsTrue, StrangeEnds
<1>16. FailureKept'
  BY <1>1, <1>2, <1>3, <1>4, <1>5, <1>6, <1>7, <1>8, <1>9, PinsAssumption DEF PinsInv,
     PinsTrue, FailureKept, FirstShown, Reading, AfterFailure, Pollers
<1>17. AwaitedNow'
  BY <1>1, <1>2, <1>3, <1>4, <1>5, <1>6, <1>7, <1>8, <1>9, PinsAssumption DEF PinsInv,
     PinsTrue, AwaitedNow, Undecided
<1>18. StateKnown'
  BY <1>1, <1>2, <1>3, <1>4, <1>5, <1>6, <1>7, <1>8, <1>9, PinsAssumption DEF PinsInv,
     PinsTrue, StateKnown, Undecided
<1>19. BaselineTrue'
  BY <1>1, <1>2, <1>3, <1>4, <1>5, <1>6, <1>7, <1>8, <1>9, PinsAssumption DEF PinsInv,
     PinsTrue, BaselineTrue
<1>20. FailureShown'
  BY <1>1, <1>2, <1>3, <1>4, <1>5, <1>6, <1>7, <1>8, <1>9, PinsAssumption DEF PinsInv,
     PinsTrue, FailureShown, Undecided, FirstShown
<1> QED
  BY <1>11, <1>12, <1>13, <1>14, <1>15, <1>16, <1>17, <1>18, <1>19, <1>20 DEF PinsInv, PinsTrue

\* Pods are listed.
LEMMA ListBaselinePodsSafe ==
  ASSUME PinsInv, ListBaselinePods
  PROVE  PinsInv'
<1>1. poller \in Pollers /\ sample \in Samples
  BY DEF PinsInv, PinsTypes
<1>2. UNCHANGED <<cluster, firstRead, strange, poller, diagnostic, identities>> /\ poller.at = "reading"
      /\ sample' = [sample EXCEPT !.pods = TRUE, !.listed = cluster]
  BY DEF ListBaselinePods, PollerAt
<1>3. \A i \in Pins : sample.checks[i] = "unread"
  BY <1>1, <1>2, PinsAssumption DEF PinsInv, PlacesKnown, ChecksKnown, Pins
<1>4. poller.outcome # "accepted"
  BY <1>2 DEF PinsInv, PlacesKnown
<1>5. UNCHANGED <<sample.flux, sample.got, sample.next, sample.checks, sample.error>>
  BY <1>1, <1>2 DEF Samples
<1>11. PinsTypes'
  BY <1>1, <1>2, <1>3, <1>4, <1>5, PinsAssumption DEF PinsInv, PinsTrue, PinsTypes, Pollers,
     Samples, Diagnostics, Reading, AfterFailure
<1>12. PlacesKnown'
  BY <1>1, <1>2, <1>3, <1>4, <1>5, PinsAssumption DEF PinsInv, PinsTrue, PlacesKnown, Reading,
     AfterFailure, Undecided, Final
<1>13. ChecksKnown'
  BY <1>1, <1>2, <1>3, <1>4, <1>5, PinsAssumption DEF PinsInv, PinsTrue, ChecksKnown, ReadyPin
<1>14. IdentitiesKept'
  BY <1>1, <1>2, <1>3, <1>4, <1>5, PinsAssumption DEF PinsInv, PinsTrue, IdentitiesKept,
     OfAttempt, Reading
<1>15. StrangeEnds'
  BY <1>1, <1>2, <1>3, <1>4, <1>5, PinsAssumption DEF PinsInv, PinsTrue, StrangeEnds
<1>16. FailureKept'
  BY <1>1, <1>2, <1>3, <1>4, <1>5, PinsAssumption DEF PinsInv, PinsTrue, FailureKept,
     FirstShown, Reading, AfterFailure
<1>17. AwaitedNow'
  BY <1>1, <1>2, <1>3, <1>4, <1>5, PinsAssumption DEF PinsInv, PinsTrue, AwaitedNow, Undecided
<1>18. StateKnown'
  BY <1>1, <1>2, <1>3, <1>4, <1>5, PinsAssumption DEF PinsInv, PinsTrue, StateKnown, Undecided
<1>19. BaselineTrue'
  BY <1>1, <1>2, <1>3, <1>4, <1>5, PinsAssumption DEF PinsInv, PinsTrue, BaselineTrue
<1>20. FailureShown'
  BY <1>1, <1>2, <1>3, <1>4, <1>5, PinsAssumption DEF PinsInv, PinsTrue, FailureShown, Undecided
<1> QED
  BY <1>11, <1>12, <1>13, <1>14, <1>15, <1>16, <1>17, <1>18, <1>19, <1>20 DEF PinsInv, PinsTrue

\* The Flux source is read.
LEMMA ListFluxSafe ==
  ASSUME PinsInv, ListFlux
  PROVE  PinsInv'
<1>1. poller \in Pollers /\ sample \in Samples /\ cluster \in [Pins -> PinObjects] /\ 0 \in Pins
      /\ firstRead \in [Pins -> Identities]
  BY PinsAssumption DEF PinsInv, PinsTypes, Pins
<1>2. UNCHANGED <<cluster, poller, diagnostic, identities>> /\ poller.at = "reading" /\ ~sample.flux
      /\ sample' = [sample EXCEPT !.flux = TRUE, !.got = [sample.got EXCEPT ![0] = cluster[0]]]
      /\ strange' = strange \cup {i \in {0} : ~(cluster[0].there /\ cluster[0].right)}
  BY DEF ListFlux, PollerAt
<1>3. sample' \in Samples /\ UNCHANGED <<sample.pods, sample.listed, sample.next, sample.checks, sample.error>>
      /\ sample'.flux /\ sample'.got = [sample.got EXCEPT ![0] = cluster[0]]
  BY <1>1, <1>2 DEF Samples
<1>4. \A i \in Pins : i # 0 => sample'.got[i] = sample.got[i]
  BY <1>1, <1>3 DEF Samples
<1>5. sample'.got[0] = cluster[0]
  BY <1>1, <1>3 DEF Samples
<1>6. firstRead' \in [Pins -> Identities] /\ \A i \in Pins : firstRead'[i] =
        IF i = 0 /\ firstRead[0] = Unknown /\ cluster[0].there THEN Identity(cluster[0]) ELSE firstRead[i]
  BY <1>1, RememberedAs DEF ListFlux, Reads
<1>7. \A i \in Pins : sample.checks[i] = "unread" /\ i >= sample.next
  BY <1>1, <1>2, PinsAssumption DEF PinsInv, PlacesKnown, ChecksKnown, Pins
<1>8. poller.outcome # "accepted" /\ sample.next = 0 /\ sample.error = "none"
      /\ ~sample.got[0].there
  BY <1>2 DEF PinsInv, PlacesKnown, Reading
<1>9. \A i \in strange : FALSE
  BY <1>1, <1>2, <1>7, <1>8 DEF PinsInv, PinsTypes, StrangeEnds, NeverRetried
<1>11. PinsTypes'
  BY <1>1, <1>2, <1>3, <1>4, <1>5, <1>6, <1>7, <1>8, <1>9, PinsAssumption DEF PinsInv,
     PinsTrue, PinsTypes, Pollers, Samples, Diagnostics, Reading, AfterFailure
<1>12. PlacesKnown'
  BY <1>1, <1>2, <1>3, <1>4, <1>5, <1>6, <1>7, <1>8, <1>9, PinsAssumption DEF PinsInv,
     PinsTrue, PlacesKnown, Reading, AfterFailure, Undecided, Final
<1>13. ChecksKnown'
  BY <1>1, <1>2, <1>3, <1>4, <1>5, <1>6, <1>7, <1>8, <1>9, PinsAssumption DEF PinsInv,
     PinsTrue, ChecksKnown, ReadyPin
<1>14. IdentitiesKept'
  <2>1. ASSUME NEW i \in Pins, i # 0
        PROVE  OfAttempt(i) => OfAttempt(i)'
    BY <1>2, <1>3, <1>4, <1>6, <2>1 DEF OfAttempt
  <2>2. firstRead[0] # Unknown => identities[0] = firstRead[0]
    BY <1>1, <1>2, <1>8 DEF PinsInv, IdentitiesKept, OfAttempt, Reading
  <2>3. firstRead'[0] # Unknown /\ identities[0] = Unknown => OfAttempt(0)'
    BY <1>1, <1>2, <1>3, <1>5, <1>6, <1>7, <2>2 DEF OfAttempt, Reading, Identity, Turn
  <2>5. \A i \in Pins : cluster[i].uid > 0 /\ Identity(cluster[i]) # Unknown
    BY <1>1 DEF PinsInv, IdentitiesKept, Identity, Unknown, PinObjects
  <2>4. ASSUME NEW i \in Pins
        PROVE  /\ cluster'[i].uid > 0
               /\ poller'.at \in Reading /\ sample'.got[i].there => firstRead'[i] # Unknown
               /\ identities'[i] # Unknown => identities'[i] = firstRead'[i]
               /\ firstRead'[i] # Unknown /\ identities'[i] = Unknown => OfAttempt(i)'
    <3>1. CASE i = 0
      BY <1>1, <1>2, <1>5, <1>6, <2>2, <2>3, <2>5, <3>1 DEF PinsInv, IdentitiesKept
    <3>2. CASE i # 0
      BY <1>2, <1>4, <1>6, <2>1, <2>5, <3>2 DEF PinsInv, IdentitiesKept
    <3> QED
      BY <3>1, <3>2
  <2> QED
    BY <2>4 DEF IdentitiesKept
<1>15. StrangeEnds'
  BY <1>1, <1>2, <1>3, <1>4, <1>5, <1>6, <1>7, <1>8, <1>9, PinsAssumption DEF PinsInv,
     PinsTrue, StrangeEnds
<1>16. FailureKept'
  BY <1>1, <1>2, <1>3, <1>4, <1>5, <1>6, <1>7, <1>8, <1>9, PinsAssumption DEF PinsInv,
     PinsTrue, FailureKept, FirstShown, Reading, AfterFailure
<1>17. AwaitedNow'
  BY <1>1, <1>2, <1>3, <1>4, <1>5, <1>6, <1>7, <1>8, <1>9, PinsAssumption DEF PinsInv,
     PinsTrue, AwaitedNow, Undecided
<1>18. StateKnown'
  BY <1>1, <1>2, <1>3, <1>4, <1>5, <1>6, <1>7, <1>8, <1>9, PinsAssumption DEF PinsInv,
     PinsTrue, StateKnown, Undecided
<1>19. BaselineTrue'
  BY <1>1, <1>2, <1>3, <1>4, <1>5, <1>6, <1>7, <1>8, <1>9, PinsAssumption DEF PinsInv,
     PinsTrue, BaselineTrue
<1>20. FailureShown'
  BY <1>1, <1>2, <1>3, <1>4, <1>5, <1>6, <1>7, <1>8, <1>9, PinsAssumption DEF PinsInv,
     PinsTrue, FailureShown, Undecided
<1> QED
  BY <1>11, <1>12, <1>13, <1>14, <1>15, <1>16, <1>17, <1>18, <1>19, <1>20 DEF PinsInv, PinsTrue

\* The Deployment whose turn it is is read.
LEMMA GetDeploymentSafe ==
  ASSUME PinsInv, GetDeployment
  PROVE  PinsInv'
<1>0. PICK t \in Pins : t = sample.next
  BY PinsAssumption DEF PinsInv, PinsTypes, Pins, GetDeployment, PollerAt, PlacesKnown
<1>1. poller \in Pollers /\ sample \in Samples /\ cluster \in [Pins -> PinObjects] /\ t # 0
      /\ firstRead \in [Pins -> Identities]
  BY <1>0, PinsAssumption DEF PinsInv, PinsTypes, Pins, GetDeployment, PollerAt, PlacesKnown
<1>2. UNCHANGED <<cluster, poller, diagnostic, identities, strange>> /\ poller.at = "deployments"
      /\ ~sample.got[t].there /\ cluster[t].there
      /\ sample' = [sample EXCEPT !.got = [sample.got EXCEPT ![t] = cluster[t]]]
  BY <1>0 DEF GetDeployment, PollerAt, Turn
<1>3. sample' \in Samples
      /\ UNCHANGED <<sample.pods, sample.flux, sample.listed, sample.next, sample.checks, sample.error>>
      /\ sample'.got = [sample.got EXCEPT ![t] = cluster[t]]
  BY <1>1, <1>2 DEF Samples
<1>4. \A i \in Pins : i # t => sample'.got[i] = sample.got[i]
  BY <1>1, <1>3 DEF Samples
<1>5. sample'.got[t] = cluster[t]
  BY <1>1, <1>3 DEF Samples
<1>6. firstRead' \in [Pins -> Identities] /\ \A i \in Pins : firstRead'[i] =
        IF i = t /\ firstRead[t] = Unknown THEN Identity(cluster[t]) ELSE firstRead[i]
  BY <1>1, <1>2, <1>0, RememberedAs DEF GetDeployment, Reads, Turn
<1>7. sample.checks[t] = "unread" /\ sample.next = t
  BY <1>0, <1>1, <1>2, PinsAssumption DEF PinsInv, ChecksKnown, Pins
<1>8. poller.outcome # "accepted" /\ sample.error = "none"
  BY <1>2 DEF PinsInv, PlacesKnown, Reading
<1>11. PinsTypes'
  BY <1>0, <1>1, <1>2, <1>3, <1>4, <1>5, <1>6, <1>7, <1>8, PinsAssumption DEF PinsInv,
     PinsTrue, PinsTypes, Pollers, Samples, Diagnostics, Reading, AfterFailure
<1>12. PlacesKnown'
  BY <1>0, <1>1, <1>2, <1>3, <1>4, <1>5, <1>6, <1>7, <1>8, PinsAssumption DEF PinsInv,
     PinsTrue, PlacesKnown, Reading, AfterFailure, Undecided, Final
<1>13. ChecksKnown'
  BY <1>0, <1>1, <1>2, <1>3, <1>4, <1>5, <1>6, <1>7, <1>8, PinsAssumption DEF PinsInv,
     PinsTrue, ChecksKnown, ReadyPin
<1>14. IdentitiesKept'
  <2>1. ASSUME NEW i \in Pins, i # t
        PROVE  OfAttempt(i) => OfAttempt(i)'
    BY <1>2, <1>3, <1>4, <1>6, <2>1 DEF OfAttempt
  <2>2. firstRead[t] # Unknown => identities[t] = firstRead[t]
    BY <1>1, <1>2, <1>8 DEF PinsInv, IdentitiesKept, OfAttempt, Reading
  <2>3. firstRead'[t] # Unknown /\ identities[t] = Unknown => OfAttempt(t)'
    BY <1>1, <1>2, <1>3, <1>5, <1>6, <1>7, <2>2 DEF OfAttempt, Reading, Identity, Pins
  <2>5. \A i \in Pins : cluster[i].uid > 0 /\ Identity(cluster[i]) # Unknown
    BY <1>1 DEF PinsInv, IdentitiesKept, Identity, Unknown, PinObjects
  <2>4. ASSUME NEW i \in Pins
        PROVE  /\ cluster'[i].uid > 0
               /\ poller'.at \in Reading /\ sample'.got[i].there => firstRead'[i] # Unknown
               /\ identities'[i] # Unknown => identities'[i] = firstRead'[i]
               /\ firstRead'[i] # Unknown /\ identities'[i] = Unknown => OfAttempt(i)'
    <3>1. CASE i = t
      BY <1>1, <1>2, <1>5, <1>6, <2>2, <2>3, <2>5, <3>1 DEF PinsInv, IdentitiesKept
    <3>2. CASE i # t
      BY <1>2, <1>4, <1>6, <2>1, <2>5, <3>2 DEF PinsInv, IdentitiesKept
    <3> QED
      BY <3>1, <3>2
  <2> QED
    BY <2>4 DEF IdentitiesKept
<1>15. StrangeEnds'
  BY <1>0, <1>1, <1>2, <1>3, <1>4, <1>5, <1>6, <1>7, <1>8, PinsAssumption DEF PinsInv,
     PinsTrue, StrangeEnds
<1>16. FailureKept'
  BY <1>0, <1>1, <1>2, <1>3, <1>4, <1>5, <1>6, <1>7, <1>8, PinsAssumption DEF PinsInv,
     PinsTrue, FailureKept, FirstShown, Reading, AfterFailure
<1>17. AwaitedNow'
  BY <1>0, <1>1, <1>2, <1>3, <1>4, <1>5, <1>6, <1>7, <1>8, PinsAssumption DEF PinsInv,
     PinsTrue, AwaitedNow, Undecided
<1>18. StateKnown'
  BY <1>0, <1>1, <1>2, <1>3, <1>4, <1>5, <1>6, <1>7, <1>8, PinsAssumption DEF PinsInv,
     PinsTrue, StateKnown, Undecided
<1>19. BaselineTrue'
  BY <1>0, <1>1, <1>2, <1>3, <1>4, <1>5, <1>6, <1>7, <1>8, PinsAssumption DEF PinsInv,
     PinsTrue, BaselineTrue
<1>20. FailureShown'
  BY <1>0, <1>1, <1>2, <1>3, <1>4, <1>5, <1>6, <1>7, <1>8, PinsAssumption DEF PinsInv,
     PinsTrue, FailureShown, Undecided
<1> QED
  BY <1>11, <1>12, <1>13, <1>14, <1>15, <1>16, <1>17, <1>18, <1>19, <1>20 DEF PinsInv, PinsTrue

\* A pin is checked: it is ready as the baseline promises, or its condition is shown.
LEMMA CheckSafe ==
  ASSUME PinsInv, NEW t \in Pins, t = sample.next, poller.at \in Reading,
         NEW condition \in PinConditions \ {"unread"}, Check(t, condition),
         condition = "ready" => /\ sample.got[t].there /\ SameIdentity(t, sample.got[t])
                                /\ t # 0 => /\ sample.listed[t].uid = sample.got[t].uid
                                            /\ sample.listed[t].pods = {"ready"},
         UNCHANGED <<cluster, firstRead>>, strange' \in SUBSET Pins,
         \A i \in strange' : \/ i < t /\ sample.checks[i] \in NeverRetried
                             \/ i = t /\ condition \in NeverRetried
  PROVE  PinsInv'
<1>1. poller \in Pollers /\ sample \in Samples /\ t \in Nat /\ t <= Pinned /\ identities \in [Pins -> Identities]
      /\ diagnostic \in Diagnostics
  BY PinsAssumption DEF PinsInv, PinsTypes, Pins
<1>2. PICK checks \in [Pins -> PinConditions] : checks = [sample.checks EXCEPT ![t] = condition]
  BY <1>1 DEF Samples
<1>3. /\ sample' \in Samples /\ sample'.next = t + 1 /\ sample'.checks = checks
      /\ UNCHANGED <<sample.pods, sample.flux, sample.listed, sample.got, sample.error>>
  <2>1. sample' = [sample EXCEPT !.next = t + 1, !.checks = checks]
    BY <1>2 DEF Check
  <2>2. t + 1 \in 0 .. Pinned + 1
    BY <1>1, PinsAssumption
  <2> QED
    BY <1>1, <1>2, <2>1, <2>2 DEF Samples
<1>4. checks[t] = condition /\ \A i \in Pins : i # t => checks[i] = sample.checks[i]
  BY <1>1, <1>2 DEF Samples
<1>5. identities' \in [Pins -> Identities] /\ \A i \in Pins : identities'[i] =
        IF i = t /\ identities[t] = Unknown /\ sample.got[t].there THEN Identity(sample.got[t]) ELSE identities[i]
  BY <1>1, RememberedAs DEF Check, Samples
<1>6. sample.error = "none" /\ poller.attempt >= 1 /\ poller.outcome # "accepted" /\ poller.at # "done"
      /\ poller.at # "saved" /\ poller.at # "saving" /\ poller.at # "collecting" /\ poller.at # "idle"
      /\ poller.at \notin AfterFailure
  BY DEF PinsInv, PlacesKnown, FailureKept, Reading, AfterFailure
<1>7. /\ poller' \in Pollers /\ diagnostic' \in Diagnostics
      /\ UNCHANGED <<poller.attempt, poller.collected, poller.outcome>>
      /\ UNCHANGED <<diagnostic.targets>>
      /\ \/ poller'.at = "deployments" /\ t < Pinned /\ diagnostic' = diagnostic /\ poller'.pinError = poller.pinError
         \/ poller'.at = "done" /\ ~Undecided /\ diagnostic' = diagnostic /\ poller'.pinError = poller.pinError
         \/ /\ poller'.at = "saved" /\ Undecided /\ t = Pinned /\ Failing(checks) = {}
            /\ diagnostic'.state = "converged" /\ poller'.pinError = poller.pinError
            /\ UNCHANGED <<diagnostic.firstFailure, diagnostic.events, diagnostic.logs>>
         \/ /\ poller'.at = "saving" /\ Undecided /\ t = Pinned /\ Failing(checks) # {}
            /\ diagnostic'.state = diagnostic.state /\ poller'.pinError
            /\ diagnostic'.firstFailure =
                  IF diagnostic.firstFailure = NoFailure
                  THEN [attempt |-> poller.attempt, error |-> "none", checks |-> checks, got |-> sample.got]
                  ELSE diagnostic.firstFailure
            /\ poller.collected => UNCHANGED <<diagnostic.events, diagnostic.logs>>
  <2>1. CASE t < Pinned /\ PollerTo("deployments") /\ UNCHANGED diagnostic
    BY <1>1, <2>1, PollerMoves DEF Reading, PollerOtherwise
  <2>2. CASE ~Undecided /\ PollerTo("done") /\ UNCHANGED diagnostic
    BY <1>1, <2>2, PollerMoves DEF Reading, PollerOtherwise
  <2> DEFINE r == RecordPinObservation("none", checks)
  <2>3. /\ r \in Diagnostics /\ r.state = diagnostic.state /\ r.events = diagnostic.events
        /\ r.logs = diagnostic.logs /\ r.targets = diagnostic.targets
        /\ r.firstFailure = IF diagnostic.firstFailure = NoFailure /\ Failing(checks) # {}
                            THEN [attempt |-> poller.attempt, error |-> "none", checks |-> checks, got |-> sample.got]
                            ELSE diagnostic.firstFailure
    BY ObservationRecorded DEF PinsInv, PinErrors
  <2>4. CASE /\ t = Pinned /\ Undecided /\ Failing(checks) = {} /\ PollerTo("saved")
             /\ diagnostic' = [r EXCEPT !.state = "converged"]
    <3>1. poller' \in Pollers /\ poller'.at = "saved" /\ PollerOtherwise
      BY <2>4, PollerMoves
    <3> HIDE DEF r
    <3>2. diagnostic' \in Diagnostics /\ diagnostic'.state = "converged" /\ diagnostic'.firstFailure = r.firstFailure
          /\ diagnostic'.events = r.events /\ diagnostic'.logs = r.logs /\ diagnostic'.targets = r.targets
      BY <2>3, <2>4 DEF Diagnostics
    <3> QED
      BY <2>3, <2>4, <3>1, <3>2 DEF PollerOtherwise
  <2>5. CASE /\ t = Pinned /\ Undecided /\ Failing(checks) # {} /\ diagnostic' = CollectedLater(r)
             /\ poller' = [poller EXCEPT !.at = "saving", !.pinError = TRUE]
    <3>1. poller' \in Pollers /\ poller'.at = "saving" /\ poller'.pinError
          /\ UNCHANGED <<poller.attempt, poller.collected, poller.outcome>>
      BY <1>1, <2>5 DEF Pollers, AfterFailure
    <3> HIDE DEF r
    <3>2. diagnostic' \in Diagnostics /\ diagnostic'.state = r.state /\ diagnostic'.firstFailure = r.firstFailure
          /\ diagnostic'.targets = r.targets /\ (poller.collected => diagnostic' = r)
      BY <2>3, <2>5, LaterCollected DEF PinsInv
    <3> QED
      BY <2>3, <2>5, <3>1, <3>2
  <2> HIDE DEF r
  <2> QED
    BY <1>2, <2>1, <2>2, <2>4, <2>5 DEF Check, VerifyDeploymentPins, r
<1>8. \A i \in Pins : (i >= t <=> ~(i < t)) /\ (i < t + 1 <=> i < t \/ i = t) /\ (i >= t + 1 <=> i > t)
      /\ (t = Pinned => i <= t) /\ i \in Nat
  BY <1>1, PinsAssumption DEF Pins
<1>9. condition = "ready" => Identity(sample.got[t]) = firstRead[t]
  BY <1>6 DEF PinsInv, IdentitiesKept, OfAttempt, SameIdentity
<1>10. /\ NoFailure.attempt = 0 /\ Failing(NoFailure.checks) = {}
       /\ poller.attempt > 1 \/ poller.attempt = 1
  BY <1>1, <1>6, PinObjectsKnown DEF NoFailure, Pollers
<1>11. PinsTypes'
  BY <1>1, <1>2, <1>3, <1>4, <1>5, <1>6, <1>7, <1>8, <1>9, <1>10, PinsAssumption DEF PinsInv,
     PinsTrue, PinsTypes, Pollers, Samples, Diagnostics, Reading, AfterFailure
<1>12. PlacesKnown'
  BY <1>1, <1>2, <1>3, <1>4, <1>5, <1>6, <1>7, <1>8, <1>9, <1>10, PinsAssumption DEF PinsInv,
     PinsTrue, PlacesKnown, Reading, AfterFailure, Undecided, Final
<1>13. ChecksKnown'
  <2>1. ASSUME NEW i \in Pins, sample.checks[i] = "ready", i # t
        PROVE  ReadyPin(i)'
    BY <1>3, <2>1 DEF PinsInv, ChecksKnown, ReadyPin
  <2>2. condition = "ready" => ReadyPin(t)'
    BY <1>3, <1>9 DEF ReadyPin
  <2> QED
    BY <1>3, <1>4, <1>8, <2>1, <2>2 DEF PinsInv, ChecksKnown
<1>14. IdentitiesKept'
  BY <1>1, <1>2, <1>3, <1>4, <1>5, <1>6, <1>7, <1>8, <1>9, <1>10, PinsAssumption DEF PinsInv,
     PinsTrue, IdentitiesKept, OfAttempt, Reading
<1>15. StrangeEnds'
  BY <1>1, <1>2, <1>3, <1>4, <1>5, <1>6, <1>7, <1>8, <1>9, <1>10, PinsAssumption DEF PinsInv,
     PinsTrue, StrangeEnds
<1>16. FailureKept'
  <2>1. poller.attempt = 1 => diagnostic.firstFailure = NoFailure
    BY DEF PinsInv, FailureKept
  <2>2. poller.attempt > 1 => FirstShown /\ diagnostic.firstFailure # NoFailure
    BY <1>10 DEF PinsInv, FailureKept, FirstShown
  <2>3. diagnostic.firstFailure # NoFailure /\ diagnostic.firstFailure.error = "none" => poller.pinError
    BY DEF PinsInv, FailureKept
  <2> DEFINE f == [attempt |-> poller.attempt, error |-> "none", checks |-> checks, got |-> sample.got]
  <2>4. f.attempt = poller.attempt /\ f.error = "none" /\ f.checks = checks
    OBVIOUS
  <2>5. poller'.at = "saving" /\ poller.attempt = 1 => diagnostic'.firstFailure = f
    BY <1>7, <2>1
  <2> HIDE DEF f
  <2>6. poller'.at # "saving" => diagnostic'.firstFailure = diagnostic.firstFailure /\ poller'.pinError = poller.pinError
    BY <1>7
  <2>7. poller.attempt > 1 => diagnostic'.firstFailure = diagnostic.firstFailure
    BY <1>7, <2>2
  <2>8. poller.attempt > 1 => FirstShown'
    BY <2>2, <2>7 DEF FirstShown
  <2>9. poller'.at = "saving" => poller'.pinError /\ Failing(checks) # {}
    BY <1>7
  <2>10. poller'.at \in {"deployments", "done", "saved", "saving"} /\ UNCHANGED poller.attempt
    BY <1>7
  <2> QED
    BY <1>3, <1>6, <1>10, <2>1, <2>3, <2>4, <2>5, <2>6, <2>8, <2>9, <2>10 DEF FailureKept,
       Reading, AfterFailure
<1>17. AwaitedNow'
  <2>1. Undecided => diagnostic.events # "pending" /\ diagnostic.logs # "pending"
    BY <1>6 DEF PinsInv, AwaitedNow
  <2>2. Undecided' <=> Undecided
    BY <1>7 DEF Undecided
  <2> QED
    BY <1>7, <2>1, <2>2 DEF AwaitedNow
<1>18. StateKnown'
  BY <1>1, <1>2, <1>3, <1>4, <1>5, <1>6, <1>7, <1>8, <1>9, <1>10, PinsAssumption DEF PinsInv,
     PinsTrue, StateKnown, Undecided
<1>19. BaselineTrue'
  BY <1>1, <1>2, <1>3, <1>4, <1>5, <1>6, <1>7, <1>8, <1>9, <1>10, PinsAssumption DEF PinsInv,
     PinsTrue, BaselineTrue
<1>20. FailureShown'
  <2>1. poller.attempt = 1 => diagnostic.firstFailure = NoFailure
    BY DEF PinsInv, FailureKept
  <2>2. poller.attempt > 1 => FirstShown /\ diagnostic.firstFailure # NoFailure
    BY <1>10 DEF PinsInv, FailureKept, FirstShown
  <2>3. poller.attempt > 1 => diagnostic'.firstFailure = diagnostic.firstFailure
    BY <1>7, <2>2
  <2>4. diagnostic.firstFailure = NoFailure => diagnostic.targets = {}
    BY <1>10 DEF PinsInv, PinsTrue, FailureShown
  <2>5. \A target \in diagnostic'.targets :
           /\ target[1] \in Failing(diagnostic'.firstFailure.checks)
           /\ target[2] = Identity(diagnostic'.firstFailure.got[target[1]])
    BY <1>7, <1>10, <2>1, <2>3, <2>4 DEF PinsInv, PinsTrue, FailureShown
  <2>6. UNCHANGED <<poller.attempt, poller.outcome>> /\ (~Undecided => diagnostic' = diagnostic)
    BY <1>7
  <2>7. poller'.attempt > 1 => FirstShown'
    BY <2>2, <2>3, <2>6 DEF FirstShown
  <2>8. poller'.outcome = "DEADLINE" =>
           diagnostic'.firstFailure = NoFailure \/ diagnostic'.firstFailure.error # "none"
    BY <2>6 DEF PinsInv, PinsTrue, FailureShown, Undecided
  <2>9. ~Undecided' => /\ diagnostic'.state = IF poller'.outcome = "accepted" THEN "converged" ELSE "failed"
                       /\ diagnostic'.events # "pending" /\ diagnostic'.logs # "pending"
    BY <2>6 DEF PinsInv, PinsTrue, FailureShown, Undecided
  <2> QED
    BY <2>5, <2>7, <2>8, <2>9 DEF FailureShown, FirstShown
<1> QED
  BY <1>11, <1>12, <1>13, <1>14, <1>15, <1>16, <1>17, <1>18, <1>19, <1>20 DEF PinsInv, PinsTrue

\* An attempt nobody waits for ends.
LEMMA AbandonedSafe ==
  ASSUME PinsInv, ~Undecided, poller.at \in Reading \cup AfterFailure, PollerTo("done"),
         UNCHANGED <<cluster, firstRead, strange, sample, identities, diagnostic>>
  PROVE  PinsInv'
<1>1. poller' \in Pollers /\ poller'.at = "done" /\ PollerOtherwise /\ poller.outcome # "accepted"
      /\ poller.attempt >= 1
  BY PollerMoves DEF PinsInv, PlacesKnown, FailureKept, Reading, AfterFailure
<1>11. PinsTypes'
  BY <1>1, PinsAssumption DEF PinsInv, PinsTrue, PinsTypes, Pollers, Samples, Diagnostics,
     Reading, AfterFailure, PollerOtherwise
<1>12. PlacesKnown'
  BY <1>1, PinsAssumption DEF PinsInv, PinsTrue, PlacesKnown, Reading, AfterFailure, Undecided,
     Final, PollerOtherwise
<1>13. ChecksKnown'
  BY <1>1, PinsAssumption DEF PinsInv, PinsTrue, ChecksKnown, ReadyPin, PollerOtherwise
<1>14. IdentitiesKept'
  BY <1>1, PinsAssumption DEF PinsInv, PinsTrue, IdentitiesKept, OfAttempt, Reading,
     PollerOtherwise
<1>15. StrangeEnds'
  BY <1>1, PinsAssumption DEF PinsInv, PinsTrue, StrangeEnds, PollerOtherwise
<1>16. FailureKept'
  BY <1>1, PinsAssumption DEF PinsInv, PinsTrue, FailureKept, FirstShown, Reading,
     AfterFailure, PollerOtherwise
<1>17. AwaitedNow'
  BY <1>1, PinsAssumption DEF PinsInv, PinsTrue, AwaitedNow, Undecided, PollerOtherwise
<1>18. StateKnown'
  BY <1>1, PinsAssumption DEF PinsInv, PinsTrue, StateKnown, Undecided, PollerOtherwise
<1>19. BaselineTrue'
  BY <1>1, PinsAssumption DEF PinsInv, PinsTrue, BaselineTrue, PollerOtherwise
<1>20. FailureShown'
  BY <1>1, PinsAssumption DEF PinsInv, PinsTrue, FailureShown, Undecided, PollerOtherwise
<1> QED
  BY <1>11, <1>12, <1>13, <1>14, <1>15, <1>16, <1>17, <1>18, <1>19, <1>20 DEF PinsInv, PinsTrue

\* Everything is read: the Flux source is checked.
LEMMA ReadBaselineSafe ==
  ASSUME PinsInv, ReadBaseline
  PROVE  PinsInv'
<1>1. poller.at = "reading" /\ sample.flux /\ UNCHANGED <<cluster, firstRead, strange>> /\ sample.next = 0 /\ 0 \in Pins
      /\ sample.error = "none" /\ strange \in SUBSET Pins
  BY PinsAssumption DEF ReadBaseline, PollerAt, PinsInv, PlacesKnown, Pins, PinsTypes, Reading
<1>2. CASE ~Undecided /\ PollerTo("done") /\ UNCHANGED <<sample, identities, diagnostic>>
  BY <1>1, <1>2, AbandonedSafe DEF Reading
<1>3. CASE Undecided /\ Check(0, FluxCondition(sample.got[0]))
  <2> DEFINE condition == FluxCondition(sample.got[0])
  <2>1. condition \in PinConditions \ {"unread"}
    BY DEF FluxCondition, PinConditions
  <2>2. condition = "ready" => sample.got[0].there /\ SameIdentity(0, sample.got[0])
    BY DEF FluxCondition
  <2>3. ~(sample.got[0].there /\ sample.got[0].right) => condition \in NeverRetried
    BY DEF FluxCondition, NeverRetried
  <2> HIDE DEF condition
  <2>4. \A i \in strange' : i = 0 /\ condition \in NeverRetried
    <3>1. ASSUME NEW i \in strange'
          PROVE  i = 0 /\ condition \in NeverRetried
      <4>1. ~(i < 0)
        BY <1>1 DEF Pins
      <4> QED
        BY <1>1, <2>3, <4>1 DEF PinsInv, StrangeEnds
    <3> QED
      BY <3>1
  <2>5. Check(0, condition)
    BY <1>3 DEF condition
  <2> QED
    BY <1>1, <2>1, <2>2, <2>4, <2>5, CheckSafe DEF Reading
<1> QED
  BY <1>2, <1>3 DEF ReadBaseline

\* The ReplicaSets are listed: the Deployment whose turn it is is checked.
LEMMA ListReplicaSetsSafe ==
  ASSUME PinsInv, ListReplicaSets
  PROVE  PinsInv'
<1>1. PICK t \in Pins : t = sample.next
  BY PinsAssumption DEF PinsInv, Pins, ListReplicaSets, PollerAt, PlacesKnown
<1>2. /\ poller.at = "deployments" /\ sample.got[t].there /\ UNCHANGED <<cluster, firstRead>>
      /\ sample.error = "none" /\ strange \in SUBSET Pins
  BY <1>1 DEF ListReplicaSets, PollerAt, PinsInv, PlacesKnown, PinsTypes, Reading, Turn
<1>3. PICK containers :
        /\ containers # {} => /\ sample.listed[t].uid = sample.got[t].uid
                              /\ containers = sample.listed[t].pods
        /\ strange' = strange \cup {i \in {t} : "wrong" \in containers}
        /\ Check(t, DeploymentCondition(t, sample.got[t], containers))
  <2>1. PICK kept \in BOOLEAN :
          LET o == sample.got[t]
              ours == sample.listed[t].uid = o.uid /\ (kept \/ (cluster[t].there /\ cluster[t].uid = o.uid))
              containers == IF ours THEN sample.listed[t].pods ELSE {} IN
          /\ strange' = strange \cup {i \in {t} : "wrong" \in containers}
          /\ Check(t, DeploymentCondition(t, o, containers))
    BY <1>1, Zenon DEF ListReplicaSets, Turn
  <2> QED
    BY <2>1
<1> DEFINE condition == DeploymentCondition(t, sample.got[t], containers)
<1>4. condition \in PinConditions \ {"unread"}
  BY DEF DeploymentCondition, PinConditions
<1>5. condition = "ready" => SameIdentity(t, sample.got[t]) /\ containers = {"ready"}
  BY DEF DeploymentCondition
<1>6. "wrong" \in containers => condition \in NeverRetried
  BY DEF DeploymentCondition, NeverRetried
<1>7. Check(t, condition)
  BY <1>3
<1> HIDE DEF condition
<1>8. \A i \in strange' : (i < t /\ sample.checks[i] \in NeverRetried) \/ (i = t /\ condition \in NeverRetried)
  BY <1>1, <1>2, <1>3, <1>6 DEF PinsInv, StrangeEnds
<1>9. strange' \in SUBSET Pins
  BY <1>2, <1>3
<1>10. condition = "ready" => /\ sample.got[t].there /\ SameIdentity(t, sample.got[t])
                              /\ t # 0 => /\ sample.listed[t].uid = sample.got[t].uid
                                          /\ sample.listed[t].pods = {"ready"}
  BY <1>2, <1>3, <1>5
<1> QED
  BY <1>1, <1>2, <1>4, <1>7, <1>8, <1>9, <1>10, CheckSafe DEF Reading


\* A read error ends the attempts.
LEMMA ReadErrorSafe ==
  ASSUME PinsInv, poller.at \in Reading, UNCHANGED <<cluster, firstRead, strange, identities>>,
         NEW error \in {"OBSERVER", "IDENTITY"}, Undecided, PollerTo("saving"),
         sample' = [sample EXCEPT !.error = error],
         diagnostic' = CollectedLater(RecordPinObservation(error, sample.checks))
  PROVE  PinsInv'
<1>1. poller \in Pollers /\ sample \in Samples /\ sample.checks \in [Pins -> PinConditions] /\ error \in PinErrors
      /\ diagnostic \in Diagnostics
  BY DEF PinsInv, PinsTypes, Samples, PinErrors
<1>2. poller' \in Pollers /\ poller'.at = "saving" /\ UNCHANGED <<poller.attempt, poller.collected, poller.pinError, poller.outcome>>
  BY PollerMoves DEF AfterFailure, PollerOtherwise
<1>3. sample' \in Samples /\ sample'.error = error /\ error # "none"
      /\ UNCHANGED <<sample.pods, sample.flux, sample.listed, sample.got, sample.next, sample.checks>>
  BY <1>1 DEF Samples
<1>4. /\ diagnostic' \in Diagnostics /\ UNCHANGED <<diagnostic.state, diagnostic.targets>>
      /\ poller.collected => UNCHANGED <<diagnostic.events, diagnostic.logs>>
      /\ diagnostic'.firstFailure =
            IF diagnostic.firstFailure = NoFailure
            THEN [attempt |-> poller.attempt, error |-> error, checks |-> sample.checks, got |-> sample.got]
            ELSE diagnostic.firstFailure
  <2> DEFINE r == RecordPinObservation(error, sample.checks)
  <2>1. /\ r \in Diagnostics /\ r.state = diagnostic.state /\ r.events = diagnostic.events
        /\ r.logs = diagnostic.logs /\ r.targets = diagnostic.targets
        /\ r.firstFailure = IF diagnostic.firstFailure = NoFailure
                            THEN [attempt |-> poller.attempt, error |-> error, checks |-> sample.checks, got |-> sample.got]
                            ELSE diagnostic.firstFailure
    BY <1>1, <1>3, ObservationRecorded DEF PinsInv
  <2>2. diagnostic' = CollectedLater(r)
    OBVIOUS
  <2> HIDE DEF r
  <2> QED
    BY <2>1, <2>2, LaterCollected DEF PinsInv
<1>5. poller.attempt >= 1 /\ poller.outcome # "accepted" /\ poller.at \notin AfterFailure /\ poller.at # "idle"
      /\ poller.at # "saved"
  BY DEF PinsInv, PlacesKnown, FailureKept, Reading, AfterFailure
<1>6. NoFailure.attempt = 0 /\ Failing(NoFailure.checks) = {} /\ (poller.attempt > 1 \/ poller.attempt = 1)
  BY <1>1, <1>5, PinObjectsKnown DEF NoFailure, Pollers
<1>7. poller.attempt = 1 => diagnostic.firstFailure = NoFailure
  BY DEF PinsInv, FailureKept
<1>8. poller.attempt > 1 => FirstShown /\ diagnostic.firstFailure # NoFailure
  BY <1>6 DEF PinsInv, FailureKept, FirstShown
<1>9. poller.attempt > 1 => diagnostic'.firstFailure = diagnostic.firstFailure
  BY <1>4, <1>8
<1> DEFINE f == [attempt |-> poller.attempt, error |-> error, checks |-> sample.checks, got |-> sample.got]
<1>10. f.attempt = poller.attempt /\ f.error = error /\ f.checks = sample.checks
       /\ (poller.attempt = 1 => diagnostic'.firstFailure = f)
  BY <1>4, <1>7
<1> HIDE DEF f
<1>11. PinsTypes'
  BY <1>2, <1>3, <1>4 DEF PinsInv, PinsTypes
<1>12. PlacesKnown'
  BY <1>1, <1>2, <1>3, <1>5, PinsAssumption DEF PinsInv, PinsTrue, PlacesKnown, Reading,
     AfterFailure, Undecided, Final
<1>13. ChecksKnown'
  BY <1>1, <1>2, <1>3, <1>5, PinsAssumption DEF PinsInv, PinsTrue, ChecksKnown, ReadyPin
<1>14. IdentitiesKept'
  BY <1>1, <1>2, <1>3, <1>5, PinsAssumption DEF PinsInv, PinsTrue, IdentitiesKept, OfAttempt,
     Reading
<1>15. StrangeEnds'
  BY <1>1, <1>2, <1>3, <1>5, PinsAssumption DEF PinsInv, PinsTrue, StrangeEnds
<1>16. FailureKept'
  <2>1. poller.attempt > 1 => FirstShown'
    BY <1>8, <1>9 DEF FirstShown
  <2>2. diagnostic'.firstFailure # NoFailure /\ diagnostic'.firstFailure.error = "none" => poller.pinError
    BY <1>3, <1>6, <1>9, <1>10 DEF PinsInv, FailureKept
  <2> QED
    BY <1>2, <1>3, <1>5, <1>6, <1>10, <2>1, <2>2 DEF FailureKept, Reading, AfterFailure
<1>17. AwaitedNow'
  BY <1>2, <1>4, <1>5 DEF PinsInv, AwaitedNow, Undecided, AfterFailure
<1>18. StateKnown'
  BY <1>2, <1>4, <1>5 DEF PinsInv, StateKnown, Undecided
<1>19. BaselineTrue'
  BY <1>1, <1>2, <1>3, <1>5, PinsAssumption DEF PinsInv, PinsTrue, BaselineTrue
<1>20. FailureShown'
  <2>1. diagnostic.firstFailure = NoFailure => diagnostic.targets = {}
    BY <1>6 DEF PinsInv, PinsTrue, FailureShown
  <2>2. \A target \in diagnostic'.targets :
           /\ target[1] \in Failing(diagnostic'.firstFailure.checks)
           /\ target[2] = Identity(diagnostic'.firstFailure.got[target[1]])
    BY <1>4, <1>6, <1>7, <1>9, <2>1 DEF PinsInv, PinsTrue, FailureShown
  <2>3. poller'.attempt > 1 => FirstShown'
    BY <1>2, <1>8, <1>9 DEF FirstShown
  <2> QED
    BY <1>2, <2>2, <2>3 DEF FailureShown, FirstShown, Undecided
<1> QED
  BY <1>11, <1>12, <1>13, <1>14, <1>15, <1>16, <1>17, <1>18, <1>19, <1>20 DEF PinsInv, PinsTrue

\* A read fails.
LEMMA ReadFailsSafe ==
  ASSUME PinsInv, ReadFails
  PROVE  PinsInv'
<1>1. poller.at \in Reading /\ UNCHANGED <<cluster, firstRead, strange, identities>>
  BY DEF ReadFails, PollerAt, Reading
<1>2. CASE ~Undecided /\ PollerTo("done") /\ UNCHANGED <<sample, diagnostic>>
  BY <1>1, <1>2, AbandonedSafe
<1>3. ASSUME NEW error \in {"OBSERVER", "IDENTITY"}, Undecided, PollerTo("saving"),
             sample' = [sample EXCEPT !.error = error],
             diagnostic' = CollectedLater(RecordPinObservation(error, sample.checks))
      PROVE  PinsInv'
  BY <1>1, <1>3, ReadErrorSafe
<1> QED
  BY <1>2, <1>3 DEF ReadFails


\* The baseline is accepted, if it is still waited for.
LEMMA AcceptBaselineSafe ==
  ASSUME PinsInv, AcceptBaseline
  PROVE  PinsInv'
<1>1. poller \in Pollers /\ sample \in Samples /\ poller.at = "saved"
      /\ UNCHANGED <<cluster, firstRead, strange, sample, identities, diagnostic>>
      /\ poller' = [poller EXCEPT !.at = "done", !.outcome = IF Undecided THEN "accepted" ELSE poller.outcome]
  BY DEF AcceptBaseline, PollerAt, PinsInv, PinsTypes
<1>2. poller' \in Pollers /\ poller'.at = "done" /\ UNCHANGED <<poller.attempt, poller.collected, poller.pinError>>
      /\ poller'.outcome = IF Undecided THEN "accepted" ELSE poller.outcome
  BY <1>1 DEF Pollers
<1>3. sample.error = "none" /\ sample.next = Pinned + 1 /\ Failing(sample.checks) = {} /\ poller.outcome # "accepted"
      /\ poller.attempt >= 1
  BY <1>1 DEF PinsInv, PlacesKnown, FailureKept
<1>4. \A i \in Pins : i < sample.next /\ sample.checks[i] = "ready"
  BY <1>3, PinsAssumption DEF Failing, PinsInv, ChecksKnown, Pins
<1>5. strange = {}
  BY <1>1, <1>3, <1>4 DEF PinsInv, PinsTypes, StrangeEnds, NeverRetried
<1>6. \A i \in Pins : ReadyPin(i)
  BY <1>4 DEF PinsInv, ChecksKnown
<1>7. Undecided => diagnostic.state = "converged" /\ diagnostic.events # "pending" /\ diagnostic.logs # "pending"
  BY <1>1 DEF PinsInv, StateKnown, AwaitedNow
<1>8. Undecided' = FALSE
  BY <1>2 DEF Undecided
<1>11. PinsTypes'
  BY <1>1, <1>2 DEF PinsInv, PinsTypes
<1>12. PlacesKnown'
  BY <1>1, <1>2, <1>3, <1>7, <1>8, PinsAssumption DEF PinsInv, PinsTrue, PlacesKnown, Reading,
     AfterFailure, Undecided, Final
<1>13. ChecksKnown'
  BY <1>1, <1>2, <1>3, <1>7, <1>8, PinsAssumption DEF PinsInv, PinsTrue, ChecksKnown, ReadyPin
<1>14. IdentitiesKept'
  BY <1>1, <1>2, <1>3, <1>7, <1>8, PinsAssumption DEF PinsInv, PinsTrue, IdentitiesKept,
     OfAttempt, Reading
<1>15. StrangeEnds'
  BY <1>1, <1>2, <1>3, <1>7, <1>8, PinsAssumption DEF PinsInv, PinsTrue, StrangeEnds
<1>16. FailureKept'
  BY <1>1, <1>2, <1>3, <1>7, <1>8, PinsAssumption DEF PinsInv, PinsTrue, FailureKept,
     FirstShown, Reading, AfterFailure
<1>17. AwaitedNow'
  BY <1>8 DEF AwaitedNow
<1>18. StateKnown'
  BY <1>8 DEF StateKnown
<1>19. BaselineTrue'
  BY <1>1, <1>5, <1>6 DEF BaselineTrue, ReadyPin, Pins
<1>20. FailureShown'
  <2>1. ~Undecided' => /\ diagnostic.state = IF poller'.outcome = "accepted" THEN "converged" ELSE "failed"
                       /\ diagnostic.events # "pending" /\ diagnostic.logs # "pending"
    BY <1>2, <1>3, <1>7 DEF PinsInv, PinsTrue, FailureShown, Undecided
  <2>2. poller'.outcome = "DEADLINE" => poller.outcome = "DEADLINE"
    BY <1>2
  <2> QED
    BY <1>1, <1>2, <2>1, <2>2 DEF PinsInv, PinsTrue, FailureShown
<1> QED
  BY <1>11, <1>12, <1>13, <1>14, <1>15, <1>16, <1>17, <1>18, <1>19, <1>20 DEF PinsInv, PinsTrue

\* The first failure is saved.
LEMMA SaveFailureSafe ==
  ASSUME PinsInv, SaveFailure
  PROVE  PinsInv'
<1>1. poller \in Pollers /\ sample \in Samples /\ poller.at = "saving"
      /\ UNCHANGED <<cluster, firstRead, strange, sample, identities, diagnostic>>
      /\ poller' = [poller EXCEPT !.at = "collecting", !.collected = TRUE]
  BY DEF SaveFailure, PollerAt, PinsInv, PinsTypes
<1>2. poller' \in Pollers /\ poller'.at = "collecting" /\ UNCHANGED <<poller.attempt, poller.pinError, poller.outcome>>
  BY <1>1 DEF Pollers, AfterFailure
<1>3. poller.outcome # "accepted"
  BY <1>1 DEF PinsInv, PlacesKnown
<1>11. PinsTypes'
  BY <1>1, <1>2 DEF PinsInv, PinsTypes
<1>12. PlacesKnown'
  BY <1>1, <1>2, <1>3, PinsAssumption DEF PinsInv, PinsTrue, PlacesKnown, Reading,
     AfterFailure, Undecided, Final
<1>13. ChecksKnown'
  BY <1>1, <1>2, <1>3, PinsAssumption DEF PinsInv, PinsTrue, ChecksKnown, ReadyPin
<1>14. IdentitiesKept'
  BY <1>1, <1>2, <1>3, PinsAssumption DEF PinsInv, PinsTrue, IdentitiesKept, OfAttempt, Reading
<1>15. StrangeEnds'
  BY <1>1, <1>2, <1>3, PinsAssumption DEF PinsInv, PinsTrue, StrangeEnds
<1>16. FailureKept'
  BY <1>1, <1>2, <1>3, PinsAssumption DEF PinsInv, PinsTrue, FailureKept, FirstShown, Reading,
     AfterFailure
<1>17. AwaitedNow'
  BY <1>1, <1>2, <1>3, PinsAssumption DEF PinsInv, PinsTrue, AwaitedNow, Undecided
<1>18. StateKnown'
  BY <1>1, <1>2, <1>3, PinsAssumption DEF PinsInv, PinsTrue, StateKnown, Undecided
<1>19. BaselineTrue'
  BY <1>1, <1>2, <1>3, PinsAssumption DEF PinsInv, PinsTrue, BaselineTrue
<1>20. FailureShown'
  BY <1>1, <1>2, <1>3, PinsAssumption DEF PinsInv, PinsTrue, FailureShown, Undecided
<1> QED
  BY <1>11, <1>12, <1>13, <1>14, <1>15, <1>16, <1>17, <1>18, <1>19, <1>20 DEF PinsInv, PinsTrue

\* Events and logs are collected, of the very Deployments whose failure is shown.
LEMMA CollectedIs ==
  ASSUME PinsInv, CollectPreflightFailure, Undecided
  PROVE  /\ diagnostic' \in Diagnostics /\ UNCHANGED <<diagnostic.state, diagnostic.firstFailure>>
         /\ diagnostic'.events # "pending" /\ diagnostic'.logs # "pending"
         /\ \A target \in diagnostic'.targets :
              /\ target[1] \in Failing(diagnostic.firstFailure.checks)
              /\ target[2] = Identity(diagnostic.firstFailure.got[target[1]])
<1>1. diagnostic \in Diagnostics /\ cluster \in [Pins -> PinObjects]
  BY DEF PinsInv, PinsTypes
<1>2. PICK events \in {"collected", "unavailable"} :
        \/ diagnostic' = [diagnostic EXCEPT !.events = events, !.logs = "unavailable"]
        \/ \E targets \in SUBSET LogTargets :
             /\ \A i \in targets : /\ cluster[i].there
                                   /\ Identity(cluster[i]) = Identity(diagnostic.firstFailure.got[i])
             /\ diagnostic' = [diagnostic EXCEPT !.events = events, !.logs = "captured",
                                 !.targets = {<<i, Identity(cluster[i])>> : i \in targets}]
  BY DEF CollectPreflightFailure
<1>3. CASE diagnostic' = [diagnostic EXCEPT !.events = events, !.logs = "unavailable"]
  <2>1. diagnostic' \in Diagnostics /\ UNCHANGED <<diagnostic.state, diagnostic.firstFailure, diagnostic.targets>>
        /\ diagnostic'.events = events /\ diagnostic'.logs = "unavailable"
    BY <1>1, <1>3 DEF Diagnostics
  <2> QED
    BY <2>1 DEF PinsInv, PinsTrue, FailureShown
<1>4. ASSUME NEW targets \in SUBSET LogTargets,
             \A i \in targets : Identity(cluster[i]) = Identity(diagnostic.firstFailure.got[i]),
             diagnostic' = [diagnostic EXCEPT !.events = events, !.logs = "captured",
                              !.targets = {<<i, Identity(cluster[i])>> : i \in targets}]
      PROVE  /\ diagnostic' \in Diagnostics /\ UNCHANGED <<diagnostic.state, diagnostic.firstFailure>>
             /\ diagnostic'.events # "pending" /\ diagnostic'.logs # "pending"
             /\ \A target \in diagnostic'.targets :
                  /\ target[1] \in Failing(diagnostic.firstFailure.checks)
                  /\ target[2] = Identity(diagnostic.firstFailure.got[target[1]])
  <2> DEFINE T == {<<i, Identity(cluster[i])>> : i \in targets}
  <2>1. targets \subseteq Failing(diagnostic.firstFailure.checks) /\ targets \subseteq Pins
    BY <1>4 DEF LogTargets, Failing
  <2>2. \A i \in Pins : Identity(cluster[i]) \in Identities
    BY <1>1 DEF Identity, Identities, PinObjects
  <2>3. T \in SUBSET (Pins \X Identities)
    BY <2>1, <2>2
  <2>4. \A target \in T : /\ target[1] \in Failing(diagnostic.firstFailure.checks)
                          /\ target[2] = Identity(diagnostic.firstFailure.got[target[1]])
    BY <1>4, <2>1
  <2>5. diagnostic' = [diagnostic EXCEPT !.events = events, !.logs = "captured", !.targets = T]
    BY <1>4
  <2> HIDE DEF T
  <2>6. diagnostic' \in Diagnostics /\ UNCHANGED <<diagnostic.state, diagnostic.firstFailure>>
        /\ diagnostic'.events = events /\ diagnostic'.logs = "captured" /\ diagnostic'.targets = T
    BY <1>1, <2>3, <2>5 DEF Diagnostics
  <2> QED
    BY <2>4, <2>6
<1> QED
  BY <1>2, <1>3, <1>4


\* Events and logs are collected, or come too late.
LEMMA CollectPreflightFailureSafe ==
  ASSUME PinsInv, CollectPreflightFailure
  PROVE  PinsInv'
<1>1. poller.at = "collecting" /\ UNCHANGED <<cluster, firstRead, strange, sample, identities>>
  BY DEF CollectPreflightFailure, PollerAt
<1> SUFFICES ASSUME Undecided PROVE PinsInv'
  BY <1>1, AbandonedSafe DEF CollectPreflightFailure, AfterFailure
<1>2. PollerTo("deciding")
  BY DEF CollectPreflightFailure
<1>3. poller' \in Pollers /\ poller'.at = "deciding"
      /\ UNCHANGED <<poller.attempt, poller.collected, poller.pinError, poller.outcome>>
  BY <1>2, PollerMoves DEF AfterFailure, PollerOtherwise
<1>4. /\ diagnostic' \in Diagnostics /\ UNCHANGED <<diagnostic.state, diagnostic.firstFailure>>
      /\ diagnostic'.events # "pending" /\ diagnostic'.logs # "pending"
      /\ \A target \in diagnostic'.targets :
           /\ target[1] \in Failing(diagnostic.firstFailure.checks)
           /\ target[2] = Identity(diagnostic.firstFailure.got[target[1]])
  BY CollectedIs
<1>5. poller.outcome # "accepted"
  BY <1>1 DEF PinsInv, PlacesKnown
<1>11. PinsTypes'
  BY <1>1, <1>3, <1>4, <1>5, PinsAssumption DEF PinsInv, PinsTrue, PinsTypes, Pollers, Samples,
     Diagnostics, Reading, AfterFailure
<1>12. PlacesKnown'
  BY <1>1, <1>3, <1>4, <1>5, PinsAssumption DEF PinsInv, PinsTrue, PlacesKnown, Reading,
     AfterFailure, Undecided, Final
<1>13. ChecksKnown'
  BY <1>1, <1>3, <1>4, <1>5, PinsAssumption DEF PinsInv, PinsTrue, ChecksKnown, ReadyPin
<1>14. IdentitiesKept'
  BY <1>1, <1>3, <1>4, <1>5, PinsAssumption DEF PinsInv, PinsTrue, IdentitiesKept, OfAttempt,
     Reading
<1>15. StrangeEnds'
  BY <1>1, <1>3, <1>4, <1>5, PinsAssumption DEF PinsInv, PinsTrue, StrangeEnds
<1>16. FailureKept'
  BY <1>1, <1>3, <1>4, <1>5, PinsAssumption DEF PinsInv, PinsTrue, FailureKept, FirstShown,
     Reading, AfterFailure
<1>17. AwaitedNow'
  BY <1>1, <1>3, <1>4, <1>5, PinsAssumption DEF PinsInv, PinsTrue, AwaitedNow, Undecided
<1>18. StateKnown'
  BY <1>1, <1>3, <1>4, <1>5, PinsAssumption DEF PinsInv, PinsTrue, StateKnown, Undecided
<1>19. BaselineTrue'
  BY <1>1, <1>3, <1>4, <1>5, PinsAssumption DEF PinsInv, PinsTrue, BaselineTrue
<1>20. FailureShown'
  BY <1>1, <1>3, <1>4, <1>5, PinsAssumption DEF PinsInv, PinsTrue, FailureShown, Undecided
<1> QED
  BY <1>11, <1>12, <1>13, <1>14, <1>15, <1>16, <1>17, <1>18, <1>19, <1>20 DEF PinsInv, PinsTrue

\* It is tried again, or over.
LEMMA DecideSafe ==
  ASSUME PinsInv, Decide
  PROVE  PinsInv'
<1>1. poller.at \in AfterFailure /\ UNCHANGED <<cluster, firstRead, strange, sample, identities>>
      /\ (poller.at = "deciding" \/ poller.collected) /\ poller.at # "collecting"
  BY DEF Decide, PollerAt, AfterFailure
<1> SUFFICES ASSUME Undecided PROVE PinsInv'
  BY <1>1, AbandonedSafe DEF Decide
<1>2. poller \in Pollers /\ diagnostic \in Diagnostics /\ sample \in Samples
  BY DEF PinsInv, PinsTypes
<1>3. \/ /\ Retryable /\ poller' \in Pollers /\ poller'.at = "idle" /\ poller'.outcome = poller.outcome
         /\ diagnostic' = diagnostic
      \/ /\ ~Retryable /\ poller' \in Pollers /\ poller'.at = "done" /\ diagnostic' = Failed(diagnostic)
         /\ poller'.outcome = IF sample.error = "none" THEN "REVISION" ELSE sample.error
  <2>1. CASE Retryable /\ PollerTo("idle") /\ UNCHANGED diagnostic
    BY <2>1, PollerMoves DEF PollerOtherwise
  <2>2. CASE /\ ~Retryable /\ diagnostic' = Failed(diagnostic)
             /\ poller' = [poller EXCEPT !.at = "done",
                             !.outcome = IF sample.error = "none" THEN "REVISION" ELSE sample.error]
    BY <1>2, <2>2 DEF Pollers, Samples
  <2> QED
    BY <2>1, <2>2 DEF Decide
<1>4. UNCHANGED <<poller.attempt, poller.collected, poller.pinError>>
  BY <1>2 DEF Decide, PollerTo, Pollers
<1>5. /\ diagnostic' \in Diagnostics /\ UNCHANGED <<diagnostic.targets, diagnostic.firstFailure>>
      /\ poller'.at = "done" => /\ diagnostic'.state = "failed" /\ diagnostic'.events # "pending"
                                /\ diagnostic'.logs # "pending"
      /\ poller'.at = "idle" => diagnostic' = diagnostic
  BY <1>2, <1>3, FailedIs
<1>6. Retryable <=> sample.error = "none" /\ ~Final(sample.checks)
  BY DEF Retryable
<1>7. poller.outcome = "none" /\ poller.attempt >= 1 /\ poller'.outcome # "accepted" /\ poller'.outcome # "DEADLINE"
      /\ (poller'.at = "done" => poller'.outcome # "none")
  BY <1>1, <1>2, <1>3 DEF PinsInv, FailureKept, Undecided, Samples, PinErrors
<1>8. sample.error = "none" => sample.next = Pinned + 1 /\ Failing(sample.checks) # {}
  BY <1>1 DEF PinsInv, PlacesKnown, FailureKept
<1>9. diagnostic.events # "pending" /\ diagnostic.logs # "pending"
  BY <1>1 DEF PinsInv, AwaitedNow, AfterFailure
<1>10. \A i \in Pins : i < Pinned + 1
  BY PinsAssumption DEF Pins
<1>11. PinsTypes'
  BY <1>1, <1>2, <1>3, <1>4, <1>5, <1>6, <1>7, <1>8, <1>9, <1>10, PinsAssumption DEF PinsInv,
     PinsTrue, PinsTypes, Pollers, Samples, Diagnostics, Reading, AfterFailure
<1>12. PlacesKnown'
  BY <1>1, <1>2, <1>3, <1>4, <1>5, <1>6, <1>7, <1>8, <1>9, <1>10, PinsAssumption DEF PinsInv,
     PinsTrue, PlacesKnown, Reading, AfterFailure, Undecided, Final
<1>13. ChecksKnown'
  BY <1>1, <1>2, <1>3, <1>4, <1>5, <1>6, <1>7, <1>8, <1>9, <1>10, PinsAssumption DEF PinsInv,
     PinsTrue, ChecksKnown, ReadyPin
<1>14. IdentitiesKept'
  BY <1>1, <1>2, <1>3, <1>4, <1>5, <1>6, <1>7, <1>8, <1>9, <1>10, PinsAssumption DEF PinsInv,
     PinsTrue, IdentitiesKept, OfAttempt, Reading, AfterFailure
<1>15. StrangeEnds'
  BY <1>1, <1>2, <1>3, <1>4, <1>5, <1>6, <1>7, <1>8, <1>9, <1>10, PinsAssumption DEF PinsInv,
     PinsTrue, StrangeEnds, AfterFailure
<1>16. FailureKept'
  BY <1>1, <1>2, <1>3, <1>4, <1>5, <1>6, <1>7, <1>8, <1>9, <1>10, PinsAssumption DEF PinsInv,
     PinsTrue, FailureKept, FirstShown, Reading, AfterFailure
<1>17. AwaitedNow'
  BY <1>1, <1>2, <1>3, <1>4, <1>5, <1>6, <1>7, <1>8, <1>9, <1>10, PinsAssumption DEF PinsInv,
     PinsTrue, AwaitedNow, Undecided
<1>18. StateKnown'
  BY <1>1, <1>2, <1>3, <1>4, <1>5, <1>6, <1>7, <1>8, <1>9, <1>10, PinsAssumption DEF PinsInv,
     PinsTrue, StateKnown, Undecided, AfterFailure
<1>19. BaselineTrue'
  BY <1>1, <1>2, <1>3, <1>4, <1>5, <1>6, <1>7, <1>8, <1>9, <1>10, PinsAssumption DEF PinsInv,
     PinsTrue, BaselineTrue
<1>20. FailureShown'
  BY <1>1, <1>2, <1>3, <1>4, <1>5, <1>6, <1>7, <1>8, <1>9, <1>10, PinsAssumption DEF PinsInv,
     PinsTrue, FailureShown, Undecided
<1> QED
  BY <1>11, <1>12, <1>13, <1>14, <1>15, <1>16, <1>17, <1>18, <1>19, <1>20 DEF PinsInv, PinsTrue

\* The deadline passes.
LEMMA DeadlinePassesSafe ==
  ASSUME PinsInv, DeadlinePasses
  PROVE  PinsInv'
<1>1. Undecided /\ poller.at # "start" /\ UNCHANGED <<cluster, firstRead, strange, sample, identities>>
      /\ diagnostic' = Failed(diagnostic)
      /\ poller' = [poller EXCEPT !.at = IF poller.at = "idle" THEN "done" ELSE poller.at,
                                  !.outcome = IF poller.pinError THEN "REVISION" ELSE "DEADLINE"]
  BY DEF DeadlinePasses, PollerAt
<1>2. poller \in Pollers /\ diagnostic \in Diagnostics
  BY DEF PinsInv, PinsTypes
<1>3. /\ poller' \in Pollers /\ UNCHANGED <<poller.attempt, poller.collected, poller.pinError>>
      /\ poller'.at = IF poller.at = "idle" THEN "done" ELSE poller.at
      /\ poller'.outcome = IF poller.pinError THEN "REVISION" ELSE "DEADLINE"
  BY <1>1, <1>2 DEF Pollers
<1>4. /\ diagnostic' \in Diagnostics /\ UNCHANGED <<diagnostic.targets, diagnostic.firstFailure>>
      /\ diagnostic'.state = "failed" /\ diagnostic'.events # "pending" /\ diagnostic'.logs # "pending"
  BY <1>1, <1>2, FailedIs
<1>5. poller'.outcome # "accepted" /\ ~(Undecided') /\ poller.outcome # "accepted"
  BY <1>1, <1>3 DEF Undecided
<1>6. poller'.outcome = "DEADLINE" =>
         diagnostic.firstFailure = NoFailure \/ diagnostic.firstFailure.error # "none"
  BY <1>2, <1>3 DEF PinsInv, FailureKept, Pollers
<1>11. PinsTypes'
  BY <1>1, <1>2, <1>3, <1>4, <1>5, <1>6, PinsAssumption DEF PinsInv, PinsTrue, PinsTypes,
     Pollers, Samples, Diagnostics, Reading, AfterFailure
<1>12. PlacesKnown'
  BY <1>1, <1>2, <1>3, <1>4, <1>5, <1>6, PinsAssumption DEF PinsInv, PinsTrue, PlacesKnown,
     Reading, AfterFailure, Undecided, Final
<1>13. ChecksKnown'
  BY <1>1, <1>2, <1>3, <1>4, <1>5, <1>6, PinsAssumption DEF PinsInv, PinsTrue, ChecksKnown,
     ReadyPin
<1>14. IdentitiesKept'
  BY <1>1, <1>2, <1>3, <1>4, <1>5, <1>6, PinsAssumption DEF PinsInv, PinsTrue, IdentitiesKept,
     OfAttempt, Reading
<1>15. StrangeEnds'
  BY <1>1, <1>2, <1>3, <1>4, <1>5, <1>6, PinsAssumption DEF PinsInv, PinsTrue, StrangeEnds
<1>16. FailureKept'
  BY <1>1, <1>2, <1>3, <1>4, <1>5, <1>6, PinsAssumption DEF PinsInv, PinsTrue, FailureKept,
     FirstShown, Reading, AfterFailure
<1>17. AwaitedNow'
  BY <1>1, <1>2, <1>3, <1>4, <1>5, <1>6, PinsAssumption DEF PinsInv, PinsTrue, AwaitedNow,
     Undecided
<1>18. StateKnown'
  BY <1>1, <1>2, <1>3, <1>4, <1>5, <1>6, PinsAssumption DEF PinsInv, PinsTrue, StateKnown,
     Undecided
<1>19. BaselineTrue'
  BY <1>1, <1>2, <1>3, <1>4, <1>5, <1>6, PinsAssumption DEF PinsInv, PinsTrue, BaselineTrue
<1>20. FailureShown'
  BY <1>3, <1>4, <1>5, <1>6 DEF PinsInv, PinsTrue, FailureShown
<1> QED
  BY <1>11, <1>12, <1>13, <1>14, <1>15, <1>16, <1>17, <1>18, <1>19, <1>20 DEF PinsInv, PinsTrue

\* Nothing is read at first.
LEMMA PinsStart ==
  ASSUME PinsInit
  PROVE  PinsInv
<1>1. cluster \in [Pins -> PinObjects] /\ \A i \in Pins : cluster[i].uid > 0
  <2>1. \A i \in Pins : Steady(i) \in PinObjects /\ Steady(i).uid = 1
    BY DEF Steady, PinObjects
  <2>2. PICK other \in Pins : \E o \in Unsteady(other) : cluster = [i \in Pins |-> IF i = other THEN o ELSE Steady(i)]
    BY DEF PinsInit
  <2>3. PICK o \in Unsteady(other) : cluster = [i \in Pins |-> IF i = other THEN o ELSE Steady(i)]
    BY <2>2
  <2>4. o \in PinObjects /\ o.uid = 1
    <3>1. CASE other = 0
      <4>1. o = [Steady(other) EXCEPT !.right = FALSE]
        BY <2>3, <3>1 DEF Unsteady
      <4> QED
        BY <2>1, <4>1 DEF PinObjects
    <3>2. CASE other # 0
      <4>1. PICK pods \in PodKinds : o = [Steady(other) EXCEPT !.up = "ready" \in pods, !.pods = pods]
        BY <2>3, <3>2 DEF Unsteady
      <4>2. pods \in SUBSET {"starting", "ready", "wrong"} /\ ("ready" \in pods) \in BOOLEAN
        BY DEF PodKinds
      <4> QED
        BY <2>1, <4>1, <4>2 DEF PinObjects
    <3> QED
      BY <3>1, <3>2
  <2> QED
    BY <2>1, <2>3, <2>4
<1>2. /\ firstRead = [i \in Pins |-> Unknown] /\ identities = [i \in Pins |-> Unknown] /\ strange = {}
      /\ sample = NoSample
      /\ poller = [at |-> "start", attempt |-> 0, collected |-> FALSE, pinError |-> FALSE, outcome |-> "none"]
      /\ diagnostic = [state |-> "observing", attempts |-> 0, firstFailure |-> NoFailure, events |-> "not-needed",
                       logs |-> "not-needed", targets |-> {}]
  BY DEF PinsInit
<1>3. poller \in Pollers /\ poller.at = "start" /\ poller.attempt = 0 /\ poller.outcome = "none"
  BY <1>2 DEF Pollers, PinErrors
<1>4. /\ diagnostic \in Diagnostics /\ diagnostic.state = "observing" /\ diagnostic.firstFailure = NoFailure
      /\ diagnostic.events = "not-needed" /\ diagnostic.logs = "not-needed" /\ diagnostic.targets = {}
  BY <1>2, PinObjectsKnown DEF Diagnostics
<1>5. /\ sample \in Samples /\ sample.next = 0 /\ sample.error = "none" /\ Failing(sample.checks) = {}
      /\ \A i \in Pins : sample.checks[i] = "unread" /\ ~(i < 0) /\ i >= 0
  <2>1. sample = NoSample /\ NoSample.checks = Unchecked /\ NoSample.next = 0 /\ NoSample.error = "none"
    BY <1>2 DEF NoSample
  <2>2. \A i \in Pins : Unchecked[i] = "unread" /\ ~(i < 0) /\ i >= 0
    BY PinsAssumption DEF Unchecked, Pins
  <2> QED
    BY <2>1, <2>2, PinObjectsKnown
<1>6. \A i \in Pins : firstRead[i] = Unknown /\ identities[i] = Unknown
  BY <1>2
<1>7. PinsTypes
  BY <1>1, <1>2, <1>3, <1>4, <1>5, PinObjectsKnown DEF PinsTypes
<1>8. PlacesKnown /\ ChecksKnown
  BY <1>3, <1>5 DEF PlacesKnown, ChecksKnown, Undecided, Final, Reading, AfterFailure
<1>9. IdentitiesKept /\ StrangeEnds
  BY <1>1, <1>2, <1>3, <1>6 DEF IdentitiesKept, StrangeEnds, Reading
<1>10. FailureKept /\ AwaitedNow /\ StateKnown /\ BaselineTrue /\ FailureShown
  BY <1>3, <1>4 DEF FailureKept, AwaitedNow, StateKnown, BaselineTrue, FailureShown, Undecided,
     Reading, AfterFailure
<1> QED
  BY <1>7, <1>8, <1>9, <1>10 DEF PinsInv, PinsTrue

LEMMA PinsStep ==
  ASSUME PinsInv, [PinsNext]_pinsVars
  PROVE  PinsInv'
<1>1. CASE PinsNext
  BY <1>1, ClusterChangesSafe, VerifyConfigurationSafe, BeginAttemptSafe, ListBaselinePodsSafe,
     ListFluxSafe,
     ReadBaselineSafe, GetDeploymentSafe, ListReplicaSetsSafe, ReadFailsSafe, AcceptBaselineSafe, SaveFailureSafe,
     CollectPreflightFailureSafe, DecideSafe, DeadlinePassesSafe, Zenon DEF PinsNext
<1>2. CASE UNCHANGED pinsVars
  BY <1>2 DEF pinsVars, PinsInv, PinsTypes, PlacesKnown, Undecided, ChecksKnown, ReadyPin,
     IdentitiesKept, OfAttempt,
     StrangeEnds, FailureKept, FirstShown, AwaitedNow, StateKnown, PinsTrue, BaselineTrue, FailureShown
<1> QED
  BY <1>1, <1>2

-----------------------------------------------------------------------------
(* What a live run reads.                                                  *)

\* What the GPU tests credit has happened: a validated card is the one the engine ran
\* on, a credited answer comes from a runtime of the saved configuration on the card, a
\* credited stop left nothing running or routed, and the backend is changed only with
\* no runtime and no validation on it (completedValidation, GpuScenario.ready, modelStopped,
\* GpuScenario.restore).  No other workload may take the claim after the validation Pod is
\* done: on a card whose allocator chose a wrong device, its allocation would be seen
\* in the place of the Pod's.  The baseline a live run starts from is that of the
\* pinned objects that were read first, and one that fails says why
\* (waitForDeploymentPins).
THEOREM ReadingsStayTrue ==
  ASSUME LateSharers = FALSE
  PROVE  MCSpec => []ReadingsTrue
<1> DEFINE ReadingsInv == ValidationInv /\ ScenarioInv /\ PinsInv
<1>1. MCInit => ReadingsInv
  BY ValidationStarts, ScenarioStarts, PinsStart DEF MCInit
<1>2. ASSUME ReadingsInv, [MCNext]_all
      PROVE  ReadingsInv'
  <2>1. [ValidationNext]_validationVars /\ [ScenarioNext]_scenarioVars /\ [PinsNext]_pinsVars
    <3>1. CASE InLeaf /\ LeafNext
      BY <3>1, Zenon DEF InLeaf
    <3>2. CASE InCampaign /\ CampaignNext
      BY <3>2, Zenon DEF InCampaign
    <3>3. CASE InDrill /\ DrillNext
      BY <3>3, Zenon DEF InDrill
    <3>4. CASE InValidation /\ ValidationNext
      BY <3>4, Zenon DEF InValidation
    <3>5. CASE InScenario /\ ScenarioNext
      BY <3>5, Zenon DEF InScenario
    <3>6. CASE InLogin /\ LoginNext
      BY <3>6, Zenon DEF InLogin
    <3>7. CASE InPins /\ PinsNext
      BY <3>7, Zenon DEF InPins
    <3>8. CASE UNCHANGED all
      BY <3>8, Zenon DEF all
    <3> QED
      BY <1>2, <3>1, <3>2, <3>3, <3>4, <3>5, <3>6, <3>7, <3>8, Zenon DEF MCNext
  <2> QED
    BY <1>2, <2>1, ValidationStep, ScenarioStep, PinsStep
<1>3. ReadingsInv => ReadingsTrue
  BY ValidationSound DEF ScenarioInv, PinsInv, PinsTrue, ReadingsTrue
<1> HIDE DEF ReadingsInv
<1> QED
  BY <1>1, <1>2, <1>3, PTL DEF MCSpec
=============================================================================
