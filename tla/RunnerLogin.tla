----------------------------- MODULE RunnerLogin -----------------------------
(***************************************************************************)
(* The browser session in which the live tests use the dashboard (auth.ts) *)
(* and the guard that every write of a test passes (live-foundation.ts).   *)
(* The session is bound to the user that signed in first.  It is renewed   *)
(* through the identity provider when it has expired, while clicks of the  *)
(* tests and calls of their clients go on; a session of somebody else      *)
(* closes the browser for good.  Every request of a page is routed: a      *)
(* product write goes on only if the test expects exactly this one of its  *)
(* own objects and the guard lets it.                                      *)
(* A read of the lease or of the session is one step, at its answer.       *)
(***************************************************************************)
EXTENDS Naturals

CONSTANTS
  Callers,       \* requests and guarded calls under way at once
  Intents,       \* kinds of write a test makes: stop, start, edit, key, exact request
  LoginChanges,  \* bound: expired sessions and changes of the account
  LoginFaults    \* bound: failed reads and sign-ins

ASSUME LoginAssumption == LoginChanges \in Nat /\ LoginFaults \in Nat

VARIABLES
  shared,   \* whether calls that meet share one guard (live-foundation) or each has its own
  account,  \* whom the identity provider signs in by the name and password of the run
  cookie,   \* whose session the browser holds, and whether it is valid
  context,  \* the browser: "login", "asking" (whose session it is), "open" or "closed"
  receipt,  \* runnerSessions: the subject bound, signingIn and the failure
  held,     \* the run holds the lab lease
  armed,    \* the writes that the test expects at the moment
  call,     \* of each caller: its request and how far that has got
  loginChanges, loginFaults

loginVars == <<shared, account, cookie, context, receipt, held, armed, call, loginChanges, loginFaults>>

Roles == {"expected", "other"}
Session(user) == [subject |-> user.subject, role |-> user.role, live |-> TRUE]

LoginInit ==
  /\ shared \in BOOLEAN /\ account = [subject |-> 0, role |-> "expected"]
  /\ cookie = [Session(account) EXCEPT !.live = FALSE] /\ context = "login"
  /\ receipt = [subject |-> 0, signingIn |-> FALSE, failed |-> FALSE]
  /\ held = TRUE /\ armed = {} /\ loginChanges = 0 /\ loginFaults = 0
  /\ call \in [Callers -> {[pc |-> "off", what |-> i, own |-> TRUE, loading |-> FALSE] : i \in Intents}]

LoginFault == loginFaults < LoginFaults /\ loginFaults' = loginFaults + 1
LoginChange == loginChanges < LoginChanges /\ loginChanges' = loginChanges + 1

(***************************************************************************)
(* realLogin: the browser is handed out with a verified session.           *)
(***************************************************************************)
FirstSignIn ==
  /\ context = "login" /\ context' = "asking" /\ cookie' = Session(account)
  /\ UNCHANGED <<shared, account, receipt, held, armed, call, loginChanges, loginFaults>>

FirstSession ==
  /\ context = "asking"
  /\ IF cookie.live /\ cookie.role = "expected"
     THEN context' = "open" /\ receipt' = [receipt EXCEPT !.subject = cookie.subject]
     ELSE context' = "closed" /\ UNCHANGED receipt
  /\ UNCHANGED <<shared, account, cookie, held, armed, call, loginChanges, loginFaults>>

LoginFails ==
  /\ context \in {"login", "asking"} /\ LoginFault /\ context' = "closed"
  /\ UNCHANGED <<shared, account, cookie, receipt, held, armed, call, loginChanges>>

(***************************************************************************)
(* Requests.                                                               *)
(***************************************************************************)
CallAt(c, places) == call[c].pc \in places
\* The callers that run a check of the session, and those that run a guard.
Checking == {c \in Callers : CallAt(c, {"reading", "signin", "return", "closing"})}
Guarding == Checking \union {c \in Callers : CallAt(c, {"lease", "wait", "again"})}
\* The ones that wait for the check or for the guard of another.
Waiting == {c \in Callers : CallAt(c, {"wait"})}
Joined == {c \in Callers : CallAt(c, {"join"})}

Moves(S, place) == call' = [c \in Callers |-> IF c \in S THEN [call[c] EXCEPT !.pc = place] ELSE call[c]]
Asks(c, place, i, own, loading) ==
  call' = [call EXCEPT ![c] = [pc |-> place, what |-> i, own |-> own, loading |-> loading]]

\* Mutant: every call runs a guard of its own.
GuardAlone == "lease"
\* A guard under way serves whoever calls it.
Guard == IF shared /\ Guarding # {} THEN "join" ELSE "lease"
\* The heartbeat in the background may know of a lost lease already.
Guarded == {Guard} \union IF held THEN {} ELSE {"refused"}

\* A page that signs in is back on the dashboard.
SigningPage == context = "asking" \/ \E c \in Callers : CallAt(c, {"return"})

\* Method, path, name, UID in the expected revision and every field of the body.
Allowed(i, own) == own /\ i \in armed

\* The routing of a product write by a page; loading: by one that signs in.
PageRequest(c, i, own, loading) ==
  /\ CallAt(c, {"off"}) /\ IF loading THEN SigningPage ELSE context = "open"
  /\ \E place \in IF context # "open" \/ receipt.signingIn \/ ~Allowed(i, own) THEN {"refused"} ELSE Guarded :
       Asks(c, place, i, own, loading)
  /\ UNCHANGED <<shared, account, cookie, context, receipt, held, armed, loginChanges, loginFaults>>

\* A client writes to an object of the run by the name and UID it has journalled.
ClientRequest(c, i) ==
  /\ CallAt(c, {"off"}) /\ context = "open" /\ \E place \in Guarded : Asks(c, place, i, TRUE, FALSE)
  /\ UNCHANGED <<shared, account, cookie, context, receipt, held, armed, loginChanges, loginFaults>>

EndCall(c) ==
  /\ CallAt(c, {"sent", "refused"}) /\ Moves({c}, "off")
  /\ UNCHANGED <<shared, account, cookie, context, receipt, held, armed, loginChanges, loginFaults>>

(***************************************************************************)
(* The guard: the lease, the session, the lease again.                     *)
(***************************************************************************)
\* The guard throws, for everybody who has joined it.
Throws(c) == Moves({c} \union Joined, "refused")

\* ensureDashboardSession, up to its first read.
CheckLease(c) ==
  /\ CallAt(c, {"lease"})
  /\ \/ /\ held /\ ~receipt.failed /\ UNCHANGED loginFaults
        /\ Moves({c}, IF Checking # {} THEN "wait" ELSE "reading")
     \/ ~(held /\ ~receipt.failed) /\ Throws(c) /\ UNCHANGED loginFaults
     \/ LoginFault /\ Throws(c)
  /\ UNCHANGED <<shared, account, cookie, context, receipt, held, armed, loginChanges>>

Verified == cookie.live /\ cookie.role = "expected" /\ cookie.subject = receipt.subject

\* How a check ends, for its caller and everybody who waits for it.
CheckSucceeds(c) == Moves({c} \union Waiting, "again")
CheckThrows(c) == Moves({c} \union Waiting \union Joined, "refused")
\* A lost or changed identity is final.
IdentityLost(c) == Moves({c}, "closing") /\ receipt' = [receipt EXCEPT !.failed = TRUE, !.signingIn = FALSE]
SignInOver == receipt' = [receipt EXCEPT !.signingIn = FALSE]

ReadSession(c) ==
  /\ CallAt(c, {"reading"})
  /\ \/ Verified /\ CheckSucceeds(c) /\ UNCHANGED <<receipt, loginFaults>>
     \/ cookie.live /\ ~Verified /\ IdentityLost(c) /\ UNCHANGED loginFaults
     \/ ~cookie.live /\ Moves({c}, "signin") /\ receipt' = [receipt EXCEPT !.signingIn = TRUE] /\ UNCHANGED loginFaults
     \/ LoginFault /\ CheckThrows(c) /\ UNCHANGED receipt
  /\ UNCHANGED <<shared, account, cookie, context, held, armed, loginChanges>>

\* The password file may be unreadable; any other failure is one of the identity.
DashboardSignIn(c) ==
  /\ CallAt(c, {"signin"})
  /\ \/ Moves({c}, "return") /\ cookie' = Session(account) /\ UNCHANGED <<receipt, loginFaults>>
     \/ LoginFault /\ UNCHANGED cookie /\ (IdentityLost(c) \/ (CheckThrows(c) /\ SignInOver))
  /\ UNCHANGED <<shared, account, context, held, armed, loginChanges>>

ReadRenewed(c) ==
  /\ CallAt(c, {"return"})
  /\ \/ Verified /\ CheckSucceeds(c) /\ SignInOver /\ UNCHANGED loginFaults
     \/ ~Verified /\ IdentityLost(c) /\ UNCHANGED loginFaults
     \/ LoginFault /\ IdentityLost(c)
  /\ UNCHANGED <<shared, account, cookie, context, held, armed, loginChanges>>

CloseContext(c) ==
  /\ CallAt(c, {"closing"}) /\ context' = "closed" /\ CheckThrows(c)
  /\ UNCHANGED <<shared, account, cookie, receipt, held, armed, loginChanges, loginFaults>>

\* A renewed session does not revive a lease that was lost meanwhile.
CheckLeaseAgain(c) ==
  /\ CallAt(c, {"again"})
  /\ \/ held /\ context = "open" /\ Moves({c} \union Joined, "sent") /\ UNCHANGED loginFaults
     \/ ~(held /\ context = "open") /\ Throws(c) /\ UNCHANGED loginFaults
     \/ LoginFault /\ Throws(c)
  /\ UNCHANGED <<shared, account, cookie, context, receipt, held, armed, loginChanges>>

(***************************************************************************)
(* The test, the gateway and the administrators.                           *)
(***************************************************************************)
Arms(expected) ==
  /\ context = "open" /\ expected # armed /\ armed' = expected
  /\ UNCHANGED <<shared, account, cookie, context, receipt, held, call, loginChanges, loginFaults>>

SessionExpires ==
  /\ cookie.live /\ LoginChange /\ cookie' = [cookie EXCEPT !.live = FALSE]
  /\ UNCHANGED <<shared, account, context, receipt, held, armed, call, loginFaults>>

\* The account is made anew, under the same name, or its role changes.
AccountChanges ==
  /\ LoginChange
  /\ \/ account' = [subject |-> account.subject + 1, role |-> "expected"]
     \/ \E r \in Roles \ {account.role} : account' = [account EXCEPT !.role = r]
  /\ UNCHANGED <<shared, cookie, context, receipt, held, armed, call, loginFaults>>

\* A page of the test that is loaded anew is signed in silently as long as the
\* provider knows the user of this browser.
PageRenews ==
  /\ context = "open" /\ ~cookie.live /\ account.subject = cookie.subject /\ cookie' = Session(account)
  /\ UNCHANGED <<shared, account, context, receipt, held, armed, call, loginChanges, loginFaults>>

HeldLost ==
  /\ held /\ held' = FALSE
  /\ UNCHANGED <<shared, account, cookie, context, receipt, armed, call, loginChanges, loginFaults>>

GuardSteps(c) ==
  CheckLease(c) \/ ReadSession(c) \/ DashboardSignIn(c) \/ ReadRenewed(c) \/ CloseContext(c) \/ CheckLeaseAgain(c)
LoginNext ==
  \/ FirstSignIn \/ FirstSession \/ LoginFails
  \/ \E c \in Callers, i \in Intents, own, loading \in BOOLEAN : PageRequest(c, i, own, loading)
  \/ \E c \in Callers, i \in Intents : ClientRequest(c, i)
  \/ \E c \in Callers : GuardSteps(c) \/ EndCall(c)
  \/ (\E expected \in SUBSET Intents : Arms(expected))
  \/ SessionExpires \/ AccountChanges \/ PageRenews \/ HeldLost

LoginSpec == LoginInit /\ [][LoginNext]_loginVars

(***************************************************************************)
(* Properties.                                                             *)
(***************************************************************************)
\* Who waits for the check or the guard of another is not left alone with it.
NobodyStranded == (Waiting # {} => Checking # {}) /\ (Joined # {} => Guarding \ Joined # {})

\* A write that is sent is one of the test on an object of its own, never of a
\* page that signs in, while the lease is held; under the shared guard it never
\* goes out in the session of somebody else.
SendsGuarded ==
  \A c \in Callers : ~CallAt(c, {"sent"}) /\ call'[c].pc = "sent" =>
    /\ call[c].own /\ ~call[c].loading /\ held /\ context = "open"
    /\ shared => cookie.subject = receipt.subject /\ ~receipt.failed

\* Whatever expires, is renewed or changes hands while writes are checked, only
\* guarded writes reach the dashboard, and every check comes to an end for all
\* who wait for it.
LoginGuarded == []NobodyStranded /\ [][SendsGuarded]_loginVars

=============================================================================
