----------------------------- MODULE HostPages -----------------------------
(***************************************************************************)
(* The pages of the dashboard that ask for host operations: computer       *)
(* power, hardware preparation, network, Ubuntu updates, software channel, *)
(* GPU memory and model cache.  Each shows what the last poll reported,    *)
(* opens a review and sends what was reviewed; the host changes meanwhile, *)
(* other administrators act, answers are lost and the review is confirmed  *)
(* again.                                                                  *)
(* One fingerprint stands for that of the section the page shows; the host *)
(* worker that carries the operations out is specified by HostWorker.      *)
(***************************************************************************)
EXTENDS Integers, Sequences, FiniteSets

CONSTANTS
  Reviews,     \* how many requests this browser makes up
  HostEvents,  \* how often others change the host, ask for an operation or the page is left
  PageFaults   \* how many polls fail or answers are lost

VARIABLES
  managed,    \* the host as the API reports it: boot, fingerprint, checked revision, operation
  seenHosts,       \* the last poll, stale if a later one failed
  page,       \* the page on screen
  review,     \* its review: what it was opened with, its request, whether it is being sent
  keepTrial,  \* the "Keep this network configuration" button: under way, done
  asks,       \* requests on their way to the API and back
  reviews, hostEvents, pageFaults

hostPageVars == <<managed, seenHosts, page, review, keepTrial, asks, reviews, hostEvents, pageFaults>>

Pages == {"power", "prepare", "network", "updates", "software", "memory", "cache"}
NoOperation == [req |-> 0, on |-> "", phase |-> "none", kept |-> 0, from |-> 0, asked |-> <<>>, was |-> <<>>]

(***************************************************************************)
(* What a page makes of a poll.                                            *)
(***************************************************************************)
Terminal == {"none", "Succeeded", "Failed", "RolledBack"}
OperationActive(host) == host.op.phase \notin Terminal
\* The memory page has its own list of final phases.
MemoryActive(host) == host.op.phase \notin {"none", "Succeeded", "Failed"}

Sending == review.state # "idle"
\* The host is awaited to report the accepted memory request.
AwaitingObservation(host) == review.accepted # 0 /\ host.op.req # review.accepted
\* The checked revision belongs to the configuration on screen.
Applicable(host) == host.preview.for = host.id

\* The panels: when nothing can be asked for, whether a confirmation is checked
\* against the last poll once more, and what of a request is fixed when its review
\* is opened.
HostPowerPanel(host) ==
  [blocked |-> host.stale \/ OperationActive(host), again |-> FALSE, fixed |-> {"request", "identity"}]
HostPreparation(host) ==
  [blocked |-> host.stale \/ OperationActive(host), again |-> FALSE, fixed |-> {"request", "identity"}]
NetworkEditor(host) ==
  [blocked |-> host.stale \/ OperationActive(host), again |-> TRUE, fixed |-> {}]
HostUpdateEditor(host) ==
  [blocked |-> host.stale \/ OperationActive(host) \/ Sending, again |-> FALSE, fixed |-> {"request", "identity"}]
SoftwareChannelEditor(host) ==
  [blocked |-> host.stale \/ OperationActive(host) \/ Sending, again |-> TRUE, fixed |-> {}]
MemoryControls(host) ==
  [blocked |-> host.stale \/ MemoryActive(host) \/ AwaitingObservation(host), again |-> TRUE, fixed |-> {"request"}]
CachePanel(host) ==
  [blocked |-> host.stale \/ OperationActive(host) \/ Sending, again |-> TRUE, fixed |-> {"request", "identity"}]
PanelOf(p, host) ==
  CASE p = "power" -> HostPowerPanel(host)
    [] p = "prepare" -> HostPreparation(host)
    [] p = "network" -> NetworkEditor(host)
    [] p = "updates" -> HostUpdateEditor(host)
    [] p = "software" -> SoftwareChannelEditor(host)
    [] p = "memory" -> MemoryControls(host)
    [] p = "cache" -> CachePanel(host)
Blocked(p) == PanelOf(p, seenHosts).blocked
Fixed(p, part) == part \in PanelOf(p, seenHosts).fixed

\* The identity a form belongs to: it is made anew when that changes.
Key(p, host) ==
  CASE p = "power" -> <<>> [] p \in {"software", "cache"} -> <<host.boot>> [] OTHER -> <<host.boot, host.id>>

NoReview(p, host) ==
  [key |-> Key(p, host), open |-> FALSE, req |-> 0, n |-> 0, shown |-> <<>>, state |-> "idle", accepted |-> 0, disturbed |-> FALSE]
Shown == <<seenHosts.boot, seenHosts.id, seenHosts.preview.rev>>
Abandoned == {[a EXCEPT !.mine = FALSE] : a \in asks}

Close(r) == [r EXCEPT !.open = FALSE, !.req = 0, !.n = 0, !.shown = <<>>, !.disturbed = FALSE]

\* An effect drops a memory review as soon as the host can take no request.
MemoryReviewDropped(r) == IF r.state = "idle" THEN Close(r) ELSE r
\* A poll is shown: in the same form, or in a new one.
Updated(host, r) ==
  LET out == page = "memory" /\ (host.stale \/ MemoryActive(host)) IN
  IF out THEN MemoryReviewDropped([r EXCEPT !.disturbed = @ \/ (r.open /\ r.state = "idle")]) ELSE r
Render(host, r) ==
  /\ seenHosts' = host
  /\ IF Key(page, host) # r.key THEN review' = NoReview(page, host) /\ asks' = Abandoned
     ELSE review' = Updated(host, r) /\ UNCHANGED asks
Fresh(host) ==
  [boot |-> host.boot, id |-> host.id, preview |-> host.preview, stale |-> FALSE,
   op |-> [req |-> host.op.req, on |-> host.op.on, phase |-> host.op.phase]]

HostPagesInit ==
  /\ managed = [boot |-> 1, id |-> 1, preview |-> [rev |-> 1, for |-> 1], op |-> NoOperation]
  /\ seenHosts = Fresh(managed) /\ page \in Pages
  /\ review = NoReview(page, managed) /\ keepTrial = [pending |-> FALSE, success |-> FALSE] /\ asks = {}
  /\ reviews = 0 /\ hostEvents = 0 /\ pageFaults = 0

Refetched == [review EXCEPT !.state = IF @ = "refetch" THEN "idle" ELSE @]
UseHosts ==
  /\ seenHosts # Fresh(managed) \/ review.state = "refetch"
  /\ Render(Fresh(managed), Refetched)
  /\ UNCHANGED <<managed, page, keepTrial, reviews, hostEvents, pageFaults>>
Fault == pageFaults < PageFaults /\ pageFaults' = pageFaults + 1
PollFails ==
  /\ Fault /\ ~seenHosts.stale /\ seenHosts' = [seenHosts EXCEPT !.stale = TRUE] /\ review' = Updated(seenHosts', Refetched)
  /\ UNCHANGED <<managed, page, keepTrial, asks, reviews, hostEvents>>

(***************************************************************************)
(* Reviews and requests.                                                   *)
(***************************************************************************)
NewRequest == reviews < Reviews /\ reviews' = reviews + 1
ReviewOpens ==
  /\ ~review.open /\ ~Blocked(page) /\ (page = "memory" => ~Sending) /\ (page = "software" => Applicable(seenHosts))
  /\ NewRequest
  /\ review' = [review EXCEPT !.open = TRUE, !.req = reviews', !.n = reviews', !.shown = Shown, !.disturbed = FALSE,
                              !.accepted = 0, !.state = IF page \in {"power", "prepare"} THEN "idle" ELSE @]
  /\ asks' = IF page \in {"power", "prepare"} THEN Abandoned ELSE asks
  /\ UNCHANGED <<managed, seenHosts, page, keepTrial, hostEvents, pageFaults>>
ReviewClosed ==
  /\ review.open /\ review.state # "sent" /\ review' = Close(review)
  /\ UNCHANGED <<managed, seenHosts, page, keepTrial, asks, reviews, hostEvents, pageFaults>>

\* What a page checks once more when the review is confirmed.
StillAllowed(p) ==
  PanelOf(p, seenHosts).again => ~Blocked(p) /\ (p = "software" => Applicable(seenHosts))
RequestOf(p) == IF Fixed(p, "request") THEN review.req ELSE reviews + 1
Ask(p, req, identity, shown) ==
  [on |-> p, req |-> req, identity |-> identity, shown |-> shown, from |-> review.n, disturbed |-> review.disturbed,
   mine |-> TRUE, state |-> "sent"]
ConfirmReview ==
  /\ review.open /\ review.state # "sent" /\ StillAllowed(page)
  /\ LET req == RequestOf(page) IN
     /\ req <= Reviews /\ reviews' = IF req > reviews THEN req ELSE reviews
     /\ asks' = asks \cup {Ask(page, req, IF Fixed(page, "identity") THEN review.shown ELSE Shown,
                               IF page = "software" THEN Shown ELSE review.shown)}
  /\ review' = [review EXCEPT !.state = "sent"]
  /\ UNCHANGED <<managed, seenHosts, page, keepTrial, hostEvents, pageFaults>>

\* Scanning and checking need no review.
RequestCheck ==
  /\ page \in {"network", "updates", "software"} /\ ~Blocked(page) /\ ~Sending /\ ~review.open /\ NewRequest
  /\ asks' = asks \cup {[Ask("check", reviews', Shown, Shown) EXCEPT !.from = reviews']}
  /\ review' = [review EXCEPT !.state = "sent"]
  /\ UNCHANGED <<managed, seenHosts, page, keepTrial, hostEvents, pageFaults>>

(***************************************************************************)
(* The API: create_host_operation and confirm_host_network.                *)
(***************************************************************************)
CurrentHost(a) ==
  /\ a.identity[1] = managed.boot /\ (a.on # "power" => a.identity[2] = managed.id)
  /\ a.on = "software" => a.identity[3] = managed.preview.rev /\ managed.preview.for = managed.id
\* The sections of a configuration that a page's review shows.
Reviewed(p, shown) == CASE p = "power" -> <<shown[1]>> [] p = "software" -> shown [] OTHER -> <<shown[1], shown[2]>>
Answer(a, state) == asks' = (asks \ {a}) \cup {[a EXCEPT !.state = state]}
CreateHostOperation(a) ==
  /\ a.state = "sent" /\ a.on # "keep"
  /\ CASE ~CurrentHost(a) -> Answer(a, "refused") /\ UNCHANGED managed
       [] CurrentHost(a) /\ managed.op.req = a.req -> Answer(a, "ok") /\ UNCHANGED managed
       [] CurrentHost(a) /\ managed.op.req # a.req /\ OperationActive(managed) -> Answer(a, "refused") /\ UNCHANGED managed
       [] OTHER ->
            /\ managed' = [managed EXCEPT !.op =
                 [req |-> a.req, on |-> a.on, phase |-> "Pending", kept |-> 0, from |-> a.from,
                  asked |-> Reviewed(a.on, a.shown), was |-> Reviewed(a.on, <<managed.boot, managed.id, managed.preview.rev>>)]]
            /\ Answer(a, "ok")
  /\ UNCHANGED <<seenHosts, page, review, keepTrial, reviews, hostEvents, pageFaults>>

TrialOf(a) == managed.op.req = a.req /\ managed.op.on = "network" /\ managed.op.phase = "AwaitingConfirmation"
ConfirmHostNetwork(a) ==
  /\ a.state = "sent" /\ a.on = "keep"
  /\ IF TrialOf(a) THEN managed' = [managed EXCEPT !.op.kept = a.req] /\ Answer(a, "ok")
     ELSE UNCHANGED managed /\ Answer(a, "refused")
  /\ UNCHANGED <<seenHosts, page, review, keepTrial, reviews, hostEvents, pageFaults>>

\* The answer of the request the page waits for; a page that was left ignores it.
Settled(a, ok) ==
  /\ asks' = asks \ {a}
  /\ IF ~a.mine THEN UNCHANGED <<review, keepTrial>>
     ELSE IF a.on = "keep" THEN keepTrial' = [pending |-> FALSE, success |-> ok] /\ UNCHANGED review
     ELSE /\ review' = IF ~ok THEN LET r == [review EXCEPT !.state = "idle"] IN
                                  IF a.on = "memory" /\ Blocked("memory") THEN MemoryReviewDropped(r) ELSE r
                       ELSE [Close(review) EXCEPT !.state = "refetch", !.accepted = IF a.on = "memory" THEN a.req ELSE 0]
          /\ UNCHANGED keepTrial
AskAnswered(a) ==
  /\ a.state \in {"ok", "refused"} /\ Settled(a, a.state = "ok")
  /\ UNCHANGED <<managed, seenHosts, page, reviews, hostEvents, pageFaults>>
AskLost(a) ==
  /\ a.state # "sent" /\ Fault /\ Settled(a, FALSE) /\ UNCHANGED <<managed, seenHosts, page, reviews, hostEvents>>

\* "Keep this network configuration" of the trial on screen, as long as its time
\* is not up (an expired trial is rolled back).
KeepOffered == page = "network" /\ seenHosts.op.on = "network" /\ seenHosts.op.phase = "AwaitingConfirmation" /\ ~keepTrial.pending /\ ~keepTrial.success
KeepNetwork ==
  /\ KeepOffered /\ keepTrial' = [keepTrial EXCEPT !.pending = TRUE]
  /\ asks' = asks \cup {[Ask("keep", seenHosts.op.req, Shown, Shown) EXCEPT !.from = 0]}
  /\ UNCHANGED <<managed, seenHosts, page, review, reviews, hostEvents, pageFaults>>

(***************************************************************************)
(* The host and other administrators.                                      *)
(***************************************************************************)
Host(m) == managed' = m /\ UNCHANGED <<seenHosts, page, review, keepTrial, asks, reviews, pageFaults>>
\* The worker brings the operation to an end; a change that succeeds is a new
\* configuration, a restart a new boot, a check a new checked revision.
Finished(m) ==
  CASE m.op.on = "power" -> [m EXCEPT !.boot = @ + 1, !.op.phase = "Succeeded"]
    [] m.op.on = "check" -> [m EXCEPT !.preview = [rev |-> @.rev + 1, for |-> m.id], !.op.phase = "Succeeded"]
    [] OTHER -> [m EXCEPT !.id = @ + 1, !.op.phase = "Succeeded"]
HostWorks ==
  /\ OperationActive(managed) /\ UNCHANGED hostEvents
  /\ \/ managed.op.phase = "Pending" /\ managed.op.on = "network" /\ Host([managed EXCEPT !.op.phase = "AwaitingConfirmation"])
     \/ managed.op.phase = "Pending" /\ managed.op.on # "network" /\ Host(Finished(managed))
     \/ managed.op.phase = "Pending" /\ Host([managed EXCEPT !.op.phase = "Failed"])
     \/ managed.op.phase = "AwaitingConfirmation" /\ managed.op.kept # 0 /\ Host(Finished(managed))
     \/ managed.op.phase = "AwaitingConfirmation" /\ Host([managed EXCEPT !.op.phase = "RolledBack"])
Event == hostEvents < HostEvents /\ hostEvents' = hostEvents + 1
OthersChangeHost == Event /\ Host([managed EXCEPT !.id = @ + 1])
OthersAsk ==
  /\ Event /\ ~OperationActive(managed)
  /\ \E p \in {"network", "check"} : Host([managed EXCEPT !.op = [NoOperation EXCEPT !.req = 0 - hostEvents', !.on = p, !.phase = "Pending"]])
\* A page is left while its request is under way.
NavigateTo(p) ==
  /\ p # page /\ asks # {} /\ Event /\ page' = p /\ review' = NoReview(p, seenHosts) /\ keepTrial' = [pending |-> FALSE, success |-> FALSE]
  /\ asks' = Abandoned /\ UNCHANGED <<managed, seenHosts, reviews, pageFaults>>

HostPagesNext ==
  \/ UseHosts \/ PollFails \/ ReviewOpens \/ ReviewClosed \/ ConfirmReview \/ RequestCheck \/ KeepNetwork
  \/ \E a \in asks : CreateHostOperation(a) \/ ConfirmHostNetwork(a) \/ AskAnswered(a) \/ AskLost(a)
  \/ HostWorks \/ OthersChangeHost \/ OthersAsk \/ \E p \in Pages : NavigateTo(p)

\* The pages poll, calls are answered and the worker goes on.
HostPagesFairness ==
  /\ WF_hostPageVars(UseHosts) /\ WF_hostPageVars(HostWorks)
  /\ WF_hostPageVars(\E a \in asks : CreateHostOperation(a) \/ ConfirmHostNetwork(a) \/ AskAnswered(a))
HostPagesSpec == HostPagesInit /\ [][HostPagesNext]_hostPageVars /\ HostPagesFairness

(***************************************************************************)
(* Properties.                                                             *)
(***************************************************************************)
\* An operation of this browser is carried out on the boot and configuration
\* (and the checked revision) that its review showed, whatever was polled while
\* the review was open and however late the request arrives.
AsReviewed == managed.op.asked = managed.op.was

\* A review that is confirmed again, its answer lost, is not carried out twice in
\* a row, where the request belongs to the review.
ConfirmedOnce ==
  [][managed'.op # managed.op /\ managed'.op.phase = "Pending" /\ managed'.op.on \in {"power", "prepare", "updates", "memory", "cache"}
       => managed'.op.from # managed.op.from]_hostPageVars

\* A change of the memory layout is only sent for a review that saw no other
\* operation and no failed poll: it would describe an outdated layout.
MemoryReviewedAgain == \A a \in asks : a.on = "memory" => ~a.disturbed

\* The trial that is kept is the one that was on screen.
TrialKept == managed.op.kept \in {0, managed.op.req}

PageFree == page = "memory" \/ ~Blocked(page)

\* Every page but that of the memory takes requests again some time after an
\* operation or a failed poll.
PagesUnblock == []<>PageFree

\* A trial that waits for its confirmation can be confirmed, also if another one
\* was confirmed before.
TrialConfirmable ==
  page = "network" /\ seenHosts.op.on = "network" /\ seenHosts.op.phase = "AwaitingConfirmation" /\ ~keepTrial.pending
    /\ (\A a \in asks : a.on # "keep") /\ managed.op.req = seenHosts.op.req /\ managed.op.kept = 0 => KeepOffered

=============================================================================
