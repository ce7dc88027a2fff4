--------------------------- MODULE WebhookProofs ---------------------------
(* What the git webhook promises, for any number of ImageBuilds, requests, *)
(* edits and faults.                                                       *)
EXTENDS GitWebhook, TLAPS

(* Of all the fields of a push, matching and authenticating need these.    *)
Valid(w) == w.post /\ detectProvider(w) # "none" /\ readable(w)

(* Two clone URLs have one identity exactly when they name one repository, *)
(* as far as the URL tells, however they are spelled (repoIdentity).       *)
LEMMA IdentityIsRepo ==
    ASSUME NEW u \in URL, NEW v \in URL
    PROVE  repoIdentity(u) = repoIdentity(v) <=> SameRepo(u, v)
  <1>. DEFINE Plain(x) == [repo |-> x.repo, form |-> x.form, case |-> "lower", tail |-> ""]
  <1>1. ASSUME NEW x \in URL, x.repo \notin Hosted PROVE repoIdentity(x) = Plain(x)
    <2>1. TrimGit(TrimSlashes(x.tail)) = ""
      BY DEF URL, Tails, TrimGit, TrimSlashes
    <2>2. normalizeRepoURL(x) = Plain(x)
      BY <2>1 DEF normalizeRepoURL, Spelled
    <2>. QED
      BY <1>1, <2>2 DEF repoIdentity
  <1>2. ASSUME NEW x \in URL PROVE repoIdentity(x).repo = x.repo
    <2>1. CASE x.repo \in Hosted
      BY <2>1 DEF repoIdentity
    <2>2. CASE x.repo \notin Hosted
      <3>1. repoIdentity(x) = Plain(x)
        BY <1>1, <2>2, Zenon
      <3>2. Plain(x).repo = x.repo
        OBVIOUS
      <3>. QED
        BY <3>1, <3>2, Zenon
    <2>. QED
      BY <2>1, <2>2
  <1>3. ASSUME NEW x \in URL, x.repo \notin Hosted PROVE repoIdentity(x).form = x.form
    <2>1. repoIdentity(x) = Plain(x)
      BY <1>1, <1>3, Zenon
    <2>2. Plain(x).form = x.form
      OBVIOUS
    <2>. QED
      BY <2>1, <2>2, Zenon
  <1>4. repoIdentity(u) = repoIdentity(v) => u.repo = v.repo
    BY <1>2
  <1>5. CASE u.repo = v.repo /\ u.repo \in Hosted
    BY <1>5 DEF repoIdentity, SameRepo
  <1>6. CASE u.repo = v.repo /\ u.repo \notin Hosted
    <2>1. repoIdentity(u) = repoIdentity(v) => u.form = v.form
      BY <1>3, <1>6
    <2>2. u.form = v.form => repoIdentity(u) = repoIdentity(v)
      <3>1. repoIdentity(u) = Plain(u) /\ repoIdentity(v) = Plain(v)
        BY <1>1, <1>6
      <3>2. u.form = v.form => Plain(u) = Plain(v)
        BY <1>6
      <3>. QED
        BY <3>1, <3>2, Zenon
    <2>. QED
      BY <1>6, <2>1, <2>2 DEF SameRepo
  <1>. QED
    BY <1>4, <1>5, <1>6 DEF SameRepo

(* For a readable push, concerning an ImageBuild is matching it and        *)
(* authenticating with its secret.                                         *)
LEMMA ConcernsIsMatch ==
    ASSUME TypeOK, NEW w \in Deliveries, Valid(w), NEW ib \in ImageBuilds
    PROVE  Concerns(w, ib) <=> matches(w, spec[ib]) /\ authenticate(w, secret[ib])
  <1>1. w \in Delivery /\ spec[ib] \in Config
    BY WebhookAssumption DEF TypeOK, ObjectTypes
  <1>2. w.headers # {} /\ w.body = detectProvider(w) /\ w.post
    BY DEF Valid, readable, ReadPushEvent, detectProvider, Detect
  <1>3. \A u \in w.urls : repoIdentity(u) = repoIdentity(spec[ib].url)
                             <=> SameRepo(u, spec[ib].url)
    <2>1. w.urls \subseteq URL /\ spec[ib].url \in URL
      BY <1>1 DEF Delivery, Config
    <2>. QED
      BY <2>1, IdentityIsRepo
  <1>. QED
    BY <1>2, <1>3 DEF Concerns, matches, authenticate

(* The invariant holds before the first request.                           *)
LEMMA InitWebhook == Init => WebhookInv
  <1>. SUFFICES ASSUME Init PROVE WebhookInv
    OBVIOUS
  <1>0. NoEvent \in Event /\ NoEvent.at = 0
    BY DEF NoEvent, Event
  <1>1. TypeOK
    BY <1>0, WebhookAssumption DEF Init, TypeOK, ObjectTypes, RequestTypes, Requests
  <1>2. StoredInv /\ OnlyDueWritten /\ WithheldOnlyByError /\ RecordedWasPushed
    BY <1>0 DEF Init, StoredInv, OnlyDueWritten, WithheldOnlyByError, RecordedWasPushed
  <1>3. ASSUME NEW r \in Requests PROVE RequestInv(r)
    BY WebhookAssumption DEF Init, RequestInv, Requests
  <1>. QED
    BY <1>1, <1>2, <1>3 DEF WebhookInv

-----------------------------------------------------------------------------
(* What the invariant says of the objects and counts.                      *)
Frame ==
    /\ ObjectTypes /\ StoredInv /\ RecordedWasPushed
    /\ received \in 0 .. MaxRequests /\ clock \in Nat
    /\ edits \in 0 .. MaxEdits /\ faults \in 0 .. MaxFaults

Domains ==
    /\ DOMAIN pc = Requests /\ DOMAIN wire = Requests /\ DOMAIN left = Requests
    /\ DOMAIN cur = Requests /\ DOMAIN orig = Requests /\ DOMAIN at = Requests
    /\ DOMAIN answer = Requests /\ DOMAIN written = Requests
    /\ DOMAIN due = Requests /\ DOMAIN touched = Requests

(* What it says of one request.                                            *)
Promise(r) ==
    /\ RequestTypes(r) /\ RequestInv(r)
    /\ written[r] \ touched[r] \subseteq due[r]
    /\ answer[r] \in {202, 400, 401, 405} => due[r] \ touched[r] \subseteq written[r]

(* The invariant, request by request.                                      *)
LEMMA InvParts ==
    WebhookInv <=> Frame /\ Domains /\ \A r \in Requests : Promise(r)
  BY DEF WebhookInv, TypeOK, Frame, Domains, Promise, OnlyDueWritten, WithheldOnlyByError

(* ... and after a step.                                                   *)
LEMMA InvPartsNext ==
    ASSUME Frame', Domains', \A r \in Requests : Promise(r)'
    PROVE  WebhookInv'
  BY DEF WebhookInv, TypeOK, Frame, Domains, Promise, OnlyDueWritten, WithheldOnlyByError

(* A step that leaves a request alone.                                     *)
SameRequest(r) ==
    /\ pc'[r] = pc[r] /\ wire'[r] = wire[r] /\ left'[r] = left[r] /\ cur'[r] = cur[r]
    /\ answer'[r] = answer[r] /\ written'[r] = written[r]
    /\ due'[r] = due[r] /\ touched'[r] = touched[r]
    /\ orig'[r] = orig[r] /\ at'[r] = at[r]

(* A step of one request at most leaves the others alone.                  *)
OnlyAt(r) ==
    /\ Domains'
    /\ UNCHANGED <<spec, secret>>
    /\ \A q \in Requests \ {r} : SameRequest(q) /\ (q > received' <=> q > received)

(* Such a step keeps what the invariant says of the others.                *)
LEMMA OneRequest ==
    ASSUME NEW r \in Requests, WebhookInv, OnlyAt(r), Promise(r)', Frame'
    PROVE  WebhookInv'
  <1>1. ASSUME NEW q \in Requests \ {r} PROVE Promise(q)'
    <2>1. Promise(q) /\ SameRequest(q) /\ UNCHANGED <<spec, secret>> /\ (q > received' <=> q > received)
      BY <1>1, InvParts DEF OnlyAt
    <2>2. RequestTypes(q)'
      BY <2>1 DEF Promise, RequestTypes, SameRequest
    <2>3. RequestInv(q)'
      BY <2>1 DEF Promise, RequestInv, SameRequest
    <2>. QED
      BY <2>1, <2>2, <2>3 DEF Promise, SameRequest
  <1>2. \A q \in Requests : Promise(q)'
    BY <1>1
  <1>. QED
    BY <1>2, InvPartsNext DEF OnlyAt

(* Nothing is stored or written: what is recorded was still pushed.        *)
LEMMA StoredKept ==
    ASSUME WebhookInv, NEW r \in Requests, OnlyAt(r), UNCHANGED <<stored, cache, written>>,
           written[r] # {} => at'[r] = at[r] /\ wire'[r] = wire[r],
           pc'[r] = "patch" => \/ pc[r] = "patch" /\ cur'[r] = cur[r] /\ orig'[r] = orig[r]
                               \/ cur'[r] \in ImageBuilds /\ orig'[r] = cache[cur'[r]],
           pc'[r] \in {"next", "patch"} => at'[r] # 0
    PROVE  StoredInv' /\ RecordedWasPushed'
  <1>0. StoredInv /\ RecordedWasPushed /\ \A q \in Requests \ {r} : SameRequest(q)
    BY InvParts DEF Frame, OnlyAt
  <1>1. StoredInv'
    BY <1>0 DEF StoredInv, SameRequest
  <1>2. ASSUME NEW ib \in ImageBuilds, stored[ib].at # 0
        PROVE  /\ \E q \in Requests : ib \in written[q] /\ at'[q] = stored[ib].at
               /\ \E q \in Requests : ib \in written[q] /\ wire'[q].commit = stored[ib].commit
    <2>1. PICK q \in Requests : ib \in written[q] /\ at[q] = stored[ib].at
      BY <1>0, <1>2 DEF RecordedWasPushed
    <2>2. PICK p \in Requests : ib \in written[p] /\ wire[p].commit = stored[ib].commit
      BY <1>0, <1>2 DEF RecordedWasPushed
    <2>. QED
      BY <1>0, <2>1, <2>2 DEF SameRequest
  <1>. QED
    BY <1>1, <1>2 DEF RecordedWasPushed

(* A new request.                                                          *)
LEMMA ReceiveInv ==
    ASSUME WebhookInv, NEW w \in Deliveries, Receive(w)
    PROVE  WebhookInv'
  <1>0. Frame /\ Domains /\ \A q \in Requests : Promise(q)
    BY InvParts
  <1>r. PICK r \in Requests : r = received + 1
    BY DEF Receive
  <1>1. /\ received' = r /\ wire' = [wire EXCEPT ![r] = w]
        /\ UNCHANGED <<spec, secret, stored, cache, left, cur, orig, at, written,
                       due, touched, clock, edits, faults>>
    BY <1>r DEF Receive, objects, ghosts
  <1>2. pc[r] = "none" /\ received \in Nat
    BY <1>0, <1>r, WebhookAssumption DEF Promise, RequestInv, Frame, Requests
  <1>3. \/ \E code \in {400, 405} : /\ pc' = [pc EXCEPT ![r] = "done"]
                                     /\ answer' = [answer EXCEPT ![r] = code]
        \/ pc' = [pc EXCEPT ![r] = "list"] /\ UNCHANGED answer /\ Valid(w)
    BY <1>r, Zenon DEF Receive, Answer, Valid
  <1>4. /\ wire'[r] = w /\ Promise(r) /\ written[r] = {} /\ due[r] = {} /\ touched[r] = {}
        /\ \/ pc'[r] = "done" /\ answer'[r] \in {400, 405}
           \/ pc'[r] = "list" /\ answer'[r] = 0 /\ Valid(w)
    BY <1>0, <1>1, <1>2, <1>3 DEF Domains, Promise, RequestInv
  <1>5. OnlyAt(r)
    <2>1. Domains'
      BY <1>0, <1>1, <1>3 DEF Domains
    <2>2. \A q \in Requests \ {r} : SameRequest(q)
      BY <1>0, <1>1, <1>3 DEF SameRequest, Domains
    <2>3. \A q \in Requests \ {r} : q > received' <=> q > received
      BY <1>1, <1>2, <1>r DEF Requests
    <2>. QED
      BY <1>1, <2>1, <2>2, <2>3 DEF OnlyAt
  <1>6. Promise(r)'
    <2>1. RequestTypes(r)'
      BY <1>1, <1>4 DEF Promise, RequestTypes
    <2>2. RequestInv(r)'
      BY <1>1, <1>2, <1>4, <1>r DEF Promise, RequestInv, Valid
    <2>. QED
      BY <1>1, <1>4, <2>1, <2>2 DEF Promise
  <1>7. Frame'
    <2>1. StoredInv' /\ RecordedWasPushed'
      BY <1>1, <1>4, <1>5, StoredKept
    <2>2. ObjectTypes'
      BY <1>0, <1>1 DEF Frame, ObjectTypes
    <2>. QED
      BY <1>0, <1>1, <1>r, <2>1, <2>2 DEF Frame, Requests
  <1>. QED
    BY <1>5, <1>6, <1>7, OneRequest

(* What a step may leave alone besides.                                    *)
Quiet == UNCHANGED <<spec, secret, stored, cache, received, edits>> /\ faults' \in 0 .. MaxFaults

(* A failure that is counted stays within its bound.                       *)
LEMMA FaultBound ==
    ASSUME Frame, Fault \/ UNCHANGED faults
    PROVE  faults' \in 0 .. MaxFaults
  BY WebhookAssumption DEF Frame, Fault

(* A request does no more than answer, and knows at last whom it was due.  *)
Answers(r, code, d) ==
    /\ pc[r] \in {"list", "next", "patch"} /\ code \in {0, 202, 401, 500}
    /\ pc' = [pc EXCEPT ![r] = "done"] /\ answer' = [answer EXCEPT ![r] = code]
    /\ Quiet /\ UNCHANGED <<wire, left, cur, orig, at, written, touched, clock>>
    /\ due'[r] = d /\ DOMAIN due' = DOMAIN due /\ \A q \in Requests \ {r} : due'[q] = due[q]
    /\ d \subseteq ImageBuilds
    /\ written[r] \ touched[r] \subseteq d
    /\ code \in {202, 401} => d \ touched[r] \subseteq written[r]

(* Such a step keeps the invariant.                                        *)
LEMMA AnswerInv ==
    ASSUME WebhookInv, NEW r \in Requests, NEW code, NEW d, Answers(r, code, d)
    PROVE  WebhookInv'
  <1>. USE DEF Answers
  <1>0. Frame /\ Domains /\ Promise(r) /\ due'[r] = d
    BY InvParts DEF Domains
  <1>1. pc'[r] = "done" /\ answer'[r] = code /\ UNCHANGED <<spec, secret, received>>
    BY <1>0 DEF Domains, Quiet
  <1>2. OnlyAt(r)
    <2>1. Domains'
      BY <1>0 DEF Domains
    <2>2. \A q \in Requests \ {r} : SameRequest(q)
      BY <1>0 DEF SameRequest, Domains
    <2>. QED
      BY <1>1, <2>1, <2>2 DEF OnlyAt
  <1>3. RequestTypes(r)'
    BY <1>0, <1>1 DEF Promise, RequestTypes
  <1>4. RequestInv(r)'
    BY <1>0, <1>1 DEF Promise, RequestInv
  <1>5. Promise(r)'
    BY <1>0, <1>1, <1>3, <1>4 DEF Promise
  <1>6. Frame'
    <2>1. StoredInv' /\ RecordedWasPushed'
      BY <1>1, <1>2, StoredKept DEF Quiet
    <2>2. ObjectTypes'
      BY <1>0 DEF Frame, ObjectTypes, Quiet
    <2>. QED
      BY <1>0, <2>1, <2>2 DEF Frame, Quiet
  <1>. QED
    BY <1>2, <1>5, <1>6, OneRequest

(* List and match.                                                         *)
LEMMA ListInv ==
    ASSUME WebhookInv, NEW r \in Requests, ListMatches(r)
    PROVE  WebhookInv'
  <1>. DEFINE found == {ib \in ImageBuilds : matches(wire[r], spec[ib])}
              meant == {ib \in ImageBuilds : Concerns(wire[r], ib)}
  <1>0. Frame /\ Domains /\ Promise(r) /\ TypeOK
    BY InvParts DEF WebhookInv
  <1>1. /\ pc[r] = "list" /\ due' = [due EXCEPT ![r] = meant]
        /\ UNCHANGED <<spec, secret, stored, cache, wire, cur, orig, written, touched, received, edits>>
    BY DEF ListMatches, objects
  <1>2. /\ wire[r] \in Deliveries /\ Valid(wire[r])
        /\ written[r] = {} /\ touched[r] = {} /\ answer[r] = 0
    BY <1>0, <1>1 DEF Promise, RequestTypes, RequestInv, Valid
  <1>3. \A ib \in ImageBuilds :
          ib \in meant <=> ib \in found /\ authenticate(wire[r], secret[ib])
    BY <1>0, <1>2, ConcernsIsMatch
  <1>4. due'[r] = meant
    BY <1>0, <1>1 DEF Domains
  <1>5. meant \subseteq ImageBuilds /\ found \subseteq ImageBuilds
    OBVIOUS
  <1>6. \A ib \in found : matches(wire[r], spec[ib])
    OBVIOUS
  <1>7. ListMatches(r) =>
          \/ /\ Fault /\ Answer(r, 500) /\ UNCHANGED <<left, at, clock>>
          \/ /\ found = {} /\ Answer(r, 202) /\ UNCHANGED <<left, at, clock, faults>>
          \/ /\ found # {} /\ pc' = [pc EXCEPT ![r] = "next"]
             /\ left' = [left EXCEPT ![r] = found]
             /\ clock' = clock + 1 /\ at' = [at EXCEPT ![r] = clock + 1]
             /\ UNCHANGED <<answer, faults>>
    BY DEF ListMatches
  <1>. HIDE DEF found, meant
  <1>8. CASE Fault /\ Answer(r, 500) /\ UNCHANGED <<left, at, clock>>
    <2>1. Quiet
      BY <1>0, <1>1, <1>8, FaultBound DEF Quiet
    <2>2. Answers(r, 500, meant)
      BY <1>0, <1>1, <1>2, <1>4, <1>5, <1>8, <2>1 DEF Answers, Answer, Domains
    <2>. QED
      BY <2>2, AnswerInv
  <1>9. CASE found = {} /\ Answer(r, 202) /\ UNCHANGED <<left, at, clock, faults>>
    <2>1. Quiet
      BY <1>0, <1>1, <1>9, FaultBound DEF Quiet
    <2>2. meant = {}
      BY <1>3, <1>5, <1>9
    <2>3. Answers(r, 202, meant)
      BY <1>0, <1>1, <1>2, <1>4, <1>9, <2>1, <2>2 DEF Answers, Answer, Domains
    <2>. QED
      BY <2>3, AnswerInv
  <1>10. CASE /\ found # {} /\ pc' = [pc EXCEPT ![r] = "next"]
              /\ left' = [left EXCEPT ![r] = found]
              /\ clock' = clock + 1 /\ at' = [at EXCEPT ![r] = clock + 1]
              /\ UNCHANGED <<answer, faults>>
    <2>1. /\ pc'[r] = "next" /\ left'[r] = found /\ at'[r] = clock + 1
          /\ at'[r] \in Nat \ {0} /\ clock' \in Nat
      BY <1>0, <1>10 DEF Domains, Frame
    <2>2. OnlyAt(r)
      <3>1. Domains'
        BY <1>0, <1>1, <1>10 DEF Domains
      <3>2. \A q \in Requests \ {r} : SameRequest(q)
        BY <1>0, <1>1, <1>10 DEF SameRequest, Domains
      <3>. QED
        BY <1>1, <3>1, <3>2 DEF OnlyAt
    <2>3. RequestTypes(r)'
      BY <1>0, <1>1, <1>2, <1>4, <1>5, <1>10, <2>1 DEF Promise, RequestTypes
    <2>4. RequestInv(r)'
      <3>2. meant \subseteq found
        BY <1>3, <1>5
      <3>3. Valid(wire[r]) /\ (r > received <=> FALSE)
        BY <1>0, <1>1, <1>2 DEF Promise, RequestInv
      <3>. QED
        <4>1. /\ pc'[r] = "next" /\ answer'[r] = 0 /\ wire'[r] = wire[r] /\ left'[r] = found
              /\ due'[r] = meant /\ touched'[r] = {} /\ written'[r] = {}
          BY <1>1, <1>2, <1>4, <1>10, <2>1
        <4>2. \A ib \in left'[r] \ touched'[r] :
                /\ matches(wire'[r], spec'[ib])
                /\ ib \in due'[r] <=> authenticate(wire'[r], secret'[ib])
          <5>. SUFFICES ASSUME NEW ib \in found
                        PROVE  /\ matches(wire[r], spec[ib])
                               /\ ib \in meant <=> authenticate(wire[r], secret[ib])
            BY <1>1, <4>1, Zenon
          <5>1. matches(wire[r], spec[ib])
            BY <1>6
          <5>2. ib \in meant <=> authenticate(wire[r], secret[ib])
            BY <1>3, <1>5
          <5>. QED
            BY <5>1, <5>2
        <4>. QED
          BY <1>1, <3>2, <3>3, <4>1, <4>2 DEF RequestInv, Valid
    <2>5. Promise(r)'
      BY <1>1, <1>2, <1>10, <2>3, <2>4 DEF Promise
    <2>6. Frame'
      <3>1. StoredInv' /\ RecordedWasPushed'
        BY <1>1, <1>2, <2>1, <2>2, StoredKept
      <3>2. ObjectTypes'
        BY <1>0, <1>1 DEF Frame, ObjectTypes
      <3>. QED
        BY <1>0, <1>1, <1>10, <2>1, <3>1, <3>2 DEF Frame
    <2>. QED
      BY <2>2, <2>5, <2>6, OneRequest
  <1>. QED
    BY <1>7, <1>8, <1>9, <1>10

-----------------------------------------------------------------------------
(* The loop.                                                               *)

(* A request that answers and leaves its other state alone.                *)
LEMMA JustAnswers ==
    ASSUME WebhookInv, NEW r \in Requests, NEW code \in {0, 202, 401, 500},
           pc[r] \in {"list", "next", "patch"}, Answer(r, code), Quiet,
           UNCHANGED <<wire, left, cur, orig, at, written, touched, due, clock>>,
           code \in {202, 401} => due[r] \ touched[r] \subseteq written[r]
    PROVE  Answers(r, code, due[r])
  <1>0. Promise(r)
    BY InvParts
  <1>. QED
    BY <1>0 DEF Answers, Answer, Promise, RequestTypes

(* One secret that cannot be read.                                         *)
LEMMA SecretFailsInv ==
    ASSUME WebhookInv, NEW r \in Requests, NEW ib \in ImageBuilds, SecretFails(r, ib)
    PROVE  WebhookInv'
  <1>0. Frame
    BY InvParts
  <1>1. /\ pc[r] = "next" /\ Answer(r, 500) /\ (Fault \/ UNCHANGED faults)
        /\ UNCHANGED <<wire, left, cur, orig, at, written, touched, due, clock>>
        /\ UNCHANGED <<spec, secret, stored, cache, received, edits>>
    BY Zenon DEF SecretFails, objects, ghosts
  <1>2. Quiet
    BY <1>0, <1>1, FaultBound DEF Quiet
  <1>3. Answers(r, 500, due[r])
    BY <1>1, <1>2, JustAnswers
  <1>. QED
    BY <1>3, AnswerInv

(* The operator dies under the request.                                    *)
LEMMA DiesInv ==
    ASSUME WebhookInv, NEW r \in Requests, Dies(r)
    PROVE  WebhookInv'
  <1>0. Frame
    BY InvParts
  <1>1. /\ pc[r] \in {"list", "next", "patch"} /\ Answer(r, 0) /\ Fault
        /\ UNCHANGED <<wire, left, cur, orig, at, written, touched, due, clock>>
        /\ UNCHANGED <<spec, secret, stored, cache, received, edits>>
    BY Zenon DEF Dies, objects, ghosts
  <1>2. Quiet
    BY <1>0, <1>1, FaultBound DEF Quiet
  <1>3. Answers(r, 0, due[r])
    BY <1>1, <1>2, JustAnswers
  <1>. QED
    BY <1>3, AnswerInv

(* The end of the loop: nobody who was due is left.                        *)
LEMMA FinishInv ==
    ASSUME WebhookInv, NEW r \in Requests, Finish(r)
    PROVE  WebhookInv'
  <1>0. Frame /\ Promise(r)
    BY InvParts
  <1>1. /\ pc[r] = "next" /\ left[r] = {} /\ UNCHANGED faults
        /\ UNCHANGED <<wire, left, cur, orig, at, written, touched, due, clock>>
        /\ UNCHANGED <<spec, secret, stored, cache, received, edits>>
    BY Zenon DEF Finish, objects, ghosts
  <1>2. PICK code \in {202, 401} : Answer(r, code)
    BY DEF Finish
  <1>3. Quiet
    BY <1>0, <1>1, FaultBound DEF Quiet
  <1>4. due[r] \ touched[r] \subseteq written[r]
    BY <1>0, <1>1 DEF Promise, RequestInv
  <1>5. Answers(r, code, due[r])
    BY <1>1, <1>2, <1>3, <1>4, JustAnswers
  <1>. QED
    BY <1>5, AnswerInv

(* A match whose secret is another one is passed over: it was not due.     *)
LEMMA UnauthenticatedInv ==
    ASSUME WebhookInv, NEW r \in Requests, NEW ib \in ImageBuilds, Unauthenticated(r, ib)
    PROVE  WebhookInv'
  <1>0. Frame /\ Domains /\ Promise(r)
    BY InvParts
  <1>1. /\ pc[r] = "next" /\ ib \in left[r] /\ ~authenticate(wire[r], secret[ib])
        /\ left' = [left EXCEPT ![r] = left[r] \ {ib}]
        /\ UNCHANGED <<pc, wire, cur, orig, at, answer, written, touched, due>>
        /\ UNCHANGED <<spec, secret, stored, cache, received, clock, edits, faults>>
    BY Zenon DEF Unauthenticated, objects, ghosts
  <1>2. left'[r] = left[r] \ {ib}
    BY <1>0, <1>1 DEF Domains
  <1>3. OnlyAt(r)
    <2>1. Domains'
      BY <1>0, <1>1 DEF Domains
    <2>2. \A q \in Requests \ {r} : SameRequest(q)
      BY <1>0, <1>1 DEF SameRequest, Domains
    <2>. QED
      BY <1>1, <2>1, <2>2 DEF OnlyAt
  <1>4. ib \in touched[r] \/ ib \notin due[r]
    BY <1>0, <1>1 DEF Promise, RequestInv
  <1>5. RequestTypes(r)'
    BY <1>0, <1>1, <1>2 DEF Promise, RequestTypes
  <1>6. RequestInv(r)'
    BY <1>0, <1>1, <1>2, <1>4 DEF Promise, RequestInv
  <1>7. Promise(r)'
    BY <1>0, <1>1, <1>5, <1>6 DEF Promise
  <1>8. Frame'
    <2>1. at'[r] # 0
      BY <1>0, <1>1 DEF Frame, StoredInv
    <2>2. StoredInv' /\ RecordedWasPushed'
      BY <1>1, <1>3, <2>1, StoredKept
    <2>. QED
      BY <1>0, <1>1, <2>2 DEF Frame, ObjectTypes
  <1>. QED
    BY <1>3, <1>7, <1>8, OneRequest

(* A match that authenticates is read again before it is patched.          *)
LEMMA AuthenticatedInv ==
    ASSUME WebhookInv, NEW r \in Requests, NEW ib \in ImageBuilds, Authenticated(r, ib)
    PROVE  WebhookInv'
  <1>0. Frame /\ Domains /\ Promise(r)
    BY InvParts
  <1>1. /\ pc[r] = "next" /\ ib \in left[r] /\ authenticate(wire[r], secret[ib])
        /\ UNCHANGED <<wire, left, at, written, touched, due, clock>>
        /\ UNCHANGED <<spec, secret, stored, cache, received, edits, faults>>
    BY Zenon DEF Authenticated, objects, ghosts
  <1>2. Quiet
    BY <1>0, <1>1, FaultBound DEF Quiet
  <1>3. CASE Answer(r, 500) /\ UNCHANGED <<cur, orig>>
    <2>1. Answers(r, 500, due[r])
      BY <1>1, <1>2, <1>3, JustAnswers
    <2>. QED
      BY <2>1, AnswerInv
  <1>4. CASE /\ pc' = [pc EXCEPT ![r] = "patch"] /\ cur' = [cur EXCEPT ![r] = ib]
             /\ orig' = [orig EXCEPT ![r] = cache[ib]] /\ UNCHANGED answer
    <2>1. /\ pc'[r] = "patch" /\ cur'[r] = ib /\ orig'[r] = cache[ib]
          /\ cache[ib] \in Event
      BY <1>0, <1>4 DEF Domains, Frame, ObjectTypes
    <2>2. OnlyAt(r)
      <3>1. Domains'
        BY <1>0, <1>1, <1>4 DEF Domains
      <3>2. \A q \in Requests \ {r} : SameRequest(q)
        BY <1>0, <1>1, <1>4 DEF SameRequest, Domains
      <3>. QED
        BY <1>1, <3>1, <3>2 DEF OnlyAt
    <2>3. ib \in due[r] \cup touched[r]
      BY <1>0, <1>1 DEF Promise, RequestInv
    <2>4. RequestTypes(r)'
      BY <1>0, <1>1, <1>4, <2>1 DEF Promise, RequestTypes
    <2>5. RequestInv(r)'
      BY <1>0, <1>1, <1>4, <2>1, <2>3 DEF Promise, RequestInv
    <2>6. Promise(r)'
      BY <1>0, <1>1, <1>4, <2>4, <2>5 DEF Promise
    <2>7. Frame'
      <3>1. at'[r] # 0
        BY <1>0, <1>1 DEF Frame, StoredInv
      <3>2. StoredInv' /\ RecordedWasPushed'
        BY <1>1, <2>1, <2>2, <3>1, StoredKept
      <3>. QED
        BY <1>0, <1>1, <3>2 DEF Frame, ObjectTypes
    <2>. QED
      BY <2>2, <2>6, <2>7, OneRequest
  <1>5. \/ Answer(r, 500) /\ UNCHANGED <<cur, orig>>
        \/ /\ pc' = [pc EXCEPT ![r] = "patch"] /\ cur' = [cur EXCEPT ![r] = ib]
           /\ orig' = [orig EXCEPT ![r] = cache[ib]] /\ UNCHANGED answer
    BY Zenon DEF Authenticated
  <1>. QED
    BY <1>3, <1>4, <1>5

(* The patch of a request replaces the time and, unless the request read   *)
(* the same one, the commit.                                               *)
LEMMA AppliedStored ==
    ASSUME WebhookInv, NEW r \in Requests, pc[r] = "patch", pc'[r] # "patch", OnlyAt(r),
           Applied(r), UNCHANGED <<wire, at, cache>>
    PROVE  StoredInv' /\ RecordedWasPushed' /\ stored' \in [ImageBuilds -> Event]
  <1>0. Frame /\ Domains /\ Promise(r) /\ \A q \in Requests \ {r} : SameRequest(q)
    BY InvParts DEF OnlyAt
  <1>1. PICK c \in ImageBuilds : c = cur[r]
    BY <1>0 DEF Promise, RequestTypes
  <1>. DEFINE old == stored[c]
              new == MergeEvent(old, orig[r], [commit |-> wire[r].commit, at |-> at[r]])
  <1>2. stored' = [stored EXCEPT ![c] = new] /\ written' = [written EXCEPT ![r] = written[r] \cup {c}]
    BY <1>1 DEF Applied
  <1>3. /\ at[r] \in Nat \ {0} /\ wire[r].commit \in Commits /\ old \in Event
        /\ orig[r].at # 0 => old.at # 0
    BY <1>0, <1>1, WebhookAssumption
    DEF Frame, StoredInv, ObjectTypes, Promise, RequestTypes, Delivery
  <1>4. /\ new \in Event /\ new.at = at[r]
        /\ new.commit = wire[r].commit \/ (new.commit = old.commit /\ old.at # 0)
    BY <1>3 DEF MergeEvent, Event
  <1>. HIDE DEF new, old
  <1>5. /\ stored' \in [ImageBuilds -> Event] /\ stored'[c] = new
        /\ \A ib \in ImageBuilds \ {c} : stored'[ib] = stored[ib]
    BY <1>0, <1>2, <1>4 DEF Frame, ObjectTypes
  <1>6. /\ written'[r] = written[r] \cup {c}
        /\ \A q \in Requests : written[q] \subseteq written'[q]
    BY <1>0, <1>2 DEF Domains, SameRequest
  <1>7. StoredInv'
    <2>0. StoredInv /\ UNCHANGED cache /\ new.at # 0
      BY <1>0, <1>3, <1>4 DEF Frame
    <2>1. \A ib \in ImageBuilds : stored[ib].at # 0 => stored'[ib].at # 0
      BY <1>5, <2>0
    <2>2. \A q \in Requests : pc'[q] = "patch" =>
            pc[q] = "patch" /\ cur'[q] = cur[q] /\ orig'[q] = orig[q] /\ cur[q] \in ImageBuilds
      <3>1. \A q \in Requests : RequestTypes(q)
        BY InvParts DEF Promise
      <3>. QED
        BY <1>0, <3>1 DEF SameRequest, RequestTypes
    <2>3. \A q \in Requests : pc'[q] \in {"next", "patch"} => at'[q] # 0
      BY <1>0, <1>3, <2>0 DEF SameRequest, StoredInv
    <2>. QED
      BY <2>0, <2>1, <2>2, <2>3 DEF StoredInv
  <1>8. ASSUME NEW ib \in ImageBuilds, stored'[ib].at # 0
        PROVE  /\ \E q \in Requests : ib \in written'[q] /\ at[q] = stored'[ib].at
               /\ \E q \in Requests : ib \in written'[q] /\ wire[q].commit = stored'[ib].commit
    <2>0. stored[ib].at # 0 =>
            /\ \E q \in Requests : ib \in written[q] /\ at[q] = stored[ib].at
            /\ \E q \in Requests : ib \in written[q] /\ wire[q].commit = stored[ib].commit
      BY <1>0 DEF Frame, RecordedWasPushed
    <2>1. CASE ib # c
      BY <1>5, <1>6, <1>8, <2>0, <2>1
    <2>2. CASE ib = c
      <3>1. \E q \in Requests : ib \in written'[q] /\ at[q] = stored'[ib].at
        BY <1>4, <1>5, <1>6, <2>2
      <3>2. CASE new.commit = wire[r].commit
        BY <1>5, <1>6, <2>2, <3>1, <3>2
      <3>3. CASE new.commit = old.commit /\ old.at # 0
        BY <1>5, <1>6, <2>0, <2>2, <3>1, <3>3 DEF old
      <3>. QED
        BY <1>4, <3>2, <3>3
    <2>. QED
      BY <2>1, <2>2
  <1>. QED
    BY <1>5, <1>7, <1>8 DEF RecordedWasPushed

(* The patch itself: applied, refused, or failed either way.               *)
LEMMA PatchInv ==
    ASSUME WebhookInv, NEW r \in Requests, patchOnCommitStatus(r)
    PROVE  WebhookInv'
  <1>0. Frame /\ Domains /\ Promise(r)
    BY InvParts
  <1>1. /\ pc[r] = "patch" /\ (Fault \/ UNCHANGED faults)
        /\ UNCHANGED <<wire, cur, orig, at, touched, due, clock>>
        /\ UNCHANGED <<spec, secret, cache, received, edits>>
    BY Zenon DEF patchOnCommitStatus, ghosts
  <1>2. /\ faults' \in 0 .. MaxFaults
        /\ cur[r] \in left[r] /\ cur[r] \in ImageBuilds /\ cur[r] \in due[r] \cup touched[r]
    BY <1>0, <1>1, FaultBound DEF Promise, RequestTypes, RequestInv
  <1>3. CASE Answer(r, 500) /\ UNCHANGED <<stored, written, left>>
    <2>1. Quiet
      BY <1>1, <1>2, <1>3 DEF Quiet
    <2>2. Answers(r, 500, due[r])
      BY <1>1, <1>3, <2>1, JustAnswers
    <2>. QED
      BY <2>2, AnswerInv
  <1>4. CASE /\ Applied(r)
             /\ \/ /\ pc' = [pc EXCEPT ![r] = "next"] /\ UNCHANGED answer
                   /\ left' = [left EXCEPT ![r] = left[r] \ {cur[r]}]
                \/ Answer(r, 500) /\ UNCHANGED left
    <2>1. written' = [written EXCEPT ![r] = written[r] \cup {cur[r]}]
      BY <1>4 DEF Applied
    <2>2. \/ pc'[r] = "next" /\ answer'[r] = 0 /\ left'[r] = left[r] \ {cur[r]}
          \/ pc'[r] = "done" /\ answer'[r] = 500 /\ left'[r] = left[r]
      BY <1>0, <1>1, <1>4 DEF Domains, Answer, Promise, RequestInv
    <2>3. written'[r] = written[r] \cup {cur[r]}
      BY <1>0, <2>1 DEF Domains
    <2>4. OnlyAt(r)
      <3>1. Domains'
        BY <1>0, <1>1, <1>4, <2>1 DEF Domains, Answer
      <3>2. \A q \in Requests \ {r} :
              /\ pc'[q] = pc[q] /\ answer'[q] = answer[q] /\ left'[q] = left[q]
              /\ written'[q] = written[q]
        BY <1>0, <1>4, <2>1 DEF Domains, Answer
      <3>3. \A q \in Requests \ {r} : SameRequest(q)
        BY <1>1, <3>2 DEF SameRequest
      <3>. QED
        BY <1>1, <3>1, <3>3 DEF OnlyAt
    <2>5. RequestTypes(r)'
      BY <1>0, <1>1, <1>2, <2>2, <2>3 DEF Promise, RequestTypes
    <2>6. RequestInv(r)'
      BY <1>0, <1>1, <1>2, <2>2, <2>3 DEF Promise, RequestInv
    <2>7. Promise(r)'
      BY <1>0, <1>1, <1>2, <2>2, <2>3, <2>5, <2>6 DEF Promise
    <2>8. StoredInv' /\ RecordedWasPushed' /\ stored' \in [ImageBuilds -> Event]
      BY <1>1, <1>4, <2>2, <2>4, AppliedStored
    <2>9. Frame'
      BY <1>0, <1>1, <1>2, <2>8 DEF Frame, ObjectTypes
    <2>. QED
      BY <2>4, <2>7, <2>9, OneRequest
  <1>5. \/ Answer(r, 500) /\ UNCHANGED <<stored, written, left>>
        \/ /\ Applied(r)
           /\ \/ /\ pc' = [pc EXCEPT ![r] = "next"] /\ UNCHANGED answer
                 /\ left' = [left EXCEPT ![r] = left[r] \ {cur[r]}]
              \/ Answer(r, 500) /\ UNCHANGED left
    BY Zenon DEF patchOnCommitStatus
  <1>. QED
    BY <1>3, <1>4, <1>5

-----------------------------------------------------------------------------
(* Everybody else.                                                         *)

(* What users change in one ImageBuild, requests in the loop no longer owe *)
(* to it.                                                                  *)
LEMMA TouchInv ==
    ASSUME WebhookInv, NEW ib \in ImageBuilds, Touch(ib),
           \A jb \in ImageBuilds \ {ib} : spec'[jb] = spec[jb] /\ secret'[jb] = secret[jb],
           ObjectTypes',
           UNCHANGED <<stored, cache, pc, wire, left, cur, orig, at, answer, written, due,
                       received, clock, faults>>
    PROVE  WebhookInv'
  <1>0. Frame /\ Domains /\ \A q \in Requests : Promise(q)
    BY InvParts
  <1>1. /\ edits' \in 0 .. MaxEdits
        /\ touched' = [q \in Requests |-> IF pc[q] \in {"next", "patch"}
                                           THEN touched[q] \cup {ib} ELSE touched[q]]
    BY <1>0, WebhookAssumption DEF Touch, Frame
  <1>2. Domains'
    BY <1>0, <1>1 DEF Domains
  <1>3. Frame'
    <2>1. StoredInv' /\ RecordedWasPushed'
      BY <1>0 DEF Frame, StoredInv, RecordedWasPushed
    <2>. QED
      BY <1>0, <1>1, <2>1 DEF Frame
  <1>4. ASSUME NEW q \in Requests PROVE Promise(q)'
    <2>1. /\ touched'[q] = IF pc[q] \in {"next", "patch"} THEN touched[q] \cup {ib} ELSE touched[q]
          /\ Promise(q)
      BY <1>0, <1>1
    <2>2. RequestTypes(q)'
      BY <2>1 DEF Promise, RequestTypes
    <2>3. CASE pc[q] \in {"next", "patch"}
      <3>1. touched'[q] = touched[q] \cup {ib}
        BY <2>1, <2>3
      <3>2. left[q] \subseteq ImageBuilds
        BY <2>1 DEF Promise, RequestTypes
      <3>3. \A jb \in left[q] \ touched'[q] :
              /\ matches(wire[q], spec'[jb])
              /\ jb \in due[q] <=> authenticate(wire[q], secret'[jb])
        <4>. SUFFICES ASSUME NEW jb \in left[q] \ touched'[q]
                      PROVE  /\ matches(wire[q], spec'[jb])
                             /\ jb \in due[q] <=> authenticate(wire[q], secret'[jb])
          OBVIOUS
        <4>1. jb \in left[q] \ touched[q] /\ spec'[jb] = spec[jb] /\ secret'[jb] = secret[jb]
          BY <3>1, <3>2
        <4>2. /\ matches(wire[q], spec[jb])
              /\ jb \in due[q] <=> authenticate(wire[q], secret[jb])
          BY <2>1, <2>3, <4>1 DEF Promise, RequestInv
        <4>. QED
          BY <4>1, <4>2
      <3>4. RequestInv(q)'
        BY <2>1, <2>3, <3>1, <3>3 DEF Promise, RequestInv
      <3>. QED
        BY <2>1, <2>2, <2>3, <3>1, <3>4 DEF Promise
    <2>4. CASE pc[q] \notin {"next", "patch"}
      <3>1. touched'[q] = touched[q]
        BY <2>1, <2>4
      <3>2. RequestInv(q)'
        BY <2>1, <2>4, <3>1 DEF Promise, RequestInv
      <3>. QED
        BY <2>1, <2>2, <3>1, <3>2 DEF Promise
    <2>. QED
      BY <2>3, <2>4
  <1>. QED
    BY <1>2, <1>3, <1>4, InvPartsNext

(* A user edits or deletes an ImageBuild, or changes its secret.           *)
LEMMA UserInv ==
    ASSUME WebhookInv, NEW ib \in ImageBuilds, UserEdits(ib) \/ SecretChanges(ib)
    PROVE  WebhookInv'
  <1>0. ObjectTypes
    BY InvParts DEF Frame
  <1>1. CASE UserEdits(ib)
    <2>1. /\ Touch(ib)
          /\ UNCHANGED <<secret, stored, cache, pc, wire, left, cur, orig, at, answer, written, due,
                         received, clock, faults>>
          /\ \E c \in Config : spec' = [spec EXCEPT ![ib] = c]
      <3>1. /\ Touch(ib)
            /\ UNCHANGED <<secret, stored, cache, pc, wire, left, cur, orig, at, answer, written,
                           due, received, clock, faults>>
            /\ \/ \E c \in Configs \ {spec[ib]} : spec' = [spec EXCEPT ![ib] = c]
               \/ spec' = [spec EXCEPT ![ib] = [spec[ib] EXCEPT !.live = FALSE]]
        BY <1>1, Zenon DEF UserEdits
      <3>2. [spec[ib] EXCEPT !.live = FALSE] \in Config
        BY <1>0 DEF ObjectTypes, Config
      <3>. QED
        BY <3>1, <3>2, WebhookAssumption
    <2>2. ObjectTypes' /\ \A jb \in ImageBuilds \ {ib} : spec'[jb] = spec[jb]
      BY <1>0, <2>1 DEF ObjectTypes
    <2>. QED
      BY <2>1, <2>2, TouchInv
  <1>2. CASE SecretChanges(ib)
    <2>1. /\ Touch(ib)
          /\ UNCHANGED <<spec, stored, cache, pc, wire, left, cur, orig, at, answer, written, due,
                         received, clock, faults>>
          /\ \E s \in Keys \cup Unusable : secret' = [secret EXCEPT ![ib] = s]
      BY <1>2, WebhookAssumption, Zenon DEF SecretChanges
    <2>2. ObjectTypes' /\ \A jb \in ImageBuilds \ {ib} : secret'[jb] = secret[jb]
      BY <1>0, <2>1 DEF ObjectTypes
    <2>. QED
      BY <2>1, <2>2, TouchInv
  <1>. QED
    BY <1>1, <1>2

(* The cache catches up.                                                   *)
LEMMA SyncInv ==
    ASSUME WebhookInv, NEW ib \in ImageBuilds, Sync(ib)
    PROVE  WebhookInv'
  <1>0. Frame /\ Domains /\ \A q \in Requests : Promise(q)
    BY InvParts
  <1>1. /\ cache' = [cache EXCEPT ![ib] = stored[ib]]
        /\ UNCHANGED <<spec, secret, stored, pc, wire, left, cur, orig, at, answer, written>>
        /\ UNCHANGED <<due, touched, received, clock, edits, faults>>
    BY Zenon DEF Sync, ghosts
  <1>2. Frame'
    <2>1. ObjectTypes' /\ StoredInv'
      BY <1>0, <1>1 DEF Frame, ObjectTypes, StoredInv
    <2>2. RecordedWasPushed'
      BY <1>0, <1>1 DEF Frame, RecordedWasPushed
    <2>. QED
      BY <1>0, <1>1, <2>1, <2>2 DEF Frame
  <1>3. Domains'
    BY <1>0, <1>1 DEF Domains
  <1>4. ASSUME NEW q \in Requests PROVE Promise(q)'
    BY <1>0, <1>1 DEF Promise, RequestTypes, RequestInv
  <1>. QED
    BY <1>2, <1>3, <1>4, InvPartsNext

-----------------------------------------------------------------------------
(* Every behaviour keeps the invariant (ServeHTTP with everything that may *)
(* happen around it).                                                      *)
THEOREM WebhookInvariant == Spec => []WebhookInv
  <1>1. Init => WebhookInv
    BY InitWebhook
  <1>2. WebhookInv /\ [Next]_vars => WebhookInv'
    <2>. SUFFICES ASSUME WebhookInv, [Next]_vars PROVE WebhookInv'
      OBVIOUS
    <2>1. CASE UNCHANGED vars
      <3>1. /\ UNCHANGED <<spec, secret, stored, cache, pc, wire, left, cur, orig, at>>
            /\ UNCHANGED <<answer, written, due, touched, received, clock, edits, faults>>
        BY <2>1 DEF vars, objects, ghosts
      <3>2. Frame /\ Domains /\ \A q \in Requests : Promise(q)
        BY InvParts
      <3>3. Frame'
        BY <3>1, <3>2 DEF Frame, ObjectTypes, StoredInv, RecordedWasPushed
      <3>4. Domains'
        BY <3>1, <3>2 DEF Domains
      <3>5. ASSUME NEW q \in Requests PROVE Promise(q)'
        BY <3>1, <3>2 DEF Promise, RequestTypes, RequestInv
      <3>. QED
        BY <3>3, <3>4, <3>5, InvPartsNext
    <2>2. CASE \E w \in Deliveries : Receive(w)
      BY <2>2, ReceiveInv
    <2>3. ASSUME NEW r \in Requests, ServeHTTP(r) PROVE WebhookInv'
      BY <2>3, ListInv, SecretFailsInv, UnauthenticatedInv, AuthenticatedInv, PatchInv, FinishInv
      DEF ServeHTTP
    <2>4. ASSUME NEW r \in Requests, Dies(r) PROVE WebhookInv'
      BY <2>4, DiesInv
    <2>5. ASSUME NEW ib \in ImageBuilds, UserEdits(ib) \/ SecretChanges(ib) \/ Sync(ib)
          PROVE  WebhookInv'
      BY <2>5, UserInv, SyncInv
    <2>. QED
      BY <2>1, <2>2, <2>3, <2>4, <2>5 DEF Next
  <1>. QED
    BY <1>1, <1>2, PTL DEF Spec

(* A push is withheld only with a 500 (ServeHTTP, repoIdentity).           *)
THEOREM PushReachesAllDue == Spec => []WithheldOnlyByError
  <1>1. WebhookInv => WithheldOnlyByError
    BY DEF WebhookInv
  <1>. QED
    BY <1>1, WebhookInvariant, PTL

(* A push is recorded only where it is due (ServeHTTP, Authenticate).      *)
THEOREM PushReachesOnlyDue == Spec => []OnlyDueWritten
  <1>1. WebhookInv => OnlyDueWritten
    BY DEF WebhookInv
  <1>. QED
    BY <1>1, WebhookInvariant, PTL

(* What is recorded was pushed, however requests race (patchOnCommitStatus). *)
THEOREM RecordIsOfPushes == Spec => []RecordedWasPushed
  <1>1. WebhookInv => RecordedWasPushed
    BY DEF WebhookInv
  <1>. QED
    BY <1>1, WebhookInvariant, PTL

-----------------------------------------------------------------------------
(* Errors.                                                                 *)

(* A matching ImageBuild whose secret cannot be used.                      *)
Cause(r) == \E ib \in ImageBuilds : matches(wire[r], spec[ib]) /\ secret[ib] \in Unusable

(* While users change nothing, nothing that is still to come has changed   *)
(* since it was listed, and an error has its cause.                        *)
CauseInv == /\ edits = 0 => \A r \in Requests : touched[r] = {}
            /\ ErrorHasCause

(* A step keeps this if the errors it answers with have a cause.           *)
LEMMA CauseKept ==
    ASSUME CauseInv, UNCHANGED <<spec, secret, touched, edits>>, faults' = 0 => faults = 0,
           \A r \in Requests :
             answer'[r] = 500 /\ faults' = 0 /\ edits = 0 =>
               \/ answer[r] = 500 /\ wire'[r] = wire[r]
               \/ wire'[r] = wire[r] /\ Cause(r)
    PROVE  CauseInv'
  <1>1. ASSUME NEW r \in Requests, answer'[r] = 500, faults' = 0, edits = 0
        PROVE  Cause(r) /\ wire'[r] = wire[r]
    BY <1>1 DEF CauseInv, ErrorHasCause, Cause
  <1>. QED
    BY <1>1 DEF CauseInv, ErrorHasCause, Cause

(* Answering a request.                                                    *)
LEMMA CauseAnswer ==
    ASSUME WebhookInv, CauseInv, NEW r \in Requests, NEW code, Answer(r, code),
           UNCHANGED <<spec, secret, touched, edits, wire>>, Fault \/ UNCHANGED faults,
           code = 500 /\ UNCHANGED faults /\ edits = 0 => Cause(r)
    PROVE  CauseInv'
  <1>0. Frame /\ Domains
    BY InvParts
  <1>1. /\ Fault => faults' # 0
        /\ faults' = 0 => faults = 0
    BY <1>0 DEF Fault, Frame
  <1>2. answer'[r] = code /\ \A q \in Requests \ {r} : answer'[q] = answer[q]
    BY <1>0 DEF Answer, Domains
  <1>. QED
    BY <1>1, <1>2, CauseKept

(* Nothing changed: what is still to come in the loop matches.             *)
LEMMA StillMatches ==
    ASSUME WebhookInv, CauseInv, NEW r \in Requests, pc[r] \in {"next", "patch"},
           NEW ib \in left[r], edits = 0
    PROVE  ib \in ImageBuilds /\ matches(wire[r], spec[ib])
  <1>1. Promise(r) /\ touched[r] = {}
    BY InvParts DEF CauseInv
  <1>. QED
    BY <1>1 DEF Promise, RequestInv, RequestTypes

(* The loop answers 500 without a failing API for an unusable secret only: *)
(* an ImageBuild that has gone has been touched.                           *)
LEMMA CauseServe ==
    ASSUME WebhookInv, CauseInv, NEW r \in Requests, ServeHTTP(r)
    PROVE  CauseInv'
  <1>1. CASE ListMatches(r)
    <2>0. UNCHANGED <<spec, secret, touched, edits, wire>>
      BY <1>1 DEF ListMatches, objects
    <2>1. CASE Fault /\ Answer(r, 500)
      <3>1. ~UNCHANGED faults
        BY <2>1, InvParts DEF Fault, Frame
      <3>. QED
        BY <2>0, <2>1, <3>1, CauseAnswer
    <2>2. CASE Answer(r, 202) /\ UNCHANGED faults
      BY <2>0, <2>2, CauseAnswer
    <2>3. CASE UNCHANGED <<answer, faults>>
      BY <2>0, <2>3, CauseKept
    <2>. QED
      BY <1>1, <2>1, <2>2, <2>3 DEF ListMatches
  <1>2. ASSUME NEW ib \in ImageBuilds, SecretFails(r, ib) PROVE CauseInv'
    <2>0. /\ UNCHANGED <<spec, secret, touched, edits, wire>> /\ Answer(r, 500)
          /\ pc[r] = "next" /\ ib \in left[r] /\ (Fault \/ UNCHANGED faults)
      BY <1>2 DEF SecretFails, objects, ghosts
    <2>1. ASSUME UNCHANGED faults, edits = 0 PROVE Cause(r)
      <3>1. ~Fault
        BY <2>1, InvParts DEF Fault, Frame
      <3>2. secret[ib] \in Unusable
        BY <1>2, <3>1 DEF SecretFails, getWebhookSecret
      <3>. QED
        BY <2>0, <2>1, <3>2, StillMatches DEF Cause
    <2>. QED
      BY <2>0, <2>1, CauseAnswer
  <1>3. ASSUME NEW ib \in ImageBuilds, Unauthenticated(r, ib) PROVE CauseInv'
    <2>0. UNCHANGED <<spec, secret, touched, edits, wire, answer, faults>>
      BY <1>3 DEF Unauthenticated, objects, ghosts
    <2>. QED
      BY <2>0, CauseKept
  <1>4. ASSUME NEW ib \in ImageBuilds, Authenticated(r, ib) PROVE CauseInv'
    <2>0. /\ UNCHANGED <<spec, secret, touched, edits, wire, faults>>
          /\ pc[r] = "next" /\ ib \in left[r]
      BY <1>4 DEF Authenticated, objects, ghosts
    <2>1. CASE ~spec[ib].live /\ Answer(r, 500)
      <3>1. edits # 0
        BY <2>0, <2>1, StillMatches DEF matches
      <3>. QED
        BY <2>0, <2>1, <3>1, CauseAnswer
    <2>2. CASE UNCHANGED answer
      BY <2>0, <2>2, CauseKept
    <2>. QED
      BY <1>4, <2>1, <2>2 DEF Authenticated
  <1>5. CASE patchOnCommitStatus(r)
    <2>0. UNCHANGED <<spec, secret, touched, edits, wire>> /\ pc[r] = "patch" /\ cur[r] \in left[r]
      BY <1>5, InvParts DEF patchOnCommitStatus, ghosts, Promise, RequestTypes
    <2>1. CASE UNCHANGED <<answer, faults>>
      BY <2>0, <2>1, CauseKept
    <2>2. CASE ~spec[cur[r]].live /\ Answer(r, 500) /\ UNCHANGED faults
      <3>1. edits # 0
        BY <2>0, <2>2, StillMatches DEF matches
      <3>. QED
        BY <2>0, <2>2, <3>1, CauseAnswer
    <2>3. CASE Fault /\ Answer(r, 500)
      <3>1. ~UNCHANGED faults
        BY <2>3, InvParts DEF Fault, Frame
      <3>. QED
        BY <2>0, <2>3, <3>1, CauseAnswer
    <2>. QED
      BY <1>5, <2>1, <2>2, <2>3 DEF patchOnCommitStatus
  <1>6. CASE Finish(r)
    <2>0. UNCHANGED <<spec, secret, touched, edits, wire, faults>>
      BY <1>6 DEF Finish, objects, ghosts
    <2>1. PICK code \in {202, 401} : Answer(r, code)
      BY <1>6 DEF Finish
    <2>. QED
      BY <2>0, <2>1, CauseAnswer
  <1>. QED
    BY <1>1, <1>2, <1>3, <1>4, <1>5, <1>6 DEF ServeHTTP

(* Every step keeps it.                                                    *)
LEMMA CauseStep == WebhookInv /\ CauseInv /\ [Next]_vars => CauseInv'
  <1>. SUFFICES ASSUME WebhookInv, CauseInv, [Next]_vars PROVE CauseInv'
    OBVIOUS
  <1>0. Frame /\ Domains /\ \A q \in Requests : Promise(q)
    BY InvParts
  <1>1. CASE UNCHANGED vars
    <2>1. UNCHANGED <<spec, secret, touched, edits, wire, answer, faults>>
      BY <1>1 DEF vars, objects, ghosts
    <2>. QED
      BY <2>1, CauseKept
  <1>2. ASSUME NEW w \in Deliveries, Receive(w) PROVE CauseInv'
    <2>1. PICK r \in Requests : r = received + 1
      BY <1>2 DEF Receive
    <2>2. UNCHANGED <<spec, secret, touched, edits, faults>>
      BY <1>2 DEF Receive, objects, ghosts
    <2>3. /\ wire' = [wire EXCEPT ![r] = w]
          /\ UNCHANGED answer \/ \E code \in {400, 405} : Answer(r, code)
      BY <1>2, <2>1 DEF Receive
    <2>4. answer[r] # 500
      BY <1>0, <2>1, WebhookAssumption DEF Promise, RequestInv, Frame, Requests
    <2>5. ASSUME NEW q \in Requests, answer'[q] = 500
          PROVE  answer[q] = 500 /\ wire'[q] = wire[q]
      <3>1. CASE q = r
        BY <1>0, <2>3, <2>4, <2>5, <3>1 DEF Answer, Domains
      <3>2. CASE q # r
        BY <1>0, <2>3, <2>5, <3>2 DEF Answer, Domains
      <3>. QED
        BY <3>1, <3>2
    <2>. QED
      BY <2>2, <2>5, CauseKept
  <1>3. ASSUME NEW r \in Requests, ServeHTTP(r) PROVE CauseInv'
    BY <1>3, CauseServe
  <1>4. ASSUME NEW r \in Requests, Dies(r) PROVE CauseInv'
    <2>1. UNCHANGED <<spec, secret, touched, edits, wire>> /\ Answer(r, 0) /\ Fault
      BY <1>4 DEF Dies, objects, ghosts
    <2>. QED
      BY <2>1, CauseAnswer
  <1>5. ASSUME NEW ib \in ImageBuilds, UserEdits(ib) \/ SecretChanges(ib) PROVE CauseInv'
    <2>1. edits' # 0
      BY <1>0, <1>5 DEF UserEdits, SecretChanges, Touch, Frame
    <2>. QED
      BY <2>1 DEF CauseInv, ErrorHasCause
  <1>6. ASSUME NEW ib \in ImageBuilds, Sync(ib) PROVE CauseInv'
    <2>1. UNCHANGED <<spec, secret, touched, edits, wire, answer, faults>>
      BY <1>6 DEF Sync, ghosts
    <2>. QED
      BY <2>1, CauseKept
  <1>. QED
    BY <1>1, <1>2, <1>3, <1>4, <1>5, <1>6 DEF Next

(* While the API works and users change nothing, a 500 tells of an         *)
(* unusable secret of a matching ImageBuild (getWebhookSecret, ServeHTTP). *)
THEOREM ErrorsHaveCauses == Spec => []ErrorHasCause
  <1>1. Init => CauseInv
    BY DEF Init, CauseInv, ErrorHasCause
  <1>2. WebhookInv /\ CauseInv /\ [Next]_vars => CauseInv'
    BY CauseStep
  <1>3. CauseInv => ErrorHasCause
    BY DEF CauseInv
  <1>. QED
    BY <1>1, <1>2, <1>3, WebhookInvariant, PTL DEF Spec

=============================================================================
