---------------------------- MODULE GitWebhook ----------------------------
(***************************************************************************)
(* The git webhook of internal/webhook/git over all ImageBuilds: ServeHTTP *)
(* detects the provider, reads the push, lists the ImageBuilds, matches    *)
(* them by repository and branch and then, one after the other, reads the  *)
(* secret, authenticates and patches status.onCommit.  Requests are served *)
(* concurrently; users edit, rotate secrets and delete meanwhile.          *)
(*                                                                         *)
(* Of the two events a patch writes, the model keeps lastReceived, which   *)
(* nobody else writes; what becomes of pending is the subject of           *)
(* ImageBuildController.                                                   *)
(***************************************************************************)
EXTENDS ImageBuildAPI

CONSTANTS
    ImageBuilds,  \* the ImageBuilds of the cluster
    Repos,        \* repositories
    Hosted,       \* those whose URLs vcsurl.Parse understands
    Branches,     \* branch names
    NoBranch,     \* spec.source.git.revision is empty, or a ref is not a branch
    NoRef,        \* a push without ref
    Keys,         \* values of webhook secrets
    Configs,      \* what users put into an ImageBuild
    Deliveries,   \* requests that may arrive
    InitSecrets,  \* what the ImageBuilds' secrets may be at first
    MaxRequests,  \* bound on requests
    MaxEdits,     \* bound on edits, rotations and deletions by users
    MaxFaults     \* bound on failing reads and writes of the API

Requests == 1 .. MaxRequests

(* Clone URLs: SSH or HTTPS, and how they are spelled.                     *)
Tails == {"", "/", ".git", ".git/"}
URL == [repo: Repos, form: {"ssh", "https"}, case: {"lower", "mixed"}, tail: Tails]

(* An ImageBuild, as the informer cache shows it; live: not deleted.       *)
Config == [live: BOOLEAN, label: BOOLEAN, rebuild: BOOLEAN, url: URL,
           branch: Branches \cup {NoBranch}]

(* A secret's value, or what is wrong: spec.onCommit unset, Secret not     *)
(* found, key not in it, empty value.                                      *)
Unusable == {"unset", "missing", "noKey", "empty"}

(* A request.  headers: the provider headers that name a push.  body: the  *)
(* provider whose push payload it is.  key: the secret it is signed with.  *)
Delivery == [post: BOOLEAN, headers: SUBSET {"github", "gitlab"},
             body: {"github", "gitlab", "garbage"}, urls: SUBSET URL,
             ref: Branches \cup {NoBranch, NoRef}, commit: Commits, key: Keys]

ASSUME WebhookAssumption ==
    /\ Hosted \subseteq Repos /\ NoBranch \notin Branches /\ NoRef \notin Branches
    /\ Keys \cap Unusable = {}
    /\ Configs \subseteq Config
    /\ Deliveries \subseteq Delivery
    /\ InitSecrets \subseteq Keys \cup Unusable
    /\ MaxRequests \in Nat /\ MaxEdits \in Nat /\ MaxFaults \in Nat

VARIABLES
    spec,      \* the ImageBuilds
    secret,    \* the webhook secret of each
    stored,    \* status.onCommit.lastReceived of each, at the API server
    cache,     \* the same, as the informer cache has it
    (* One request each.                                                   *)
    pc,        \* what it does next
    wire,      \* the request as it arrived
    left,      \* matches the loop has not come to
    cur,       \* the ImageBuild being patched
    orig,      \* its lastReceived when patchOnCommitStatus read it
    at,        \* now
    answer,    \* the HTTP status, or 0
    written,   \* the ImageBuilds its patch was applied to
    (* For the properties: who was due the push when it was listed, and    *)
    (* whom users have changed since.                                      *)
    due, touched,
    received, clock, edits, faults

objects == <<spec, secret, stored, cache>>
ghosts == <<due, touched>>
vars == <<objects, pc, wire, left, cur, orig, at, answer, written, ghosts,
          received, clock, edits, faults>>

ObjectTypes ==
    /\ spec \in [ImageBuilds -> Config]
    /\ secret \in [ImageBuilds -> Keys \cup Unusable]
    /\ stored \in [ImageBuilds -> Event] /\ cache \in [ImageBuilds -> Event]

RequestTypes(r) ==
    /\ pc[r] \in {"none", "list", "next", "patch", "done"}
    /\ pc[r] # "none" => wire[r] \in Deliveries
    /\ left[r] \subseteq ImageBuilds
    /\ pc[r] = "patch" => cur[r] \in left[r]
    /\ orig[r] \in Event /\ at[r] \in Nat
    /\ answer[r] \in {0, 202, 400, 401, 405, 500}
    /\ written[r] \subseteq ImageBuilds /\ due[r] \subseteq ImageBuilds
    /\ touched[r] \subseteq ImageBuilds

TypeOK ==
    /\ ObjectTypes
    /\ DOMAIN pc = Requests /\ DOMAIN wire = Requests /\ DOMAIN left = Requests
    /\ DOMAIN cur = Requests /\ DOMAIN orig = Requests /\ DOMAIN at = Requests
    /\ DOMAIN answer = Requests /\ DOMAIN written = Requests
    /\ DOMAIN due = Requests /\ DOMAIN touched = Requests
    /\ \A r \in Requests : RequestTypes(r)
    /\ received \in 0 .. MaxRequests /\ clock \in Nat
    /\ edits \in 0 .. MaxEdits /\ faults \in 0 .. MaxFaults

Init ==
    /\ spec \in [ImageBuilds -> Configs] /\ secret \in [ImageBuilds -> InitSecrets]
    /\ stored = [ib \in ImageBuilds |-> NoEvent] /\ cache = stored
    /\ pc = [r \in Requests |-> "none"]
    /\ wire = [r \in Requests |-> "none"]
    /\ left = [r \in Requests |-> {}] /\ cur = [r \in Requests |-> "none"]
    /\ orig = [r \in Requests |-> NoEvent] /\ at = [r \in Requests |-> 0]
    /\ answer = [r \in Requests |-> 0]
    /\ written = left /\ due = left /\ touched = left
    /\ received = 0 /\ clock = 0 /\ edits = 0 /\ faults = 0

-----------------------------------------------------------------------------
(* Reading and matching a request.                                         *)

Detect(provider, w) == provider \in w.headers

(* detectProvider tries GitHub before GitLab.                              *)
detectProvider(w) ==
    IF Detect("github", w) THEN "github"
    ELSE IF Detect("gitlab", w) THEN "gitlab" ELSE "none"

(* A payload of the other provider has neither ref nor URLs where this one *)
(* looks for them.                                                         *)
ReadPushEvent(provider, w) == w.body = provider

(* A push must name a ref and a repository.                                *)
newPushEvent(w) == w.ref # NoRef /\ w.urls # {}

readable(w) == ReadPushEvent(detectProvider(w), w) /\ newPushEvent(w)

TrimSlashes(tail) == CASE tail = "/" -> "" [] tail = ".git/" -> ".git" [] OTHER -> tail
TrimGit(tail) == IF tail = ".git" THEN "" ELSE tail

(* SSH and HTTPS have one identity only when vcsurl.Parse finds out which  *)
(* repository they name; else spellings are told apart unless trimmed.     *)
Spelled(u, tail) == [repo |-> u.repo, form |-> u.form, case |-> "lower", tail |-> tail]

normalizeRepoURL_bug(u) == Spelled(u, TrimSlashes(TrimGit(u.tail)))

normalizeRepoURL(u) == Spelled(u, TrimGit(TrimSlashes(u.tail)))

repoIdentity_bug(u) == normalizeRepoURL(u)

repoIdentity(u) ==
    IF u.repo \in Hosted THEN [repo |-> u.repo] ELSE normalizeRepoURL(u)

matches_bug(w, ib) ==
    /\ ib.live /\ ib.label /\ ib.rebuild
    /\ \E u \in w.urls : repoIdentity(u) = repoIdentity(ib.url)

matches(w, ib) ==
    /\ ib.live /\ ib.label /\ ib.rebuild
    /\ ib.branch # NoBranch /\ w.ref = ib.branch
    /\ \E u \in w.urls : repoIdentity(u) = repoIdentity(ib.url)

getWebhookSecret_bug(s) == s = "empty"

getWebhookSecret(s) == s \notin Unusable

authenticate_bug(w, s) == TRUE

authenticate(w, s) == w.key = s

(* The push as its sender means it: it concerns the ImageBuilds that build *)
(* that branch of that repository and share its secret.                    *)
SameRepo(u, v) == u.repo = v.repo /\ (u.repo \in Hosted \/ u.form = v.form)

Concerns(w, ib) ==
    /\ w.post /\ w.headers # {} /\ w.body = detectProvider(w)
    /\ spec[ib].live /\ spec[ib].label /\ spec[ib].rebuild
    /\ w.ref # NoBranch /\ w.ref = spec[ib].branch
    /\ \E u \in w.urls : SameRepo(u, spec[ib].url)
    /\ secret[ib] = w.key

-----------------------------------------------------------------------------
(* ServeHTTP.                                                              *)

Fault == faults < MaxFaults /\ faults' = faults + 1

Answer(r, status) ==
    /\ pc' = [pc EXCEPT ![r] = "done"]
    /\ answer' = [answer EXCEPT ![r] = status]

Receive(w) ==
    LET r == received + 1 IN
    /\ r \in Requests /\ received' = r
    /\ wire' = [wire EXCEPT ![r] = w]
    /\ \/ ~w.post /\ Answer(r, 405)
       \/ w.post /\ (detectProvider(w) = "none" \/ ~readable(w)) /\ Answer(r, 400)
       \/ /\ w.post /\ detectProvider(w) # "none" /\ readable(w)
          /\ pc' = [pc EXCEPT ![r] = "list"] /\ UNCHANGED answer
    /\ UNCHANGED <<objects, left, cur, orig, at, written, ghosts, clock, edits, faults>>

(* List from the cache and match; now is taken once for all of them.       *)
ListMatches(r) ==
    LET found == {ib \in ImageBuilds : matches(wire[r], spec[ib])} IN
    /\ pc[r] = "list"
    /\ due' = [due EXCEPT ![r] = {ib \in ImageBuilds : Concerns(wire[r], ib)}]
    /\ UNCHANGED touched
    /\ \/ Fault /\ Answer(r, 500) /\ UNCHANGED <<left, at, clock>>
       \/ found = {} /\ Answer(r, 202) /\ UNCHANGED <<left, at, clock, faults>>
       \/ /\ found # {} /\ pc' = [pc EXCEPT ![r] = "next"]
          /\ left' = [left EXCEPT ![r] = found]
          /\ clock' = clock + 1 /\ at' = [at EXCEPT ![r] = clock + 1]
          /\ UNCHANGED <<answer, faults>>
    /\ UNCHANGED <<objects, wire, cur, orig, written, received, edits>>

(* The loop.  The cache lists in no particular order.                      *)
SecretFails(r, ib) ==
    /\ pc[r] = "next" /\ ib \in left[r]
    /\ \/ ~getWebhookSecret(secret[ib]) /\ UNCHANGED faults
       \/ Fault
    /\ Answer(r, 500)
    /\ UNCHANGED <<objects, wire, left, cur, orig, at, written, ghosts, received, clock, edits>>

Unauthenticated(r, ib) ==
    /\ pc[r] = "next" /\ ib \in left[r]
    /\ getWebhookSecret(secret[ib]) /\ ~authenticate(wire[r], secret[ib])
    /\ left' = [left EXCEPT ![r] = left[r] \ {ib}]
    /\ UNCHANGED <<objects, pc, wire, cur, orig, at, answer, written, ghosts,
                   received, clock, edits, faults>>

(* patchOnCommitStatus: read the latest from the cache, or fail if the     *)
(* ImageBuild has gone.                                                    *)
Authenticated(r, ib) ==
    /\ pc[r] = "next" /\ ib \in left[r]
    /\ getWebhookSecret(secret[ib]) /\ authenticate(wire[r], secret[ib])
    /\ \/ ~spec[ib].live /\ Answer(r, 500) /\ UNCHANGED <<cur, orig>>
       \/ /\ spec[ib].live /\ pc' = [pc EXCEPT ![r] = "patch"]
          /\ cur' = [cur EXCEPT ![r] = ib] /\ orig' = [orig EXCEPT ![r] = cache[ib]]
          /\ UNCHANGED answer
    /\ UNCHANGED <<objects, wire, left, at, written, ghosts, received, clock, edits, faults>>

(* ... and write it, as a merge patch without resourceVersion.             *)
Applied_bug(r) ==
    LET event == [commit |-> wire[r].commit, at |-> at[r]] IN
    /\ stored' = [ib \in ImageBuilds |-> IF ib \in left[r] THEN event ELSE stored[ib]]
    /\ written' = [written EXCEPT ![r] = written[r] \cup {cur[r]}]

Applied(r) ==
    LET event == [commit |-> wire[r].commit, at |-> at[r]] IN
    /\ stored' = [stored EXCEPT ![cur[r]] = MergeEvent(stored[cur[r]], orig[r], event)]
    /\ written' = [written EXCEPT ![r] = written[r] \cup {cur[r]}]

patchOnCommitStatus(r) ==
    /\ pc[r] = "patch"
    /\ \/ /\ spec[cur[r]].live /\ Applied(r)
          /\ pc' = [pc EXCEPT ![r] = "next"]
          /\ left' = [left EXCEPT ![r] = left[r] \ {cur[r]}]
          /\ UNCHANGED <<answer, faults>>
       \/ /\ ~spec[cur[r]].live /\ Answer(r, 500)
          /\ UNCHANGED <<stored, written, left, faults>>
       \/ /\ spec[cur[r]].live /\ Fault /\ Answer(r, 500)
          /\ (Applied(r) \/ UNCHANGED <<stored, written>>)
          /\ UNCHANGED left
    /\ UNCHANGED <<spec, secret, cache, wire, cur, orig, at, ghosts, received, clock, edits>>

(* authenticatedCount is the number of patches: a failed one has answered. *)
Finish(r) ==
    /\ pc[r] = "next" /\ left[r] = {}
    /\ Answer(r, IF written[r] = {} THEN 401 ELSE 202)
    /\ UNCHANGED <<objects, wire, left, cur, orig, at, written, ghosts,
                   received, clock, edits, faults>>

(* The operator dies: the sender gets no answer.                           *)
Dies(r) ==
    /\ pc[r] \in {"list", "next", "patch"} /\ Fault /\ Answer(r, 0)
    /\ UNCHANGED <<objects, wire, left, cur, orig, at, written, ghosts, received, clock, edits>>

-----------------------------------------------------------------------------
(* Everybody else.                                                         *)

Touch(ib) ==
    /\ edits < MaxEdits /\ edits' = edits + 1
    /\ touched' = [r \in Requests |-> IF pc[r] \in {"next", "patch"}
                                       THEN touched[r] \cup {ib} ELSE touched[r]]

(* ... or deletes it.                                                      *)
UserEdits(ib) ==
    /\ spec[ib].live /\ Touch(ib)
    /\ \/ \E c \in Configs \ {spec[ib]} : spec' = [spec EXCEPT ![ib] = c]
       \/ spec' = [spec EXCEPT ![ib] = [spec[ib] EXCEPT !.live = FALSE]]
    /\ UNCHANGED <<secret, stored, cache, pc, wire, left, cur, orig, at, answer, written, due,
                   received, clock, faults>>

SecretChanges(ib) ==
    /\ Touch(ib)
    /\ \E s \in InitSecrets \ {secret[ib]} : secret' = [secret EXCEPT ![ib] = s]
    /\ UNCHANGED <<spec, stored, cache, pc, wire, left, cur, orig, at, answer, written, due,
                   received, clock, faults>>

Sync(ib) ==
    /\ cache[ib] # stored[ib] /\ cache' = [cache EXCEPT ![ib] = stored[ib]]
    /\ UNCHANGED <<spec, secret, stored, pc, wire, left, cur, orig, at, answer, written, ghosts,
                   received, clock, edits, faults>>

ServeHTTP(r) ==
    \/ ListMatches(r)
    \/ \E ib \in ImageBuilds : SecretFails(r, ib)
    \/ \E ib \in ImageBuilds : Unauthenticated(r, ib)
    \/ \E ib \in ImageBuilds : Authenticated(r, ib)
    \/ patchOnCommitStatus(r)
    \/ Finish(r)

Next ==
    \/ \E w \in Deliveries : Receive(w)
    \/ \E r \in Requests : ServeHTTP(r)
    \/ \E r \in Requests : Dies(r)
    \/ \E ib \in ImageBuilds : UserEdits(ib) \/ SecretChanges(ib) \/ Sync(ib)

Spec == Init /\ [][Next]_vars

-----------------------------------------------------------------------------
(* Properties.                                                             *)

(* A push is withheld from an ImageBuild it concerns only with a 500: when *)
(* the answer is anything else, the push is recorded on every ImageBuild   *)
(* it concerned when it was listed and that users left alone since,        *)
(* whatever other ImageBuilds match and however they authenticate          *)
(* (ServeHTTP, repoIdentity).                                              *)
WithheldOnlyByError ==
    \A r \in Requests :
        answer[r] \in {202, 400, 401, 405} => due[r] \ touched[r] \subseteq written[r]

(* A push is recorded on no ImageBuild it does not concern, although the   *)
(* loop works on copies listed earlier and one request serves ImageBuilds  *)
(* with different secrets (ServeHTTP, getWebhookSecret, Authenticate).     *)
OnlyDueWritten == \A r \in Requests : written[r] \ touched[r] \subseteq due[r]

(* A 500 has a cause: unless the API failed or users changed something,    *)
(* some matching ImageBuild has no usable secret (getWebhookSecret).       *)
ErrorHasCause ==
    \A r \in Requests :
        answer[r] = 500 /\ faults = 0 /\ edits = 0 =>
            \E ib \in ImageBuilds : matches(wire[r], spec[ib]) /\ secret[ib] \in Unusable

(* However requests overtake each other and merge over stale copies, the   *)
(* commit and the time recorded on an ImageBuild are those of pushes that  *)
(* were recorded on it; they need not be of the same one                   *)
(* (patchOnCommitStatus).                                                  *)
RecordedWasPushed ==
    \A ib \in ImageBuilds : stored[ib].at # 0 =>
        /\ \E r \in Requests : ib \in written[r] /\ at[r] = stored[ib].at
        /\ \E r \in Requests : ib \in written[r] /\ wire[r].commit = stored[ib].commit

-----------------------------------------------------------------------------
(* The invariant behind them.                                              *)

(* While a request is in the loop, what it is due to has been written or   *)
(* is still to come, and what is still to come matched when it was listed. *)
RequestInv(r) ==
    /\ pc[r] \in {"none", "list"} => written[r] = {} /\ due[r] = {} /\ touched[r] = {}
    /\ pc[r] = "none" <=> r > received
    /\ pc[r] # "none" /\ answer[r] \notin {400, 405} =>
         /\ wire[r].post /\ detectProvider(wire[r]) # "none" /\ readable(wire[r])
    /\ answer[r] \in {400, 405} => due[r] = {} /\ written[r] = {}
    /\ pc[r] # "done" => answer[r] = 0
    /\ pc[r] \in {"next", "patch"} =>
         /\ due[r] \ touched[r] \subseteq written[r] \cup left[r]
         /\ \A ib \in left[r] \ touched[r] :
              /\ matches(wire[r], spec[ib])
              /\ ib \in due[r] <=> authenticate(wire[r], secret[ib])
    /\ pc[r] = "patch" => cur[r] \in due[r] \cup touched[r]

(* A cached event has a stored one; a request that holds one read it.      *)
StoredInv ==
    /\ \A ib \in ImageBuilds : cache[ib].at # 0 => stored[ib].at # 0
    /\ \A r \in Requests : pc[r] = "patch" /\ orig[r].at # 0 => stored[cur[r]].at # 0
    /\ \A r \in Requests : pc[r] \in {"next", "patch"} => at[r] # 0

(* No write of a request is forgotten, and the loop keeps its promises.    *)
WebhookInv ==
    /\ TypeOK /\ StoredInv /\ \A r \in Requests : RequestInv(r)
    /\ OnlyDueWritten /\ WithheldOnlyByError /\ RecordedWasPushed

=============================================================================
