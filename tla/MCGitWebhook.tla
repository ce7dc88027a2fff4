--------------------------- MODULE MCGitWebhook ---------------------------
(* Instances of GitWebhook for TLC.                                        *)
EXTENDS GitWebhook, TLC

CONSTANTS a, b, hub, own, main, k1, k2, c1, c2

Https(repo) == [repo |-> repo, form |-> "https", case |-> "lower", tail |-> ".git"]
Ssh(repo) == [Https(repo) EXCEPT !.form = "ssh"]
Messy(repo) == [Https(repo) EXCEPT !.case = "mixed", !.tail = ".git/"]

(* Labelled and tracking main of a hosted repository by SSH or of one that *)
(* does not parse by HTTPS spelled otherwise than in its pushes; not       *)
(* tracking a branch; not labelled yet.                                    *)
Tracks(url) == [live |-> TRUE, label |-> TRUE, rebuild |-> TRUE, url |-> url, branch |-> main]
SomeConfigs == {Tracks(Ssh(hub)), Tracks(Messy(own)),
                [Tracks(Ssh(hub)) EXCEPT !.branch = NoBranch],
                [Tracks(Ssh(hub)) EXCEPT !.label = FALSE]}

Push(provider, repo, commit, key) ==
    [post |-> TRUE, headers |-> {provider}, body |-> provider, urls |-> {Https(repo)},
     ref |-> main, commit |-> commit, key |-> key]
SomeDeliveries ==
    {Push("github", hub, c1, k1), Push("github", hub, c2, k1), Push("gitlab", own, c1, k2),
     [Push("github", hub, c1, k1) EXCEPT !.ref = NoBranch],
     [Push("gitlab", own, c1, k2) EXCEPT !.ref = NoRef],
     [Push("gitlab", hub, c1, k1) EXCEPT !.headers = {"github", "gitlab"}],
     [Push("gitlab", hub, c1, k1) EXCEPT !.post = FALSE]}

Symmetry == Permutations(ImageBuilds)
=============================================================================
