---- MODULE RepoCache ----
(***************************************************************************)
(* The host side of a checkout: internal/gitutil/repocache.go and the part *)
(* of boot that calls it (cmd/poc/main.go), with the tokens of Profile.    *)
(*                                                                         *)
(* A repository is cached as a bare repository named after the last part   *)
(* of its URL, cloned or fetched under a mutex of that name; a session's   *)
(* workspace is then cloned from the bare repository without the mutex.    *)
(***************************************************************************)
EXTENDS Naturals, Profile

CONSTANTS
  Sessions,
  URLs,
  RepoName,    \* the name that gitutil.RepoName takes from a URL
  Private,     \* URLs that need a token
  ReqTokens,   \* GitHub tokens that come with a request; "" for none
  MaxCrashes   \* bound: ends of the poc process

ASSUME CacheAssumption ==
  /\ {"none", "partial"} \cap URLs = {}
  /\ Private \subseteq URLs
  /\ ReqTokens \subseteq Tokens
  /\ MaxCrashes \in Nat

VARIABLES
  boot,      \* each session's boot
  lock,      \* RepoCache.locks: {the session that has the mutex}, or {}
  bare,      \* the bare repositories: whose branches they hold
  ws,        \* the workspaces: whose branches they were cloned from
  cut,       \* history: names whose clone was under way when the process ended
  crashes

cacheVars == <<boot, lock, bare, ws, cut, crashes>>
vars      == <<profVars, cacheVars>>

Names == {RepoName[u] : u \in URLs}
Content == {"none", "partial"} \cup URLs

BareRepoPath(u) == RepoName[u]

CacheInit ==
  /\ boot = [s \in Sessions |-> [pc |-> "new"]]
  /\ lock = [n \in Names |-> {}]
  /\ bare = [n \in Names |-> "none"]
  /\ ws = [s \in Sessions |-> "none"]
  /\ cut = {}
  /\ crashes = 0

At(s, pc) == boot[s].pc = pc
Goes(s, pc) == boot' = [boot EXCEPT ![s].pc = pc]

\* boot resolves its token before anything else, and keeps it.
BootStart(s, u, req) ==
  /\ At(s, "new")
  /\ \E token \in Resolved(req) :
       boot' = [boot EXCEPT ![s] = [pc |-> "ensure", url |-> u, req |-> req, token |-> token]]
  /\ UNCHANGED <<profVars, lock, bare, ws, cut, crashes>>

Name(s) == BareRepoPath(boot[s].url)

\* Mutant: two boots may have the mutex, as when each creates its own.
EnsureTogether(s) ==
  /\ At(s, "ensure")
  /\ lock' = [lock EXCEPT ![Name(s)] = @ \cup {s}]
  /\ IF bare[Name(s)] = "none"
     THEN Goes(s, "cloning") /\ bare' = [bare EXCEPT ![Name(s)] = "partial"]
     ELSE Goes(s, "fetching") /\ UNCHANGED bare
  /\ UNCHANGED <<profVars, ws, cut, crashes>>

\* EnsureBareRepo takes the mutex and looks whether the directory is there;
\* git clone creates it at once and fills it later.
Ensure(s) ==
  /\ At(s, "ensure") /\ lock[Name(s)] = {}
  /\ lock' = [lock EXCEPT ![Name(s)] = {s}]
  /\ IF bare[Name(s)] = "none"
     THEN Goes(s, "cloning") /\ bare' = [bare EXCEPT ![Name(s)] = "partial"]
     ELSE Goes(s, "fetching") /\ UNCHANGED bare
  /\ UNCHANGED <<profVars, ws, cut, crashes>>

Unlock(s) == lock' = [lock EXCEPT ![Name(s)] = {}]

\* The repository answers only to a token if it is private.
MayAccess(s) == boot[s].url \in Private => boot[s].token # ""

\* Mutant: the mutex is released on success only.
CloneEndsLocked(s) ==
  /\ At(s, "cloning")
  /\ \/ /\ MayAccess(s)
        /\ bare' = [bare EXCEPT ![Name(s)] = boot[s].url]
        /\ Goes(s, "local")
        /\ Unlock(s)
     \/ /\ bare' = [bare EXCEPT ![Name(s)] = "none"]
        /\ Goes(s, "booted")
        /\ UNCHANGED lock
  /\ UNCHANGED <<profVars, ws, cut, crashes>>

\* git clone --bare ends.  When it fails it removes the directory, and the boot
\* goes on without a workspace.
CloneEnds(s) ==
  /\ At(s, "cloning")
  /\ Unlock(s)
  /\ \/ /\ MayAccess(s)
        /\ bare' = [bare EXCEPT ![Name(s)] = boot[s].url]
        /\ Goes(s, "local")
     \/ /\ bare' = [bare EXCEPT ![Name(s)] = "none"]
        /\ Goes(s, "booted")
  /\ UNCHANGED <<profVars, ws, cut, crashes>>

\* git fetch --prune of all branches ends.  It replaces what was there,
\* whosever it was, and a failure is not an error.
FetchEnds(s) ==
  /\ At(s, "fetching")
  /\ Unlock(s)
  /\ \/ MayAccess(s) /\ bare' = [bare EXCEPT ![Name(s)] = boot[s].url]
     \/ UNCHANGED bare
  /\ Goes(s, "local")
  /\ UNCHANGED <<profVars, ws, cut, crashes>>

\* git clone --local into the workspace, from what the bare repository holds
\* now.  When it fails (a branch that is not there, say) the boot goes on
\* without a workspace.
LocalClone(s) ==
  /\ At(s, "local")
  /\ \/ bare[Name(s)] # "none" /\ ws' = [ws EXCEPT ![s] = bare[Name(s)]]
     \/ UNCHANGED ws
  /\ Goes(s, "booted")
  /\ UNCHANGED <<profVars, lock, bare, cut, crashes>>

\* boot ends in "ready" or "failed"; the token is forgotten.
Ended(s, pc) == boot' = [boot EXCEPT ![s] = [pc |-> pc, url |-> @.url]]

\* A step between the checkout and the guest's set-up fails (SessionManager has
\* them in full); the workspace stays.
BootFails(s) ==
  /\ At(s, "booted")
  /\ Ended(s, "failed")
  /\ UNCHANGED <<profVars, lock, bare, ws, cut, crashes>>

\* The guest's set-up.  saveToken, if the request brought a token: WriteFile
\* opens and truncates the file and then writes it; each may fail, which is
\* only logged.  Then the workspace is mounted: boot fails if there is none, or
\* if the mount does.
Setup(s) ==
  /\ \/ At(s, "booted") /\ boot[s].req # "" /\ Goes(s, "saving") /\ cred' = ""
     \/ /\ \/ At(s, "booted") /\ UNCHANGED cred
           \/ At(s, "saving") /\ cred' \in {boot[s].req, ""}
        /\ (ws[s] # "none" /\ Ended(s, "ready")) \/ Ended(s, "failed")
  /\ UNCHANGED <<profile, put, merged, last, overlap, lock, bare, ws, cut, crashes>>

\* Stop of a ready session, at its end.
CleanupWorkspace(s) ==
  /\ At(s, "ready")
  /\ ws' = [ws EXCEPT ![s] = "none"]
  /\ Goes(s, "stopped")
  /\ UNCHANGED <<profVars, lock, bare, cut, crashes>>

InGit == {"cloning", "fetching", "local"}

\* The process ends.  systemd signals no other one (KillMode=process), so that
\* a git command it has started works on beside the next server, as an orphan;
\* when the host goes down nothing does, and what git had made is left.
Crash(down) ==
  /\ crashes < MaxCrashes
  /\ crashes' = crashes + 1
  /\ boot' = [s \in Sessions |->
       CASE boot[s].pc \in {"new", "ready", "failed", "stopped"} -> boot[s]
         [] boot[s].pc \in InGit /\ ~down ->
              [pc |-> "orphan", git |-> boot[s].pc, url |-> boot[s].url, token |-> boot[s].token]
         [] boot[s].pc = "orphan" /\ ~down -> boot[s]
         [] OTHER -> [pc |-> "dead", url |-> boot[s].url]]
  /\ lock' = [n \in Names |-> {}]
  /\ cut' = cut \cup {n \in Names : \E s \in lock[n] : At(s, "cloning")}
  /\ PutsCrash
  /\ UNCHANGED <<cred, bare, ws>>

\* The git command of a boot whose server is gone ends, without the mutex.
OrphanEnds(s) ==
  LET n == Name(s) IN
  /\ At(s, "orphan")
  /\ Ended(s, "dead")
  /\ \/ boot[s].git = "cloning" /\ MayAccess(s) /\ bare' = [bare EXCEPT ![n] = boot[s].url]
     \/ boot[s].git = "cloning" /\ bare' = [bare EXCEPT ![n] = "none"]
     \/ boot[s].git = "fetching" /\ MayAccess(s) /\ bare[n] # "none"
                                /\ bare' = [bare EXCEPT ![n] = boot[s].url]
     \/ boot[s].git # "cloning" /\ UNCHANGED bare
  /\ \/ boot[s].git = "local" /\ bare[n] # "none" /\ ws' = [ws EXCEPT ![s] = bare[n]]
     \/ UNCHANGED ws
  /\ UNCHANGED <<profVars, lock, cut, crashes>>

Step(s) ==
  \/ Ensure(s) \/ CloneEnds(s) \/ FetchEnds(s) \/ LocalClone(s) \/ BootFails(s) \/ Setup(s)

CacheNext ==
  \/ \E h \in Puts : (PutLoad(h) \/ PutSave(h)) /\ UNCHANGED cacheVars
  \/ \E s \in Sessions :
       \/ \E u \in URLs, req \in ReqTokens : BootStart(s, u, req)
       \/ Step(s) \/ CleanupWorkspace(s) \/ OrphanEnds(s)
  \/ \E down \in BOOLEAN : Crash(down)

\* A mutex of Go starves nobody who waits for it.  Nothing is assumed of git and
\* of the guest: neither has a deadline.
CacheFairness == \A s \in Sessions : SF_vars(Ensure(s))

Spec == ProfileInit /\ CacheInit /\ [][CacheNext]_vars /\ CacheFairness

------------------------------------------------------------------------------
\* Types of the tokens, boots, mutexes and repositories; a mutex has one holder
\* at most.
TypeOK ==
  /\ profile \in [Fields -> Tokens] /\ cred \in Tokens
  /\ \A s \in Sessions :
       boot[s].pc \in {"new", "ensure", "cloning", "fetching", "local", "booted", "saving",
                       "ready", "failed", "stopped", "orphan", "dead"}
  /\ \A n \in Names : lock[n] = {} \/ \E s \in Sessions : lock[n] = {s}
  /\ bare \in [Names -> Content]
  /\ ws \in [Sessions -> Content]

\* Nobody clones from a bare repository that is still being cloned.  The mutex
\* does not outlive the process: a repository whose clone was under way when
\* it ended is exempted from then on (the orphan may be at work beside a fetch,
\* or a host that went down has left half of it).
NoHalfClone ==
  \A s \in Sessions : ws[s] = "partial" => Name(s) \in cut

\* A boot that waits for the mutex of its repository gets past the checkout,
\* with or without a workspace, unless some git command never ends: every way
\* out of EnsureBareRepo unlocks, whatever git's exit status.
CheckoutSettles ==
  (\A t \in Sessions : []<>(boot[t].pc \notin InGit)) =>
    \A s \in Sessions : At(s, "ensure") ~> (boot[s].pc \notin {"ensure"} \cup InGit)
====
