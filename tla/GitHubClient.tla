----------------------------- MODULE GitHubClient -----------------------------
(***************************************************************************)
(* A call of the GitHub App's API (src/github/app.go 143-272 and           *)
(* internal/httpx/transport.go).                                           *)
(*                                                                         *)
(* A call finds its repository's installation, then a token of the         *)
(* installation, then sends its request.  What is found is kept in caches  *)
(* all calls share: each is looked up and written under a lock that is not *)
(* held while GitHub is asked.  Requests get lost, or lose their answer.   *)
(***************************************************************************)
EXTENDS Naturals, FiniteSets

CONSTANTS None,
          Calls,
          MaxAttempts,  \* DefaultMaxAttempts: 4 in the code
          Life, Skew,   \* a token's life and tokenSkew, in ticks
          MaxTicks,     \* bound on the clock
          MaxChanges    \* bound on (un)installations and restarts

Answers == {"ok", "error", "no_installation", "expired"}

ClientAssumption ==
    /\ MaxAttempts \in Nat \ {0} /\ MaxTicks \in Nat /\ MaxChanges \in Nat
    /\ Life \in Nat /\ Skew \in Nat /\ Skew < Life
    /\ None \notin Answers

VARIABLES
    installed, \* GitHub: the app is installed on the repository
    installs,  \* a.installs: the installation is known
    noInstall, \* a.noInstall: it is known that there is none
    token,     \* a.tokens: the tick the kept token was minted at, or None
    now, changes,
    denied,    \* history: GitHub said "no installation" to this process
    calls

vars == <<installed, installs, noInstall, token, now, changes, denied, calls>>
caches == <<installs, noInstall, token>>
world == <<installed, now, changes>>

Stages == {"idle", "install", "ask_install", "token", "ask_token", "send", "done"}

\* tries: attempts of the request under way; landed: how often GitHub took the
\* call's own request; minted and picked: when its token was minted and taken.
Call == [method : {"GET", "POST"}, stage : Stages, tries : 0 .. MaxAttempts,
         landed : 0 .. MaxAttempts, minted : 0 .. MaxTicks, picked : 0 .. MaxTicks,
         answer : Answers \cup {None}]

Fresh(method) == [method |-> method, stage |-> "idle", tries |-> 0, landed |-> 0,
                  minted |-> 0, picked |-> 0, answer |-> None]

Init ==
    /\ installed \in BOOLEAN /\ installs = FALSE /\ noInstall = FALSE
    /\ token = None /\ now = 0 /\ changes = 0 /\ denied = FALSE
    /\ calls \in [Calls -> {Fresh("GET"), Fresh("POST")}]

-----------------------------------------------------------------------------
(* The transport.                                                           *)

Asking == [ask_install |-> "GET", ask_token |-> "POST"]
Method(call) == IF call.stage \in DOMAIN Asking THEN Asking[call.stage] ELSE call.method

\* Mutant: a cut connection is retried whatever the method.
RetriesAfterAny(method, fault, tries) == tries < MaxAttempts

\* dial: provably not sent.  cut: the connection broke, GitHub may have taken
\* the request.  busy: 429 or 5xx, of which the same is true.
Retries(method, fault, tries) ==
    tries < MaxAttempts /\ (method = "GET" \/ fault = "dial")

Finish(c, answer) ==
    calls' = [calls EXCEPT ![c].stage = "done", ![c].answer = answer]

\* An attempt fails: it is made again, or the call ends with an error.
Fault(c) ==
    /\ calls[c].stage \in {"ask_install", "ask_token", "send"}
    /\ \E fault \in {"dial", "cut", "busy"}, landed \in {0, 1} :
          /\ landed = 1 => fault # "dial" /\ calls[c].stage = "send"
          /\ LET call == [calls[c] EXCEPT !.tries = @ + 1, !.landed = @ + landed]
             IN  calls' = [calls EXCEPT ![c] =
                    IF Retries(Method(call), fault, call.tries) THEN call
                    ELSE [call EXCEPT !.stage = "done", !.answer = "error"]]
    /\ UNCHANGED <<world, caches, denied>>

-----------------------------------------------------------------------------
(* tokenForRepo.                                                            *)

Step(c, stage) == calls' = [calls EXCEPT ![c].stage = stage, ![c].tries = 0]

Start(c) ==
    /\ calls[c].stage = "idle" /\ Step(c, "install")
    /\ UNCHANGED <<world, caches, denied>>

LookInstall(c) ==
    /\ calls[c].stage = "install"
    /\ IF installs THEN Step(c, "token")
       ELSE IF noInstall THEN Finish(c, "no_installation")
       ELSE Step(c, "ask_install")
    /\ UNCHANGED <<world, caches, denied>>

\* InstallationForRepo: either answer is kept for the life of the process.
AnswerInstall(c) ==
    /\ calls[c].stage = "ask_install"
    /\ IF installed
       THEN installs' = TRUE /\ Step(c, "token") /\ UNCHANGED <<noInstall, denied>>
       ELSE /\ noInstall' = TRUE /\ denied' = TRUE
            /\ Finish(c, "no_installation") /\ UNCHANGED installs
    /\ UNCHANGED <<world, token>>

\* Mutant: a token is used until it expires.
UsableToTheEnd == token # None /\ now < token + Life

Usable == token # None /\ now < token + Life - Skew

Take(c, minted) ==
    calls' = [calls EXCEPT ![c].stage = "send", ![c].tries = 0,
                           ![c].minted = minted, ![c].picked = now]

LookToken(c) ==
    /\ calls[c].stage = "token"
    /\ IF Usable THEN Take(c, token) ELSE Step(c, "ask_token")
    /\ UNCHANGED <<world, caches, denied>>

\* InstallationToken: two calls may both mint; the later answer is kept.
AnswerToken(c) ==
    /\ calls[c].stage = "ask_token"
    /\ IF installed THEN token' = now /\ Take(c, now)
       ELSE Finish(c, "error") /\ UNCHANGED token
    /\ UNCHANGED <<world, installs, noInstall, denied>>

\* doJSON: GitHub takes the request, or refuses its token.
Answer(c) ==
    /\ calls[c].stage = "send"
    /\ \/ /\ installed /\ now < calls[c].minted + Life
          /\ calls' = [calls EXCEPT ![c].stage = "done", ![c].answer = "ok",
                                    ![c].landed = @ + 1]
       \/ now >= calls[c].minted + Life /\ Finish(c, "expired")
       \/ ~installed /\ Finish(c, "error")
    /\ UNCHANGED <<world, caches, denied>>

-----------------------------------------------------------------------------
(* The world.                                                               *)

Tick ==
    /\ now < MaxTicks /\ now' = now + 1
    /\ UNCHANGED <<installed, changes, caches, denied, calls>>

\* The owner installs the app, or removes it.
Toggle ==
    /\ changes < MaxChanges /\ changes' = changes + 1
    /\ installed' = ~installed
    /\ UNCHANGED <<now, caches, denied, calls>>

\* The process restarts: its calls are gone and its caches empty.
Restart ==
    /\ changes < MaxChanges /\ changes' = changes + 1
    /\ installs' = FALSE /\ noInstall' = FALSE /\ token' = None /\ denied' = FALSE
    /\ calls' = [c \in Calls |-> Fresh(calls[c].method)]
    /\ UNCHANGED <<installed, now>>

Next ==
    \/ \E c \in Calls : \/ Start(c) \/ Fault(c)
                        \/ LookInstall(c) \/ AnswerInstall(c)
                        \/ LookToken(c) \/ AnswerToken(c) \/ Answer(c)
    \/ Tick \/ Toggle \/ Restart

Spec == Init /\ [][Next]_vars

-----------------------------------------------------------------------------
(* Properties.                                                              *)

\* However requests and answers are lost, a request that changes GitHub takes
\* effect at most once, and a call told "ok" did (httpx/transport.go 29).
ChangesLandOnce ==
    \A c \in Calls :
        /\ calls[c].method = "POST" => calls[c].landed <= 1
        /\ calls[c].answer = "ok" => calls[c].landed >= 1

\* Whoever cached it, a token refused for its age was held for longer than the
\* skew, and a call is refused for want of an installation only if GitHub said
\* there is none (app.go 26, 143, 174).
CachesServeTheLiving ==
    \A c \in Calls :
        /\ calls[c].answer = "expired" => now > calls[c].picked + Skew
        /\ calls[c].answer = "no_installation" => denied

==============================================================================
