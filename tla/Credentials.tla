---------------------------- MODULE Credentials ----------------------------
(***************************************************************************)
(* The engine's identity and its session token: the credentials file       *)
(* (config.write_credentials, load_credentials), the CLI processes that    *)
(* replace it ("register" and "session refresh", agent/auth.py), and the   *)
(* service, which loads it once and from then on has two copies of it: the *)
(* uplink's, refreshed before each connection, and the workers', which     *)
(* sign the requests for secrets and upload URLs.                          *)
(*                                                                         *)
(* A token is known by its owner and by the time it has left, in ticks; 0  *)
(* is expired.  Time passes between any two steps, but the way of a token  *)
(* from its check to the backend takes Handshake ticks at most: the        *)
(* requests have timeouts of seconds, refresh_window is five minutes.      *)
(*                                                                         *)
(* The backend is external: it mints tokens that last Lifetime, and        *)
(* accepts a token that has not expired.                                   *)
(***************************************************************************)
EXTENDS Naturals

CONSTANTS
  Clis,             \* CLI processes that may run at the same time
  Lifetime, Window, Handshake,
  MaxRegistrations, \* identities the backend hands out
  MaxKills

ASSUME CredentialsAssumption ==
  /\ {Lifetime, Window, Handshake, MaxRegistrations, MaxKills} \subseteq Nat
  /\ Handshake <= Window /\ Handshake < Lifetime

VARIABLES
  file,      \* the credentials file
  cli,       \* where each CLI process is and the credentials it holds
  pc,        \* where the service is: "off", or a step of connect_once
  uplink,    \* the uplink's credentials
  workers,   \* the workers' credentials
  slack,     \* ticks the token under way may still take
  fetched,   \* the answer to a worker's last authenticated request
  issued,    \* registrations so far
  kills

serviceVars == <<pc, uplink, workers, slack, fetched>>
vars == <<file, cli, serviceVars, issued, kills>>

\* The owner of credentials that are not there, or cannot be parsed.
Nobody == 0
None == [id |-> Nobody, life |-> 0]
Ids == 1 .. MaxRegistrations
Credential == [id : Ids \cup {Nobody}, life : 0 .. Lifetime]
Minted(i) == [id |-> i, life |-> Lifetime]
IdleCli == [at |-> "idle", holds |-> None]

Init ==
  /\ file = None /\ cli = [c \in Clis |-> IdleCli]
  /\ pc = "off" /\ uplink = None /\ workers = None /\ slack = 0 /\ fetched = "none"
  /\ issued = 0 /\ kills = 0

-----------------------------------------------------------------------------
(* refresh_session_if_needed: a token is used as it is while more than the *)
(* window is left.                                                         *)

\* Variant: a token is refreshed once it has expired.
Fresh_NoWindow(k) == k.life > 0

Fresh(k) == k.life > Window

-----------------------------------------------------------------------------
(* The CLI.  register_engine and refresh_session both end in               *)
(* write_credentials: a temporary file, then a rename.                     *)

\* The registration token is consumed; the answer may not arrive.
Register(c) ==
  /\ cli[c].at = "idle" /\ issued < MaxRegistrations
  /\ issued' = issued + 1
  /\ \/ cli' = [cli EXCEPT ![c] = [at |-> "answered", holds |-> Minted(issued')]]
     \/ UNCHANGED cli
  /\ UNCHANGED <<file, serviceVars, kills>>

\* load_credentials raises for a file that is missing or incomplete.
Load(c) ==
  /\ cli[c].at = "idle" /\ file # None
  /\ cli' = [cli EXCEPT ![c] = [at |-> "loaded", holds |-> file]]
  /\ UNCHANGED <<file, serviceVars, issued, kills>>

\* Nothing is written when the token is fresh or the request fails.
AskSession(c) ==
  /\ cli[c].at = "loaded"
  /\ \/ /\ ~Fresh(cli[c].holds)
        /\ cli' = [cli EXCEPT ![c] = [at |-> "answered", holds |-> Minted(cli[c].holds.id)]]
     \/ cli' = [cli EXCEPT ![c] = IdleCli]
  /\ UNCHANGED <<file, serviceVars, issued, kills>>

\* Variant: the file is opened for writing where it is.
Stage_InPlace(c) ==
  /\ cli[c].at = "answered"
  /\ cli' = [cli EXCEPT ![c].at = "staged"]
  /\ file' = None
  /\ UNCHANGED <<serviceVars, issued, kills>>

\* mkstemp, write, fsync and chown of the temporary file.
Stage(c) ==
  /\ cli[c].at = "answered"
  /\ cli' = [cli EXCEPT ![c].at = "staged"]
  /\ UNCHANGED <<file, serviceVars, issued, kills>>

Replace(c) ==
  /\ cli[c].at = "staged"
  /\ file' = cli[c].holds
  /\ cli' = [cli EXCEPT ![c] = IdleCli]
  /\ UNCHANGED <<serviceVars, issued, kills>>

-----------------------------------------------------------------------------
(* The service: _serve, run_forever and connect_once.                      *)

\* Both copies come from the file.
BootWith(k) ==
  /\ pc = "off" /\ k # None
  /\ pc' = "next" /\ uplink' = k /\ workers' = k
  /\ UNCHANGED <<file, cli, slack, fetched, issued, kills>>

Boot == file.life > 0 /\ BootWith(file)

\* The startup self-test presents the token to the health endpoint.  Whether
\* that refuses an expired one, and serve returns 1, is up to the backend.
BootExpired == file.life = 0 /\ BootWith(file)

\* Variant: a token that is not fresh is left to "session refresh".
CheckToken_Waits ==
  /\ pc = "next" /\ Fresh(uplink)
  /\ pc' = "dialing" /\ slack' = Handshake
  /\ UNCHANGED <<file, cli, uplink, workers, fetched, issued, kills>>

\* The check of _refresh_credentials.
CheckToken ==
  /\ pc = "next"
  /\ pc' = IF Fresh(uplink) THEN "dialing" ELSE "refreshing"
  /\ slack' = Handshake
  /\ UNCHANGED <<file, cli, uplink, workers, fetched, issued, kills>>

\* Variant: the session is that of the file's identity.
RefreshAnswers_FromFile ==
  /\ pc = "refreshing"
  /\ uplink' = Minted(file.id)
  /\ pc' = "dialing" /\ slack' = Handshake
  /\ UNCHANGED <<file, cli, workers, fetched, issued, kills>>

\* The refreshed credentials stay in the uplink's memory.
RefreshAnswers ==
  /\ pc = "refreshing"
  /\ uplink' = Minted(uplink.id)
  /\ pc' = "dialing" /\ slack' = Handshake
  /\ UNCHANGED <<file, cli, workers, fetched, issued, kills>>

\* AuthError, a refused upgrade or no network: run_forever backs off.
ConnectFails ==
  /\ pc \in {"refreshing", "dialing"}
  /\ pc' = "next" /\ slack' = 0
  /\ UNCHANGED <<file, cli, uplink, workers, fetched, issued, kills>>

Upgrade ==
  /\ pc = "dialing" /\ uplink.life > 0
  /\ pc' = "open" /\ slack' = 0
  /\ UNCHANGED <<file, cli, uplink, workers, fetched, issued, kills>>

Disconnect ==
  /\ pc = "open"
  /\ pc' = "next"
  /\ UNCHANGED <<file, cli, uplink, workers, slack, fetched, issued, kills>>

\* fetch_attempt_secrets raises AuthError for what the backend refuses.
Answer(k) == IF k.life > 0 THEN "granted" ELSE "refused"

\* _fetch_secret_env and the request for an upload URL, with the workers' copy.
WorkerRequest ==
  /\ pc # "off"
  /\ fetched' = Answer(workers)
  /\ UNCHANGED <<file, cli, pc, uplink, workers, slack, issued, kills>>

-----------------------------------------------------------------------------
(* Time and faults.                                                        *)

Older(k) == [k EXCEPT !.life = IF @ = 0 THEN 0 ELSE @ - 1]

Tick ==
  /\ pc = "dialing" => slack > 0
  /\ slack' = IF pc = "dialing" THEN slack - 1 ELSE slack
  /\ file' = Older(file) /\ uplink' = Older(uplink) /\ workers' = Older(workers)
  /\ cli' = [c \in Clis |-> [cli[c] EXCEPT !.holds = Older(@)]]
  /\ UNCHANGED <<pc, fetched, issued, kills>>

KillCli(c) ==
  /\ cli[c].at # "idle" /\ kills < MaxKills
  /\ kills' = kills + 1
  /\ cli' = [cli EXCEPT ![c] = IdleCli]
  /\ UNCHANGED <<file, serviceVars, issued>>

\* A stop or a crash.
StopService ==
  /\ pc # "off" /\ kills < MaxKills
  /\ kills' = kills + 1
  /\ pc' = "off" /\ uplink' = None /\ workers' = None /\ slack' = 0 /\ fetched' = "none"
  /\ UNCHANGED <<file, cli, issued>>

-----------------------------------------------------------------------------
Cli(c) == Register(c) \/ Load(c) \/ AskSession(c) \/ Stage(c) \/ Replace(c)

Service ==
  Boot \/ BootExpired \/ CheckToken \/ RefreshAnswers \/ ConnectFails \/ Upgrade
    \/ Disconnect \/ WorkerRequest

Next ==
  \/ \E c \in Clis : Cli(c) \/ KillCli(c)
  \/ Service \/ Tick \/ StopService

Spec == Init /\ [][Next]_vars

\* The service is started again, by systemd after a failure and by the operator
\* after a clean stop; run_forever goes on, and the backend answers again and
\* again a request that is made again and again.  The commands of the CLI are
\* not assumed to be given.
Fairness ==
  /\ WF_vars(Boot) /\ WF_vars(CheckToken)
  /\ SF_vars(RefreshAnswers) /\ SF_vars(Upgrade)

FairSpec == Spec /\ Fairness

-----------------------------------------------------------------------------
(* Properties                                                              *)

\* The variables have their types, and a service that runs has an identity that
\* the backend issued.
CredentialsTypeOK ==
  /\ {file, uplink, workers} \subseteq Credential
  /\ \A c \in Clis :
       /\ cli[c].at \in {"idle", "loaded", "answered", "staged"}
       /\ cli[c].holds \in Credential
       /\ cli[c].at # "idle" => cli[c].holds.id \in 1 .. issued
  /\ pc \in {"off", "next", "refreshing", "dialing", "open"}
  /\ slack \in 0 .. Handshake /\ fetched \in {"none", "granted", "refused"}
  /\ pc # "off" => uplink.id \in 1 .. issued /\ workers.id = uplink.id

\* The token of a connection is live until the backend has seen it, however the
\* time passes between its check and the upgrade (_refresh_credentials,
\* uplink.py:359-367, and refresh_window, auth.py:97-103).
UpgradeTokenLive == pc = "dialing" => uplink.life > 0

\* Once there are credentials in the file there always are, whenever a process
\* that writes them is killed: the engine secret is handed out once
\* (write_credentials, config.py:205-223).
CredentialsSurvive == [][file.id # Nobody => file'.id # Nobody]_vars

\* A registered engine connects, and connects again after every disconnection,
\* expiry, failure and restart, but for a restart that finds an expired token in
\* the file, which the service never writes (run_forever, uplink.py:142-154).
UplinkConnects ==
  (file # None) ~> (pc = "open" \/ (pc = "off" /\ file.life = 0))

\* The secret fetch of a build is authenticated (docs/protocol.md:22): while the
\* service runs, its workers have a token the backend accepts.
WorkersAuthenticated == fetched # "refused"

=============================================================================
