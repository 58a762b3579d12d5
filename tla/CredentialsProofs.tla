------------------------- MODULE CredentialsProofs -------------------------
(***************************************************************************)
(* Proofs about Credentials, for every number of CLI processes, every      *)
(* lifetime of a token and every refresh window that covers the handshake. *)
(*                                                                         *)
(* UpgradeTokenLive is not inductive: a tick takes from the token what it  *)
(* takes from the slack, so a token that is checked must have more left    *)
(* than the way it has to go (DialingCovered).  CredentialsSurvive needs   *)
(* that whoever writes the file holds an identity the backend issued.      *)
(***************************************************************************)
EXTENDS Credentials, TLAPS

\* The token of a connection outlasts the rest of its way to the backend.
DialingCovered == pc = "dialing" => slack < uplink.life

\* What the file holds, if anything, the backend has issued.
FileIssued == file = None \/ file.id \in 1 .. issued

CliRecord == [at : {"idle", "loaded", "answered", "staged"}, holds : Credential]

CredentialsInv ==
  /\ CredentialsTypeOK /\ cli \in [Clis -> CliRecord] /\ issued \in 0 .. MaxRegistrations
  /\ FileIssued /\ DialingCovered

-----------------------------------------------------------------------------
(* Credentials under time and renewal.                                     *)

\* Time leaves credentials their owner and takes at most a tick from them.
LEMMA OlderFacts ==
  ASSUME NEW k \in Credential
  PROVE  /\ Older(k) \in Credential /\ Older(k).id = k.id
         /\ k.life > 0 => Older(k).life = k.life - 1
  BY CredentialsAssumption DEF Credential, Older

\* Minted credentials last for the whole Lifetime.
LEMMA MintedFacts ==
  ASSUME NEW i \in Ids
  PROVE  Minted(i) \in Credential /\ Minted(i).id = i /\ Minted(i).life = Lifetime
  BY CredentialsAssumption DEF Credential, Minted

\* Credentials that are not there are nobody's, and time does not change them.
LEMMA NoneFacts == None \in Credential /\ None.id = Nobody /\ Older(None) = None
  BY CredentialsAssumption DEF Credential, None, Nobody, Older

\* The identities the backend issued are among all identities, and nobody's is not.
LEMMA IssuedFacts ==
  ASSUME NEW i \in 0 .. MaxRegistrations
  PROVE  1 .. i \subseteq Ids /\ Nobody \notin 1 .. i
  BY CredentialsAssumption DEF Ids, Nobody

-----------------------------------------------------------------------------
(* A CLI process: only its own record changes, or the file is replaced by  *)
(* what it holds.                                                          *)

\* What a step of a CLI process may make of its record.
CliOK(r, n) == r \in CliRecord /\ (r.at # "idle" => r.holds.id \in 1 .. n)

\* A step that only gives one CLI process a sound record preserves the invariant.
LEMMA CliChange ==
  ASSUME CredentialsInv, NEW c \in Clis, NEW r, NEW n \in 0 .. MaxRegistrations,
         issued <= n, issued' = n, CliOK(r, n),
         cli' = [cli EXCEPT ![c] = r],
         UNCHANGED <<file, serviceVars>>
  PROVE  CredentialsInv'
<1>1. 1 .. issued \subseteq 1 .. n /\ issued \in Nat /\ n \in Nat
  BY CredentialsAssumption DEF CredentialsInv
<1>2. cli' \in [Clis -> CliRecord]
  BY DEF CredentialsInv, CliOK
<1>3. ASSUME NEW d \in Clis PROVE CliOK(cli'[d], n)
  BY <1>1 DEF CredentialsInv, CredentialsTypeOK, CliOK
<1>4. UNCHANGED <<file, pc, uplink, workers, slack, fetched>>
  BY DEF serviceVars
<1>5. CredentialsTypeOK'
  <2>1. \A d \in Clis : /\ cli'[d].at \in {"idle", "loaded", "answered", "staged"}
                        /\ cli'[d].holds \in Credential
                        /\ cli'[d].at # "idle" => cli'[d].holds.id \in 1 .. n
    BY <1>2, <1>3 DEF CliOK, CliRecord
  <2>2. pc' # "off" => uplink'.id \in 1 .. n /\ workers'.id = uplink'.id
    BY <1>1, <1>4 DEF CredentialsInv, CredentialsTypeOK
  <2>. QED  BY <1>4, <2>1, <2>2 DEF CredentialsInv, CredentialsTypeOK
<1>. QED  BY <1>1, <1>2, <1>4, <1>5 DEF CredentialsInv, FileIssued, DialingCovered

\* A process that gave up holds nothing.
LEMMA IdleIsOK == ASSUME NEW n PROVE CliOK(IdleCli, n)
  BY NoneFacts DEF CliOK, IdleCli, CliRecord

\* Every step of a CLI process, its death included, preserves the invariant.
LEMMA CliPreserves ==
  ASSUME CredentialsInv, NEW c \in Clis, Cli(c) \/ KillCli(c)
  PROVE  CredentialsInv'
<1>1. issued \in 0 .. MaxRegistrations /\ issued <= issued
  BY CredentialsAssumption DEF CredentialsInv
<1>2. CliOK(cli[c], issued)
  BY DEF CredentialsInv, CredentialsTypeOK, CliOK
<1>3. CASE Register(c)
  <2>1. issued + 1 \in 0 .. MaxRegistrations /\ issued + 1 \in Ids /\ issued <= issued + 1
    BY <1>1, <1>3, CredentialsAssumption DEF Register, Ids
  <2>2. CliOK([at |-> "answered", holds |-> Minted(issued + 1)], issued + 1)
    BY <2>1, MintedFacts DEF CliOK, CliRecord, Ids
  <2>3. CASE cli' = [cli EXCEPT ![c] = [at |-> "answered", holds |-> Minted(issued')]]
    BY <1>3, <2>1, <2>2, <2>3, CliChange DEF Register
  <2>4. CASE UNCHANGED cli
    <3>1. cli' = [cli EXCEPT ![c] = cli[c]]
      BY <2>4 DEF CredentialsInv
    <3>2. CliOK(cli[c], issued + 1)
      BY <1>1, <1>2, CredentialsAssumption DEF CliOK
    <3>. QED  BY <1>3, <2>1, <3>1, <3>2, CliChange DEF Register
  <2>. QED  BY <1>3, <2>3, <2>4 DEF Register
<1>4. CASE Load(c)
  <2>1. CliOK([at |-> "loaded", holds |-> file], issued)
    BY <1>4 DEF Load, CredentialsInv, CredentialsTypeOK, FileIssued, CliOK, CliRecord
  <2>. QED  BY <1>1, <1>4, <2>1, CliChange DEF Load
<1>5. CASE AskSession(c)
  <2>1. cli[c].holds.id \in Ids /\ cli[c].holds.id \in 1 .. issued
    BY <1>1, <1>2, <1>5, IssuedFacts DEF AskSession, CliOK
  <2>2. CliOK([at |-> "answered", holds |-> Minted(cli[c].holds.id)], issued)
    BY <2>1, MintedFacts DEF CliOK, CliRecord
  <2>3. CASE cli' = [cli EXCEPT ![c] = [at |-> "answered", holds |-> Minted(cli[c].holds.id)]]
    BY <1>1, <1>5, <2>2, <2>3, CliChange DEF AskSession
  <2>4. CASE cli' = [cli EXCEPT ![c] = IdleCli]
    BY <1>1, <1>5, <2>4, IdleIsOK, CliChange DEF AskSession
  <2>. QED  BY <1>5, <2>3, <2>4 DEF AskSession
<1>6. CASE Stage(c)
  <2>1. cli' = [cli EXCEPT ![c] = [cli[c] EXCEPT !.at = "staged"]]
    BY <1>6 DEF Stage
  <2>2. CliOK([cli[c] EXCEPT !.at = "staged"], issued)
    BY <1>2, <1>6 DEF Stage, CliOK, CliRecord
  <2>. QED  BY <1>1, <1>6, <2>1, <2>2, CliChange DEF Stage
<1>7. CASE Replace(c)
  <2>1. file' \in Credential /\ file'.id \in 1 .. issued
    BY <1>2, <1>7 DEF Replace, CliOK, CliRecord
  <2>2. /\ cli' \in [Clis -> CliRecord]
        /\ \A d \in Clis : CliOK(cli'[d], issued)
    BY <1>7, IdleIsOK DEF Replace, CredentialsInv, CredentialsTypeOK, CliOK
  <2>3. UNCHANGED <<pc, uplink, workers, slack, fetched, issued>>
    BY <1>7 DEF Replace, serviceVars
  <2>4. CredentialsTypeOK'
    BY <2>1, <2>2, <2>3 DEF CredentialsInv, CredentialsTypeOK, CliOK, CliRecord
  <2>. QED  BY <2>1, <2>2, <2>3, <2>4 DEF CredentialsInv, FileIssued, DialingCovered
<1>8. CASE KillCli(c)
  BY <1>1, <1>8, IdleIsOK, CliChange DEF KillCli
<1>. QED  BY <1>3, <1>4, <1>5, <1>6, <1>7, <1>8 DEF Cli

-----------------------------------------------------------------------------
(* The service.                                                            *)

\* A step of the service that leaves it sound preserves the invariant.
LEMMA ServiceChange ==
  ASSUME CredentialsInv, UNCHANGED <<file, cli, issued>>,
         uplink' \in Credential, workers' \in Credential,
         pc' \in {"off", "next", "refreshing", "dialing", "open"},
         slack' \in 0 .. Handshake, fetched' \in {"none", "granted", "refused"},
         pc' # "off" => uplink'.id \in 1 .. issued /\ workers'.id = uplink'.id,
         DialingCovered'
  PROVE  CredentialsInv'
<1>1. CredentialsTypeOK'
  BY DEF CredentialsInv, CredentialsTypeOK
<1>. QED  BY <1>1 DEF CredentialsInv, FileIssued

\* Every step of the service and its stop preserve the invariant.
LEMMA ServicePreserves ==
  ASSUME CredentialsInv, Service \/ StopService
  PROVE  CredentialsInv'
<1>. USE CredentialsAssumption
<1>1. /\ {file, uplink, workers} \subseteq Credential
      /\ pc \in {"off", "next", "refreshing", "dialing", "open"}
      /\ slack \in 0 .. Handshake /\ fetched \in {"none", "granted", "refused"}
      /\ pc # "off" => uplink.id \in 1 .. issued /\ workers.id = uplink.id
      /\ uplink.life \in Nat
  BY DEF CredentialsInv, CredentialsTypeOK, Credential
<1>2. CASE Boot \/ BootExpired
  BY <1>1, <1>2, ServiceChange
     DEF Boot, BootExpired, BootWith, CredentialsInv, FileIssued, DialingCovered
<1>3. CASE CheckToken
  <2>1. DialingCovered'
    BY <1>1, <1>3 DEF CheckToken, Fresh, DialingCovered
  <2>. QED  BY <1>1, <1>3, <2>1, ServiceChange DEF CheckToken
<1>4. CASE RefreshAnswers
  <2>1. uplink.id \in 1 .. issued /\ uplink.id \in Ids
    BY <1>1, <1>4, IssuedFacts DEF RefreshAnswers, CredentialsInv
  <2>2. uplink' \in Credential /\ uplink'.id = uplink.id /\ uplink'.life = Lifetime
    BY <1>4, <2>1, MintedFacts DEF RefreshAnswers
  <2>3. DialingCovered'
    BY <1>4, <2>2 DEF RefreshAnswers, DialingCovered
  <2>. QED  BY <1>1, <1>4, <2>1, <2>2, <2>3, ServiceChange DEF RefreshAnswers
<1>5. CASE ConnectFails
  BY <1>1, <1>5, ServiceChange DEF ConnectFails, DialingCovered
<1>6. CASE Upgrade
  BY <1>1, <1>6, ServiceChange DEF Upgrade, DialingCovered
<1>7. CASE Disconnect
  BY <1>1, <1>7, ServiceChange DEF Disconnect, DialingCovered
<1>8. CASE WorkerRequest
  <2>1. DialingCovered'
    BY <1>8 DEF WorkerRequest, CredentialsInv, DialingCovered
  <2>. QED  BY <1>1, <1>8, <2>1, ServiceChange DEF WorkerRequest, Answer
<1>9. CASE StopService
  BY <1>1, <1>9, NoneFacts, ServiceChange DEF StopService, DialingCovered
<1>. QED  BY <1>2, <1>3, <1>4, <1>5, <1>6, <1>7, <1>8, <1>9 DEF Service

\* Time preserves the invariant: the token under way and its slack shrink together.
LEMMA TickPreserves ==
  ASSUME CredentialsInv, Tick
  PROVE  CredentialsInv'
<1>. USE CredentialsAssumption
<1>1. {file, uplink, workers} \subseteq Credential /\ slack \in 0 .. Handshake
  BY DEF CredentialsInv, CredentialsTypeOK
<1>2. /\ {file', uplink', workers'} \subseteq Credential
      /\ file'.id = file.id /\ uplink'.id = uplink.id /\ workers'.id = workers.id
      /\ uplink.life > 0 => uplink'.life = uplink.life - 1
  BY <1>1, OlderFacts DEF Tick
<1>3. ASSUME NEW d \in Clis
      PROVE  cli'[d] \in CliRecord /\ cli'[d].at = cli[d].at /\ cli'[d].holds.id = cli[d].holds.id
  <2>1. cli[d] \in CliRecord /\ cli[d].holds \in Credential
    BY DEF CredentialsInv, CliRecord
  <2>2. cli'[d] = [at |-> cli[d].at, holds |-> Older(cli[d].holds)]
    BY <2>1 DEF Tick, CliRecord
  <2>. QED  BY <2>1, <2>2, OlderFacts DEF CliRecord
<1>4. cli' \in [Clis -> CliRecord]
  BY <1>3 DEF Tick
<1>5. slack' \in 0 .. Handshake /\ DialingCovered'
  <2>1. uplink.life \in Nat
    BY <1>1 DEF Credential
  <2>. QED  BY <1>1, <1>2, <2>1 DEF Tick, CredentialsInv, DialingCovered
<1>6. FileIssued'
  BY <1>2, NoneFacts DEF Tick, CredentialsInv, FileIssued
<1>7. CredentialsTypeOK'
  <2>1. \A d \in Clis : /\ cli'[d].at \in {"idle", "loaded", "answered", "staged"}
                        /\ cli'[d].holds \in Credential
                        /\ cli'[d].at # "idle" => cli'[d].holds.id \in 1 .. issued
    BY <1>3 DEF CredentialsInv, CredentialsTypeOK, CliRecord
  <2>. QED  BY <1>2, <1>5, <2>1 DEF Tick, CredentialsInv, CredentialsTypeOK
<1>. QED  BY <1>4, <1>5, <1>6, <1>7 DEF Tick, CredentialsInv

-----------------------------------------------------------------------------
(* Theorems                                                                *)

\* The invariant holds when nothing is registered and nothing runs.
LEMMA InvInit == Init => CredentialsInv
<1>. SUFFICES ASSUME Init PROVE CredentialsInv  OBVIOUS
<1>1. /\ cli \in [Clis -> CliRecord]
      /\ \A c \in Clis : cli[c].at = "idle" /\ cli[c].holds \in Credential
  BY NoneFacts DEF Init, IdleCli, CliRecord
<1>2. CredentialsTypeOK
  BY <1>1, NoneFacts, CredentialsAssumption DEF Init, CredentialsTypeOK
<1>. QED  BY <1>1, <1>2, CredentialsAssumption DEF Init, CredentialsInv, FileIssued, DialingCovered

\* What has been shown of each actor, put together.
LEMMA InvNext == CredentialsInv /\ [Next]_vars => CredentialsInv'
<1>. SUFFICES ASSUME CredentialsInv, [Next]_vars PROVE CredentialsInv'  OBVIOUS
<1>1. CASE Next
  BY <1>1, CliPreserves, ServicePreserves, TickPreserves DEF Next
<1>2. CASE UNCHANGED vars
  BY <1>2 DEF vars, serviceVars, CredentialsInv, CredentialsTypeOK, FileIssued, DialingCovered
<1>. QED  BY <1>1, <1>2

\* The service and the CLI processes keep their types, and a service that runs has
\* an identity that the backend issued, whoever replaces the file meanwhile
\* (load_credentials, _run_service).
THEOREM IdentitiesAreIssued == Spec => []CredentialsTypeOK
<1>1. CredentialsInv => CredentialsTypeOK  BY DEF CredentialsInv
<1>. QED  BY <1>1, InvInit, InvNext, PTL DEF Spec

\* No connection is opened with an expired token, for every lifetime and every
\* refresh window that covers the way of the token to the backend
\* (_refresh_credentials, uplink.py:359-367).
THEOREM ConnectionsUseLiveTokens == Spec => []UpgradeTokenLive
<1>1. CredentialsInv => UpgradeTokenLive
  BY CredentialsAssumption
     DEF CredentialsInv, CredentialsTypeOK, Credential, DialingCovered, UpgradeTokenLive
<1>. QED  BY <1>1, InvInit, InvNext, PTL DEF Spec

\* No step of any number of CLI processes, killed at any point, loses the
\* credentials (write_credentials, config.py:205-223).
THEOREM CredentialsAreNeverLost == Spec => CredentialsSurvive
<1>1. CredentialsInv /\ [Next]_vars => [file.id # Nobody => file'.id # Nobody]_vars
  <2>. SUFFICES ASSUME CredentialsInv, Next, file.id # Nobody PROVE file'.id # Nobody
    OBVIOUS
  <2>1. ASSUME NEW c \in Clis, Replace(c) PROVE file'.id # Nobody
    BY <2>1, IssuedFacts DEF Replace, CredentialsInv, CredentialsTypeOK
  <2>2. CASE Tick
    BY <2>2, OlderFacts DEF Tick, CredentialsInv, CredentialsTypeOK
  <2>3. CASE UNCHANGED file
    BY <2>3
  <2>. QED
    BY <2>1, <2>2, <2>3
       DEF Next, Cli, Register, Load, AskSession, Stage, KillCli, Service, Boot, BootExpired,
           BootWith, CheckToken, RefreshAnswers, ConnectFails, Upgrade, Disconnect,
           WorkerRequest, StopService
<1>. QED  BY <1>1, InvInit, InvNext, PTL DEF Spec, CredentialsSurvive

=============================================================================
