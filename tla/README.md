# Formal model of SecureSSHLinuxClient

TLA+ specifications, TLC model-checking runs and TLAPS proofs for the SSH
certificate system of this repository: a broker that signs short-lived SSH
certificates, a client on Linux endpoints that enrolls and renews them, and the
scripts that enforce them on the servers. Paths below are relative to the
repository root; `tla/` holds the models.

## 1. Inventory

| Part | Code | State it keeps | Operations | Interacts with |
| --- | --- | --- | --- | --- |
| Broker API and audit log | `app/api/routes.py`, `app/main.py`, `app/models/schemas.py` | the audit log | `sign_user`, `sign_host`, CA public keys, inspection, demo keys | signing service; sync handlers run on a pool of threads |
| Signing service | `app/services/signing.py` | none (temporary directories) | `sign_certificate`, `_run_ssh_keygen` | idempotency store, `ssh-keygen` |
| Idempotency store | `app/services/idempotency.py` | SQLite table `sign_requests` | `build_hash`, `get`, `put` | shared by all threads, survives restarts |
| Authentication, validators, profiles | `app/security/auth.py`, `app/utils/validators.py`, `app/services/extension_profiles.py` | none | token to role, TTL and principal checks, profile to permissions, role to profile | called before signing |
| Configuration | `app/config.py` | settings read at start | token map, startup validation | start of the broker |
| Client commands | `src/zfcssh_client/cli.py` | none | `bundle import`, `enroll`, `renew`, `ssh`, `status`, `verify` | every run is a process of its own |
| Client files | `src/zfcssh_client/certificates.py` | key pair, certificate, host CA, `known_hosts` | generate, install, inspect, `needs_renewal` | shared by all processes, no lock |
| Broker client | `src/zfcssh_client/broker.py`, `profiles.py` | none | `get_host_ca_public_key`, `request_user_certificate`, 15 s timeout | the broker over mTLS |
| Bundle | `src/zfcssh_client/bundle.py`, `models.py` | metadata and mTLS files | import, load | read by every enrollment |
| Renewal timer | `systemd/user/` | last activation | `zfcssh renew --if-needed` every 15 to 16 minutes | client commands |
| Session enforcer | `scripts/ssh_session_enforcer.sh`, its timer | none | terminate sessions whose certificate expired, every 60 to 70 s | sshd sessions, process ids |
| Authorized principals | `scripts/authorized_principals_command.sh` | reads the allowed stages file | allow or deny a login | called by sshd |
| Installers, nginx, sshd configuration, web page | `scripts/install_*.sh`, `nginx/`, `docs/sshd_config`, `app/ui/` | files | linear installation, presentation | |

What is hard here, and what makes each part correct:

* *Broker.* Threads interleave between the `SELECT` and the `INSERT OR REPLACE`
  of one request; the process can die and be restarted at any step; SQLite and
  `ssh-keygen` can fail; an answer can be lost after the certificate exists.
  Correct means: callers get exactly what they asked for, nobody but logging
  itself loses a line about a certificate in a caller's hands, and identical
  requests get one answer.
* *Client.* The timer and the user's commands run at the same time on files
  that are truncated before they are written; a process can be killed between
  two writes; calls fail or time out, or are answered with an old certificate.
  Correct means: the files on disk fit each other, a valid certificate is not lost,
  and the client goes on asking by itself.
* *Time.* A renewal window, a timer period with slack, renewals that bring nothing
  and a clock read in the wrong zone decide whether renewal is asked for in time.
* *Policy.* Six roles, seven profiles, overrides and limits decide what a
  certificate may contain, and rows signed under other settings outlive the
  restart that changed them. Correct means: whatever answers a request, the
  caller may have it now and finds in it the restrictions it asked for.
* *Trust.* `known_hosts` belongs to the client, to `ssh`, to the endpoint installer
  and to the user's editor at once, and a bundle is several files that are replaced
  one by one. Correct means: nothing foreign is lost, no old CA stays in the block
  the client manages, and after any accident trust and bundle come back.
* *Server scripts.* A pass over sessions that end, expire and reuse process ids
  while the script sleeps; a decision that depends on how a list is parsed.
  Correct means: every expired session ends in time and nothing else does; who
  logs in has an allowed stage.

`PROJECT.json` lists all components with their status and every hazard at its line.

## 2. Modules

| Module | What it is |
| --- | --- |
| `IdempotentIssuance` | abstract: what the broker promises about identical requests |
| `SigningService` | the broker's signing path in detail; implements `IdempotentIssuance` |
| `ClientAgent` | the processes of one client and the files they share |
| `EndToEnd` | `ClientAgent` processes and `SigningService` threads together; implements `ClientAgent` |
| `RenewalTimer` | the timer, the renewal window and expiry, minute by minute |
| `IssuancePolicy` | settings, tokens, roles, validators and profiles: who gets which certificate |
| `ClientTrust` | the bundle's files and the managed block of `known_hosts`, shared with ssh, the installer and the user |
| `AuthorizedPrincipals` | the login decision, as operators |
| `TargetHost` | a target host: logins by `AuthorizedPrincipals`, sessions, the enforcer and its timer |
| `Lists` | Python lists: membership, the list a loop with a test leaves, `dict.fromkeys` |
| `MC*` | constants, symmetry and views for TLC |
| `*Proofs` | theorems about the module of the same name and their proofs (`SigningService`, `ClientAgent`, `EndToEnd`, `RenewalTimer`, `IssuancePolicy`, `ClientTrust`, `TargetHost`, `Lists`) |

Operators named `X_Something` next to a definition `X` are faulty variants of it
(one plausible bug each); `PROJECT.json` says which property each one breaks.

### SigningService

State: `store` is the table (a certificate or `None` per request key), `audit`
the set of audit lines that are in the log, `gaps` whether logging has lost one,
`delivered` the certificates that reached a caller, `minted` the count of signatures; per worker thread `pc`, `req` and `cert`, the
local variables of the handler. A certificate has an `id` (its serial and
nonce), so that two signatures of one request differ, and the `signer` thread,
a history value used by one property.

| Action | Code |
| --- | --- |
| `Accept` | validated request enters `sign_certificate` |
| `StoreHit`, `StoreMiss` | `store.get` and the test of its result |
| `RunKeygen`, `KeygenFails` | `_run_ssh_keygen` returns, or raises `HTTPException` |
| `StorePut` | `INSERT OR REPLACE` |
| `HandlerRaises` | an error that is no `HTTPException`, from SQLite or the temporary files: no audit line, HTTP 500 |
| `AuditOk`, `AuditFailed` | `audit()`; the failed one re-raises |
| `RotateAway` | the oldest log file is removed |
| `Respond`, `RespondLost` | response; the caller has given up |
| `Crash` | process dies, systemd restarts it, table and log stay |

`sign_host` runs the same actions with `certType = "host"` (the roles, the
validation and the permissions differ, and they come before `Accept`). The hash
is taken to be injective. Each SQLite statement is atomic.

The log is what `logging` makes of it (`WriteLine`): a line may be dropped, because
`LOG_LEVEL` is above it or because the write failed, which the handler swallows, and
any line may later be rotated away. The caller of `audit()` is told of none of this.
`gaps` remembers it, so that a property can say what the log covers as long as
logging has lost nothing; that it loses nothing is not claimed.

### ClientAgent

State: the files `priv`, `pub`, `certFile` and `trust` (host CA file and managed
block of `known_hosts` together), each possibly `Absent` and the written ones
possibly `Torn`; per process the stage, the command, the public key and the
certificate received; `issued`, what the broker's store holds for the request;
`abandoned`, the keys a handler is still at work on although nobody waits for it.
`write_text` is two actions, `Blank...` (open truncates) and `Write...`.
`Kill` ends a process between any two of its actions. Stages follow the order of
the calls in `_renew`, `_enroll` and `_ssh`:

    inspect -> key -> (keygen -> genpriv -> genpub) -> fetch -> cablank ->
    cawrite -> loadpub -> request -> blank -> write -> (launch)

`enroll` and `verify` enter at `key`, `ssh --skip-renew` at `launch`. `renew`
and `renew --force` are one command here: without `--if-needed` the decision is
never asked. `status`, and commands that end while loading the bundle, change no
file and are not modelled. Time is relative: a certificate carries the ticks it
has left; `Tick` ages the installed certificate, those in processes and those in
the broker's store. Ticks do not pass while a process stands between two local
file operations, only while it waits for the broker or for a person.

The broker is the one of this repository: `Answer` is the certificate it keeps for
the request, whatever is left of its lifetime, and a new one only for a request that
has no row. All commands ask with the bundle's parameters, so requests differ by
their public key only and there is one row per key; `--ttl`, `--principal` and
`--profile` are left out (and with them a case in which the property
`ValidCertSurvives` would not hold: the timer's own row may be older than a
certificate enrolled by hand with other parameters, and is written over it).

A client that gives up after 15 s (`CallFails`) or is killed while it waits does not
stop the handler, so `Abandons` may leave one behind. `HandlerStores` is a handler
that signs and stores before or without an answer, `HandlersEnd` late ones that fail
or die with the broker. A timeout after the certificate was signed is thus
`HandlerStores` followed by `CallFails`, and the next request finds the row.

### EndToEnd

The client's processes and the broker's threads in one state: the variables of
`ClientAgent` without its table, those of `SigningService` (its `pc` is `stage`
here), and two more. `call` is the thread a process waits for, `None`, or `Lost`
when it ended without a certificate; `left` says of every certificate signed how
many ticks it is still valid.

| Action | Client | Broker |
| --- | --- | --- |
| `ClientStep` | `Start` and `Local` of `ClientAgent` | |
| `Send` | the request leaves | `Accept` |
| `Handle`, `Sign` | | one step of a handler: lookup, `ssh-keygen`, row, audit line |
| `Respond` | the certificate arrives | the handler ends |
| `EndWithoutAnswer`, `Restart` | the call is lost | an error or a broken connection; `Crash` |
| `LogRotates` | | `RotateAway` |
| `GiveUp`, `Kill` | the command ends | nothing: the handler goes on |

Identical requests may be in flight together (`SerialCallers = FALSE`): the timer
and the user ask for the same certificate, and nothing in the client prevents it.
The table `ClientAgent` assumes is not a variable but what is seen of this state:
`Issued` is the row of each key with the ticks its certificate has left, `Abandoned`
the keys without a row that a handler without a caller may still write one for. With
them `ImplementsClient` is the specification of `ClientAgent`. A handler that writes
the first row of a key is its `HandlerStores`; the rows of later ones change nothing
that the client can tell, which is the property `OneExpiry`. The answer is its
`RequestCertificate`.

`Send` presupposes that the request is authenticated. The client itself sends no
`Authorization` header (`broker.py:58-64`), and nginx adds none, so that `auth.py:15-20`
as it stands answers it with 401; `docs/specification.md:16` calls the Bearer token a
transitional form of a deployment that identifies clients by mTLS. The model is of that
deployment; with the token check in front, the composed system would issue nothing.
Tokens and roles are the subject of `IssuancePolicy`.

`Tick` is that of `ClientAgent` and needs also that no handler stands between its
lookup and its row: running `ssh-keygen` and writing one row take no time on the
scale of a tick. Two certificates of one race therefore expire in the same tick, in the
program within seconds of each other.

### RenewalTimer

State: lifetime `ttl`, minutes `left`, minutes `gap` since the last activation,
`tries`, how often the timer has tried to renew since the certificate was installed,
and `kept`, whether the broker still has the installed certificate as its row. The
service is started between `Period` and `Period + Accuracy` minutes after its last
start.

| Action | Code |
| --- | --- |
| `OutsideWindow` | `needs_renewal` says no |
| `AnsweredFromStore` | the unchanged request finds its row: the installed certificate comes back |
| `RenewalFails` | the broker is unreachable or refuses |
| `Renewed` | there is no row: a certificate of full lifetime is signed |
| `EnrolledByHand` | the user's own enrollment or forced renewal, with a new certificate |
| `RowIsGone` | the table was emptied, or a restart brought settings that are part of the hash |

The normal course with this broker is `AnsweredFromStore` over and over, until the
certificate has expired and beyond; what the model then shows is that the client asked
in time. `LocalOffset` is local time minus UTC, added to the remaining time as
`_parse_ssh_time` does. Torn files and overlapping commands are in `ClientAgent`.
`ssh-keygen -V +1h` dates the start of validity back by up to a minute or two,
which widens a window of 15 minutes by less than half a minute; the slack of the
timer is a whole minute, so the model leaves it out.

### IssuancePolicy

State: `config`, the settings of the running broker or `None`; `rows`, the table,
from what is hashed to the certificate; `reply`, the request last handled and
what came of it. `Boot` is `main` with `ensure_startup_ready`: other settings end
the process. `Handle` is one request, with a disjunct per outcome:

| Action | Code |
| --- | --- |
| `Unauthenticated` | `_bearer_token` (401), no role has this token (403) |
| `WrongRole` | `require_user_sign_role`, `require_host_sign_role` |
| `Invalid` | a validator, `normalize_ttl` or an unknown profile (422) |
| `ProfileForbidden` | `check_role_profile_access` |
| `Reused`, `Signed`, `SigningFails` | `sign_certificate`: row found, certificate signed, or an error |

The tables of roles and profiles are written out as in the code; `Updated` is
`dict.update`. The CA keys are settings like the others (`ca`): they decide what is
signed and are not part of the hash, so that a row answers with a certificate of the
CA it was signed by.
A request is one step, because threads share nothing before `sign_certificate`;
their races are the subject of `SigningService`. Texts are reduced to what the
checks tell apart: a malformed key or key id is one outcome, a token is its
stripped text and whether it was padded, a lifetime a number and a unit, a source
address its pieces.

### ClientTrust

State: `disk`, the files `client.crt`, `client.key`, `ca.crt`, `bundle.json` and
`zfcssh_host_ca.pub` (each a bundle or CA, `Absent` or `Torn`); `known`, the lines
of `known_hosts` (none if there is no file, as in the code); per process the stage,
the bundle, the fetched CA and `existing_lines`. An import goes `crt -> key -> ca -> meta`, with `RefuseBundle`
before the first write and `RefuseSshSection` after the third, where the code
looks at `ssh` and `identity`. An enrollment goes
`load -> fetch -> hostca -> read -> truncate -> write`; what `_enroll` does after
`install_host_ca` is in `ClientAgent`. The merge is `Rebuild`, on sequences of
lines: `Kept` drops what `skip` drops, `Managed` is the block. `Overwrite` is a
write into a file another process has filled since it was truncated.
The user's ssh appends lines (`AddHost`), and so does `install_client_endpoint.sh`
(`InstallEndpoint`): an `@cert-authority` line for its `HOST_PATTERN` and the CA of that
moment, outside the block. The script does so only if its `grep` does not find the
pattern; as `grep` takes it for a regular expression, a pattern such as `*.plant` is not
found even in a line that has it, and `Patterns` are patterns of this kind. (The script
is an action and not an initial state, because it may be run at any time.) Both kinds of
line are `Others`, and `added` remembers them. The user deletes a marker
(`BreakBlock`), processes are killed, and the operator rotates the CA. Several processes
may import at once (`Importers`); `crossed` are those that have met another import.

### AuthorizedPrincipals and TargetHost

`Admits` is the script's decision over user, key and stages file. `Listed` is the
list as the `sed` range reads it: it ends at the next line that begins with a
capital letter, meant for the next heading. `MayLogIn` is goal G-02 of
`docs/specification.md:159` with the target's stages.

State of `TargetHost`: what process has each number, the stages file, the
enforcer's stage, the numbers it has still to look at (`todo`), the one between
HUP and TERM (`target`), and the ticks since the timer last fired. A tick is the 5
seconds of `sleep 5`. `now` is not stored: expiry and clock are relative, and
`left + since <= 0` is the comparison of an expiry with the start of the pass.
`Judge` reads the certificate and finds it expired, `Hup` is a step of its own, in which
whatever has the number by then ends or not, and `Term` ends whatever has it then;
between any two of them the session may end and its number go to another process
(`handedOn`). `FailPass` is `exit 1` of the prerequisites or a `logger` that fails under
`set -e`, before a HUP or at the end. Assumed of sshd, not shown: that a session's
process carries `SSH_AUTH_INFO_FILE` in its environment and that a certificate's line
there begins with `ssh-`. The sshd of OpenSSH names the file in `SSH_USER_AUTH`, and its
lines begin with `publickey`; with that sshd the script would find no session at all, and
what is shown of `TargetHost` is what it does where its assumption is met.

## 3. Runs

| Run | Properties | Shows |
| --- | --- | --- |
| `signing_serial` | `TypeOK`, `IdempotentAnswers`, `ImplementsPromise` | under the retry rule the detailed path implements the promise |
| `signing_concurrent` | `GrantsWhatWasAsked`, `AuditCoversAnswers`, `OneCertPerThread`, `SettledForever` | what holds when identical requests race and the log loses lines |
| `signing_duplicate` | `IdempotentAnswers` violated | two identical requests, two certificates |
| `client_first_enroll` | `TypeOK`, `InstalledCertFits`, `ValidCertSurvives` | an empty machine, kills, regenerated keys, late handlers, answers out of the store |
| `client_recovery` | `InstalledCertFits`, `NothingLeftTorn`, `ValidCertSurvives`, `SshStartsReady`, `TimerRecovers`, `EnrollRecovers` | the timer and a terminal on the same files; `zfcssh ssh` starts with everything in place; the timer puts things back and keeps asking without kills, `enroll` puts them back after kills too |
| `end_to_end` | `TypeOK`, `OneExpiry`, `InstalledIsAudited`, `ImplementsClient` | for its clients the broker's racing threads are one table; what is installed is in the log unless logging lost it |
| `client_cached_answer` | `CertificateReturns` violated | answers out of the store: expired for ever |
| `renewal_asks` | `TypeOK`, `AsksBeforeExpiry` | how often the timer tries before each lifetime is over |
| `renewal_local_time` | `RenewedBeforeExpiry` violated | east of UTC renewal comes too late |
| `policy` | `TypeOK`, `OnlyPermitted`, `RestrictionsKept`, `LifetimeAsAsked`, `DefaultsAccepted` | requests of every role over restarts with other settings and CA keys |
| `client_trust` | `TypeOK`, `BundleFits`, `LinesKept`, `OneBlock`, `StaysSmall`, `TrustFollowsCa`, `ImportRecovers` | imports, overlapping enrollments and the installer on shared files |
| `target_host` | `TypeOK`, `OverdueBounded`, `LoginDecision`, `OnlyExpiredEnded`, `ExpiredSessionsEnd` | sessions, passes and process numbers; the login decision |

No run disables the deadlock check.

### Bounds and why they are enough

* Two threads: every race of the signing path is between two requests for one
  key. Two grants let a hash mix up requests; two callers let one be
  audited for the other. `MaxCerts = 2` is one signature per racing thread; a
  third finds a row or repeats what the second did. The proofs need no bound.
* Threads and callers are used only in equality tests and as function domains,
  so `Interchangeable` is a sound symmetry for safety. No run under symmetry
  states a liveness property (`SettledForever`, `ImplementsPromise` and
  `ImplementsClient` are `[][A]_v` formulas, the last two with an initial predicate).
* Client: `client_recovery` has the timer and one terminal, as one process writes
  while the other inspects or starts `ssh`; a third one makes its liveness
  properties too expensive, and the theorems have no bound on processes. A lifetime of
  4 ticks with a window of 1 is the one-hour profile in quarters of an hour; 2 ticks
  where only "valid, inside the window, expired" matter. Two kills: one can hit any
  stage, the second the recovery from the first. An empty machine has one process
  (see the end of section 6). `MaxKeys` bounds generated pairs: a process that would
  exceed it waits (and can still be killed), a state the liveness runs never reach
  because their key pair exists.
* Both together: the timer and one terminal, two threads, one kill, one key pair
  and two certificates, one per racing thread. `Ttl = 1` tells "valid" from
  "expired", which is all that `OneExpiry` and the refinement tell apart, and lets a
  tick fall between two renewals. `WhatMatters` (VIEW) leaves out `delivered` and the
  audit lines without `ok`: no property of this run reads them. `LogComplete`
  (CONSTRAINT) does not follow a behaviour beyond a lost line: no other step reads the
  log, so what comes after it also comes after a line that was kept, where
  `InstalledIsAudited` asks for more. The step that loses it is checked.
* Policy: settings that differ in one thing each (a token used twice, a padded
  one, lower limits, another default profile, another CA key, settings that startup
  must refuse)
  and requests for every role, type, profile and override; see `MCIssuancePolicy`.
  Two rows are enough for one that an earlier configuration left behind beside one
  of the running one. Source addresses are two that parse and one that does not.
* Trust: two processes, the timer and a terminal that also imports. (With both
  importing, the safety properties hold in 1.07 million states, but the liveness
  properties take longer than the five minutes set for a run; the theorems have any
  number of importers.) One line of others (`MaxAdded`), from ssh or from the installer;
  a rotation may come before it or after it. Two bundles,
  one of them refused half way, so that the files of one can lie under the
  metadata of the other. `MaxEvents = 1`: one rotation, kill or deleted marker per
  behaviour, at any point of it; two of them together were left out to keep the
  liveness check small. After one write into another's (`mixed`) no further ones
  are followed, as the file would grow with each of them.
* Target host: three numbers, so that one session can stand before and one behind
  another in a pass, and a number can be handed on. A period of 3 ticks with one
  tick of slack stands for 12 and 2: what matters is that a pass can take longer
  than a period, and three sessions of 5 seconds do. The bound is reached: some
  state has a session overdue by `Bound - 1`. Lists of up to three of four names are all
  lists in which user, two stages and a capital name can stand in any order.
  `MaxOverdue` lies above the bound, so that counting further changes nothing.
* Timer: the lifetimes are those of `PROFILE_TTLS`. The longest, 12 hours, has a
  window of three hours and has room for 10 tries, so that it expires after 11 at the
  earliest; 12 are allowed.
  `Floor` stops an expired certificate from ageing without end.

## 4. Fairness

`ClientAgent!FairSpec` assumes

* `WF(Step(p))`: a started process runs on. Every step is local work, a call
  with a 15 s timeout, or a prompt; nothing in the client waits for another
  process.
* `SF` of the successful broker calls: the broker and the network may fail any
  number of times, but a call made again and again is answered in the end, with
  whatever the broker's table has. This is an assumption on the environment:
  without it no client can renew.
* `WF(Start(Timer, ...))`: the timer is enabled and active, so systemd starts the
  service again after each run, however it ended.

`EnrollRecovers` has a further premise of its own: per terminal, a user who runs
`enroll` again and again (strong fairness, as other commands may come in
between). It shows that `enroll` is the way out of a torn file.

`ClientTrust!FairSpec`: a started command runs on (`WF`); calls to the broker
succeed in the end and every process enrolls again and again (`SF`), which is the
timer's work; the files a bundle names can be read in the end. `ImportRecovers`
has the premise that in the end one valid bundle is imported again and again and no
other one.

`TargetHost!FairSpec`: time passes, systemd starts the unit when its timer is due
and the script runs on. Nothing is assumed of sessions: they may ignore HUP, but
not TERM. That passes do not fail for ever is the bound `MaxFailed`.

The signing, policy, timer and composed models state no liveness.

## 5. Properties

Signing: `GrantsWhatWasAsked` (the hash separates what `ssh-keygen` would sign
differently for two requests), `AuditCoversAnswers` (unless logging lost a line, nothing
in a caller's hands is unaudited; and whatever it lost, an `ok` line means a retry can be
answered), `OneCertPerThread` (the race costs at most one extra certificate per thread),
`SettledForever` (it happens once in the life of a key), `IdempotentAnswers` and
`ImplementsPromise` (under the retry rule of `docs/specification.md:326` there is no race
at all).

Client: `InstalledCertFits` (certificate, key pair and host CA belong together
in every state), `NothingLeftTorn` and `ValidCertSurvives` (only a kill leaves
damage; a valid certificate gives way only to a successor about to be written),
`SshStartsReady` (ssh starts with everything in place and a certificate as fresh as the
broker would give), and the liveness properties. `CertificateReturns`, the one a user
would ask for, is refuted by a run: the broker answers with the expired certificate for
ever. `TimerRecovers` and `EnrollRecovers` say what the client achieves all the same:
missing and torn files come back (`PutsInPlace`), and the timer does not stop asking for
an expired certificate and installing the answer (`AsksAgain`). Neither says that what is
installed is valid.

Client and broker: `OneExpiry` (two racing requests may get two certificates; all
that anybody installs, holds or is about to receive expires together with the row),
`InstalledIsAudited` (unless logging lost a line, nothing is installed that the log does
not show as issued, also when the broker dies between the row and the line) and
`ImplementsClient`.

Timer: `AsksBeforeExpiry`: if `(n+1)` longest gaps fit into the lifetime and into
the window, a certificate does not expire before the timer has tried to renew it more
than `n` times, whatever became of the tries. Whether they bring a new certificate is up
to the broker.

Policy: `OnlyPermitted` (every certificate served, also out of a row, is within
what the settings in force permit this caller; its CA key is one for its type, but may
be that of earlier settings), `RestrictionsKept` (a source address or forced command
given as a shorthand, and the critical options of a custom profile that no shorthand
replaces, are in the certificate with their values; options sent along with a built-in
profile are dropped, as the docstring of `resolve_profile` says, and then only shorthands
restrict), `LifetimeAsAsked` (no row of another configuration answers with another
lifetime; how much of it is left is another matter), and `DefaultsAccepted` (what startup
validation is for: a request that relies on the defaults is refused by no check, if its
role may use the default profile; `dev` may not use `field_operation`, and startup does
not look at that).

Trust: `BundleFits`, `LinesKept`, `OneBlock` (one block, with all authorities of the
client, of one CA, and the lines of others outside it), `StaysSmall`, and the liveness
properties `TrustFollowsCa` and `ImportRecovers`. The safety properties say themselves
which accident they exclude; the liveness properties exclude none. `OneBlock` does not say
that an old CA is no longer trusted: a line of the installer that names it stays.

Target host: `OverdueBounded` and `ExpiredSessionsEnd` (`docs/specification.md:443`),
`OnlyExpiredEnded`, and `LoginDecision`: who is let in is a listed user with an allowed
stage; and the decision is that of G-02, except where a capital name hides a second stage
(let in) or the only one, or the user (refused).

## 6. Findings

Each is the trace of a violation run; `PROJECT.json` quotes the line it contradicts.

1. Identical requests in flight together get different certificates
   (`app/services/signing.py:45`, `signing_duplicate`).
2. A renewal is answered with the stored certificate, expired or not, because
   neither the hash nor the table knows about time (`signing.py:45`,
   `client_cached_answer`).
3. Local time is parsed as UTC (`certificates.py:163`, `renewal_local_time`).

Met while modelling, without a run of their own:

* A kill between truncating and writing the certificate stops the timer's
  renewal for good: inspection raises before the decision is asked
  (`certificates.py:107`). This is why `TimerRecovers` has the premise that there
  was no kill; `EnrollRecovers` shows the way out.
* Even without a kill, installing a certificate empties the valid one first
  (`certificates.py:62`), where `docs/specification.md:160` forbids to delete the
  only valid certificate before its successor is installed. `ValidCertSurvives`
  states what is left of that rule.
* The window of the one-hour profile, 15 minutes, is shorter than the timer's
  longest gap of 16 (`certificates.py:151`): one check can come with 16 minutes
  left and the next at expiry. `AsksBeforeExpiry` promises nothing for it.
* A row outlives the CA it was signed by: after a rotation that changes
  `user_ca_private_key` (`config.py:47-60`) and keeps the table, an unchanged request is
  answered with the retired CA's certificate (`signing.py:45-47`), as the hash has no CA
  (`idempotency.py:36`). `docs/specification.md:280-281` leaves old certificates to their
  TTL and says nothing of requests that come after the rotation.
* Critical options sent with a built-in profile are dropped, and a custom profile's own
  `force-command` gives way to the shorthand (`extension_profiles.py:142-154`). Both are
  what `resolve_profile` documents.
* The audit trail is no better than the log file: 25 MB are kept, `LOG_LEVEL` above `INFO`
  turns it off, and a failed write is not noticed (`logging.py:22-29`).
* `install_client_endpoint.sh:66-68` leaves an authority line outside the managed block.
  After a rotation the CA it names is still trusted by that line.
* The principals of a certificate are read up to the first one with a capital
  letter (`authorized_principals_command.sh:65`). For the list `rocky`, `lc:dev`,
  `Ops`, `lc:eol` the script sees one stage and admits a certificate with two,
  against its own comment at line 22 and G-02. `DecidesRightly` names these lists as
  the exception and says what holds for all.
* `docs/allowed_lifecycle_stages.example:10` says that a missing file allows every
  stage; the script at line 89 refuses every login, which is G-07 of
  `docs/specification.md`. `LoginDecision` states the latter.
* The client sends no token and the broker asks for one (see `EndToEnd` in section 2);
  the enforcer and sshd do not agree on the name of the file with the certificate (see
  `TargetHost`).
* Refused requests leave no audit line (`routes.py:163`), where
  `docs/specification.md:158` wants the reason of every refusal in the log.
* The broker puts no `lc:*` principal into a certificate and has no lifetime per
  profile; `docs/ssh_ca_extensions.md` describes both. A caller has to ask for them.
* Startup validation does not compare tokens: one token in two roles is always
  the first of them (`config.py:91`). A source address is checked without its blanks and passed on
  with them, and a single comma passes the check (`validators.py:216`,
  `routes.py:185`); `ssh-keygen` then decides.
* The enforcer signals the session's process only, not its tree as its comment at
  line 16 says.
* Two installs that write `known_hosts` at the same time can leave authority
  lines of the client outside the block, which no later install takes away; so can a
  deleted marker. `OneBlock` excludes both.
* The timer renews with the bundle's defaults, and its row may be older than a
  certificate enrolled by hand with `--ttl` or `--principal`, which it then replaces.

Also met, but contradicting no sentence of the documentation: two first
enrollments at once on an empty machine can leave the private key of one beside
the public key of the other (`certificates.py:29`), after which certificates are
issued for a key the client cannot use. This is why `client_first_enroll` has
one process and why the theorem about `InstalledCertFits` assumes an existing key
pair or a single process.

## 7. Proofs

All are checked by TLAPS for every value of the constants that satisfies the
named assumptions of the module. These say what kind of values the constants are
(numbers, sequences, markers such as `None` and `Torn` that are no value of the
other kind) and nothing about the behaviour of the code. What a theorem needs
beyond them it states as its premise: `SerialCallers`, `PairPremise`. Every safety
invariant and every action property of a passing run is a theorem.

*ListsProofs.* What a loop with a test leaves is `Pick(list, S)`: the elements at
the positions `S`, in their order. The library's `SelectSeq` says the same by
recursion, from which the provers derive nothing for lists of any length. Here all
rests on `RankBijects`: the ranks of the chosen positions are `1..n`, each once. It
follows that `Pick` invents nothing and loses nothing (`PickOrigin`,
`PickElement`), that neighbours stay neighbours (`RankNext`), and that `Distinct`
has the members of its list, each once.

*SigningServiceProofs.* `TypeInv` strengthens `TypeOK` with which local variables
are set at which stage (`HandlerOK`); it gives `TypeCorrect`. `ServeInv` says
that the certificate a handler carries suits its request, that rows and delivered
certificates suit their keys, that an `ok` line in the log has a row, and that a handler
about to respond has its line unless one was lost; from it `GrantsAreExact` and
`AnswersAreAudited`. `RaceInv` says of every certificate in
circulation for a key that its signer has no other one and, while that thread
signs, that there is none of its own yet: it cannot be replaced by the property
itself, which says nothing about certificates that are in the store or in a
handler. It gives `DuplicatesPerThread`. `RowsSettle` needs only the types.
`SerialInv` (one handler per key in flight, the row is empty while it signs, all
answers equal the row) holds under `SerialCallers` and gives
`AnswersAreIdempotent` and the step simulation of `PromiseKept`.

*ClientAgentProofs.* `TypeCorrect` and four more, for any number of processes,
kills and keys:

* `InstalledCertsFit` under `PairPremise`: there is a key pair at the start, or
  there is one process. `FitInv` adds that the two halves of the pair are equal
  wherever both are relied on, that every public key and certificate a process
  holds is of that pair, and that a process at or past `loadpub` has seen the host
  CA installed. Without the premise it is false (see the end of section 6).
* `ValidCertsSurvive`, an action property, under the same premise: besides `FitInv`
  it needs `SameAnswer`: whatever is installed or in a process's hands for a key is the
  certificate the broker keeps for it. So what is about to be written is as valid as
  what is installed.
* `NothingStaysTorn`, without a premise. The property is inductive over the types.
* `SshIsReady` under `PairPremise`: `LaunchInv` says that there is a certificate file
  when `zfcssh ssh` comes to start `ssh`; that it fits is `FitInv`, that it is the one the
  broker would answer with is `SameAnswer`, and that it is not torn is
  `NothingLeftTorn`. How much of its lifetime is left is up to the broker.

The lemmas about a step need of the table only `KeptFit`: what is kept for a key is
for that key.

*EndToEndProofs.* For any number of processes, threads, keys, certificates and
kills. The invariants of the two parts are taken over from their own proof modules
(`BP`, `CP`): the broker's still hold because every step of the whole is a step of
the broker or leaves it alone, the client's because every step of the whole is,
through the mapping, a step of the client or a stutter. `WholeInv` adds three of its
own:

* `CallsFit`: a process waits for one thread at most, and that thread has its request.
* `SameAge`: a handler that signs for a key which has a row already does so in the
  tick of that row, so that a replacement expires with what it replaces. Without it
  `INSERT OR REPLACE` would give the client's table another answer in mid-life.
* `RecordInv`: unless the log has lost a line, what is held or installed has its `ok`
  line, which a handler writes before it responds.

`ClientSimulation` takes the steps one by one (`ClientSim`, `SendSim`, `GiveUpSim`,
`KillSim`, `PutSim`, `WorkSim`, `RespondSim`, `EndSim`, `RotateSim`, `TickSim`). The hard ones are
those that the client does not see: a row written (`PutSim`), a caller that goes away
(`LeaveAbandons`), handlers that all end at once (`EndSim`). `ClientKept` is the
implementation, and by it `ClientStaysUsable`: `InstalledCertFits` and
`ValidCertSurvives`, proved of `ClientAgent` alone, hold of the client in front of the
broker's threads. `TypeCorrect`, `AnswersExpireTogether` and `InstalledAreAudited`
follow from `WholeInv`.

*IssuancePolicyProofs.* For all settings and requests, with lists of any length.
The properties speak of what is served now, and rows signed under other settings
are served too, so none of them is inductive. `IInv` is `TypeOK`, `RowsTell` (a row
is the certificate its own hash input determines, `CertificateOf`, signed by the CA of
some settings) and `ReplyFits` (what was answered with 200 was granted under the settings
in force and is what would be signed now, but for the CA). `HashDetermines` is the step
between the two: the hash leaves out nothing that `ssh-keygen` is told but the CA key.
From it `ServedArePermitted`,
`RestrictionsAreKept` (with lemmas about `Updated`: a shorthand is there with its value,
and what it does not replace stays) and `LifetimesAreAsAsked`. `DefaultsAreAccepted`
follows from
what `Boot` lets through, by cases over the tables of roles and profiles.

*ClientTrustProofs.* For any bundles, processes, events, and `known_hosts` of any
length.

* `TypeInv` is `TypeOK` with what a process has in hand at each stage.
* `ImportInv` says which of the four files are the new bundle's already at each stage
  of an import that has met no other one; it gives `BundlesStayWhole`, for any number
  of processes that import.
* `KnownInv` says that what is in the file, and what any process has read from it,
  is `Sound` (the block is closed and holds all authorities of the client, the lines of
  others stand outside it and once, a blank line has one of them above it, all of them
  have been added) and that the file is `Single` (one block at most, of one CA). The
  three properties say nothing about the text in a process's hands, from which the next
  file is made, nor that the block is closed, without which an appended line would fall
  into it: none of them is inductive. `RebuildSound` is the heart: the merge of a sound
  text, for whatever patterns and CA, is sound and single and has all lines of others.
  It gives `BlockStaysSingle` and, by an injection from blank lines to the lines
  above them, `FileStaysSmall`.
* `MergeInv` says that as long as nobody has disturbed anybody, one process at most
  is merging, what it has read is what the file holds or held, and the lines of others
  are in the file or, while it is truncated, in that process's hands. With `Sound` it
  gives `LinesSurvive`.
* `EveryMergeInstalls` is the step that the liveness property `TrustFollowsCa` rests
  on: a merge that comes to its end leaves the CA it has fetched trusted for every
  pattern of its bundle, also in a file that is mixed or has lost a marker.

*RenewalTimerProofs.* `TypeCorrect`, and `RenewalIsAskedForInTime` from `CreditKept`.
`Credit` is the minutes left, plus the minutes since the last timer run, plus one
longest gap per try: an upper estimate of what was left when the certificate was last
installed or found outside its window. The invariant says that it is at least the
lifetime or lies outside the window; a try that brings nothing new moves its gap into the
tries, so `Credit` never sinks. `AsksBeforeExpiry` alone is not inductive, as it forgets
how old the certificate was when the tries began. Any lifetimes, period, accuracy and
clock offset.

*TargetHostProofs.* `IInv` is `TypeOK`, `PassShort` (a pass has as many ticks
left as it has sessions left) and `InTime`: a session the running pass has done
with, or the enforcer at rest left behind, had not expired when the last pass
began; one that is still to come may have waited for every failed pass before.
`OverdueBounded` alone is not inductive, as it does not say which sessions the pass
will still come to. `TargetExpired` (the target, unless its number was handed on,
is an expired session) gives `OthersAreSpared`. `LoginsAreDecidedRightly` follows
from lemmas about `FirstCapital`, `Listed` and the number of stages in a list; it
holds for lists of any length. Any finite set of numbers, period, accuracy and
count of failed passes.

Only model-checked: liveness under fairness (`TimerRecovers`, `EnrollRecovers`,
`TrustFollowsCa`, `ImportRecovers`, `ExpiredSessionsEnd`), which is out of these
provers' reach for good. A violation run is a trace, not a theorem.

## 8. Not modelled, and the plan

Not modelled: presentation (`app/ui`), the format of log lines, file permissions, TLS
handshakes, nginx. The installers are linear scripts a person runs; of the client's only
the line it adds to `known_hosts` is modelled, of the server's nothing: what it leaves
behind is the initial state of `TargetHost`. Certificate inspection and the demo keys of
the broker keep no state. Regular expressions are outcomes. Commands with `--ttl`,
`--principal` and `--profile` are outside `ClientAgent`, and so outside `EndToEnd`.

What a next step would bring, in this order:

1. `ClientAgent` with a row per set of parameters, so that commands with `--ttl` and the
   timer's bundle defaults meet.
2. Liveness of the composed system: that files come back in front of the broker's
   threads, given that handlers end. `ImplementsClient` carries over the safety of
   `ClientAgent` but not the fairness of its `FairSpec`.
3. `EndToEnd` with settings that change at a restart, so that `IssuancePolicy` stands
   between the request and the handler.
4. More of the safety that liveness rests on, as `EveryMergeInstalls` is for
   `TrustFollowsCa`: the measures that sink with every pass of the enforcer and
   every run of the timer.
