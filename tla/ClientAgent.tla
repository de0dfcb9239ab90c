----------------------------- MODULE ClientAgent -----------------------------
(***************************************************************************)
(* The zfcssh client of one user (src/zfcssh_client): every run of the     *)
(* command is a process, the systemd timer starts "renew --if-needed", the *)
(* user starts any command from any terminal, and all of them share the    *)
(* files of ~/.config and ~/.local without a lock.  A process can be       *)
(* killed between any two of its file operations.                          *)
(*                                                                         *)
(* The commands are those without --ttl, --principal and --profile, so     *)
(* all of them ask the broker for the same certificate: a request differs  *)
(* from another one by its public key only.                                *)
(*                                                                         *)
(* Time is relative: a certificate carries the number of ticks it is still *)
(* valid, and Tick takes one from every certificate there is, so runs are  *)
(* unbounded while the state space stays finite.                           *)
(***************************************************************************)
EXTENDS Naturals

CONSTANTS
    Procs,          \* processes that may run at the same time
    Timer,          \* the one started by zfcssh-renew.timer
    Terminal,       \* those whose user answers ssh-keygen's overwrite prompt
    Ttl,            \* lifetime of a certificate, in ticks
    MinWindow,      \* the 15 minutes of needs_renewal, in ticks
    KeyReady,       \* TRUE: the user's key pair exists already
    MaxKeys,        \* bound: key pairs that may be generated
    MaxKills,       \* bound: processes that may be killed
    Absent,         \* the file does not exist
    Torn            \* the file is there but truncated

ASSUME ConstantsAssumption ==
    /\ Ttl \in Nat \ {0} /\ MinWindow \in Nat
    /\ MaxKeys \in Nat \ {0} /\ MaxKills \in Nat
    /\ KeyReady \in BOOLEAN

Key == 1..MaxKeys
Certificate == [key : Key, left : 0..Ttl]

ASSUME FileAssumption ==
    /\ Absent \notin Certificate /\ Absent \notin Key /\ Absent # "installed"
    /\ Torn \notin Certificate /\ Torn # "installed"
    /\ Absent # Torn

Commands == {"enroll", "renew", "renew --if-needed", "ssh", "ssh --skip-renew",
             "verify"}

VARIABLES
    pc,         \* [Procs -> the stage of its command]
    cmd,        \* [Procs -> the command it runs]
    pubkey,     \* [Procs -> the public key it has generated or read]
    got,        \* [Procs -> local variable certificate of _enroll]
    priv,       \* user_key_path
    pub,        \* user_key_path with suffix .pub
    certFile,   \* user_cert_path
    trust,      \* host_ca_path and the managed block of known_hosts_path
    issued,     \* broker: [Key -> certificate kept for the request, or Absent]
    abandoned,  \* broker: keys without a row that a handler is still at work
                \* on although nobody waits for its answer any more
    keysMade,   \* key pairs generated so far
    kills       \* processes killed so far

files == <<priv, pub, certFile, trust>>
locals == <<cmd, pubkey, got>>
vars == <<pc, cmd, pubkey, got, priv, pub, certFile, trust, issued, abandoned,
          keysMade, kills>>

Stages == {"idle", "inspect", "key", "keygen", "genpriv", "genpub", "check",
           "fetch", "cablank", "cawrite", "loadpub", "request", "blank",
           "write", "launch"}

Init ==
    /\ pc = [p \in Procs |-> "idle"]
    /\ cmd = [p \in Procs |-> "verify"]
    /\ pubkey = [p \in Procs |-> Absent]
    /\ got = [p \in Procs |-> Absent]
    /\ priv = IF KeyReady THEN 1 ELSE Absent
    /\ pub = priv
    /\ certFile = Absent
    /\ trust = Absent
    /\ issued = [k \in Key |-> Absent]
    /\ abandoned = {}
    /\ keysMade = IF KeyReady THEN 1 ELSE 0
    /\ kills = 0

-----------------------------------------------------------------------------
(***************************************************************************)
(* Control of one process.                                                 *)
(***************************************************************************)
Goto(p, stage) == pc' = [pc EXCEPT ![p] = stage]

\* The command returns, or an exception ends it with exit code 1.
Finish(p) ==
    /\ pc' = [pc EXCEPT ![p] = "idle"]
    /\ pubkey' = [pubkey EXCEPT ![p] = Absent]
    /\ got' = [got EXCEPT ![p] = Absent]
    /\ cmd' = [cmd EXCEPT ![p] = "verify"]

\* Mutant: enroll inspects the installed certificate first, like renew.
FirstStage_EnrollInspects(c) ==
    CASE c = "verify" -> "key"
      [] c = "ssh --skip-renew" -> "launch"
      [] OTHER -> "inspect"

FirstStage(c) ==
    CASE c \in {"enroll", "verify"} -> "key"
      [] c = "ssh --skip-renew" -> "launch"
      [] OTHER -> "inspect"

Start(p, c) ==
    /\ pc[p] = "idle"
    /\ p = Timer => c = "renew --if-needed"
    /\ cmd' = [cmd EXCEPT ![p] = c]
    /\ Goto(p, FirstStage(c))
    /\ UNCHANGED <<pubkey, got, files, issued, abandoned, keysMade, kills>>

(***************************************************************************)
(* needs_renewal: no certificate, or remaining <= max(15 min, lifetime/4). *)
(***************************************************************************)
\* Mutant: a certificate that is there is never renewed.
needs_renewal_Never(file) == file = Absent

needs_renewal(file) ==
    file # Absent => file.left <= MinWindow \/ 4 * file.left <= Ttl

(***************************************************************************)
(* _renew: inspect_installed_certificate runs for every form of renew and  *)
(* for ssh, and raises when ssh-keygen -L cannot read the file.            *)
(***************************************************************************)
InspectRaises(p) ==
    /\ pc[p] = "inspect"
    /\ certFile = Torn
    /\ Finish(p)
    /\ UNCHANGED <<files, issued, abandoned, keysMade, kills>>

InspectSkips(p) ==
    /\ pc[p] = "inspect"
    /\ certFile # Torn
    /\ cmd[p] \in {"renew --if-needed", "ssh"}
    /\ ~needs_renewal(certFile)
    /\ IF cmd[p] = "ssh"
       THEN Goto(p, "launch") /\ UNCHANGED locals
       ELSE Finish(p)
    /\ UNCHANGED <<files, issued, abandoned, keysMade, kills>>

InspectRenews(p) ==
    /\ pc[p] = "inspect"
    /\ certFile # Torn
    /\ cmd[p] = "renew" \/ needs_renewal(certFile)
    /\ Goto(p, "key")
    /\ UNCHANGED <<locals, files, issued, abandoned, keysMade, kills>>

(***************************************************************************)
(* ensure_user_key: nothing to do when both files exist, else ssh-keygen,  *)
(* which does not replace a private key unless the user says so, and       *)
(* writes the private key before the public one.                           *)
(***************************************************************************)
AfterKey(p) == IF cmd[p] = "verify" THEN "check" ELSE "fetch"

KeyPresent(p) ==
    /\ pc[p] = "key"
    /\ priv # Absent /\ pub # Absent
    /\ Goto(p, AfterKey(p))
    /\ UNCHANGED <<locals, files, issued, abandoned, keysMade, kills>>

\* Mutant: the test for both files is gone: the key is generated every time.
KeyMissing_Always(p) ==
    /\ pc[p] = "key"
    /\ Goto(p, "keygen")
    /\ UNCHANGED <<locals, files, issued, abandoned, keysMade, kills>>

KeyMissing(p) ==
    /\ pc[p] = "key"
    /\ priv = Absent \/ pub = Absent
    /\ Goto(p, "keygen")
    /\ UNCHANGED <<locals, files, issued, abandoned, keysMade, kills>>

KeygenRefuses(p) ==
    /\ pc[p] = "keygen"
    /\ priv # Absent
    /\ Finish(p)
    /\ UNCHANGED <<files, issued, abandoned, keysMade, kills>>

KeygenStarts(p) ==
    /\ pc[p] = "keygen"
    /\ priv = Absent \/ p \in Terminal
    /\ Goto(p, "genpriv")
    /\ UNCHANGED <<locals, files, issued, abandoned, keysMade, kills>>

KeygenPrivate(p) ==
    /\ pc[p] = "genpriv"
    /\ keysMade < MaxKeys
    /\ keysMade' = keysMade + 1
    /\ pubkey' = [pubkey EXCEPT ![p] = keysMade + 1]
    /\ priv' = keysMade + 1
    /\ Goto(p, "genpub")
    /\ UNCHANGED <<cmd, got, pub, certFile, trust, issued, abandoned, kills>>

KeygenPublic(p) ==
    /\ pc[p] = "genpub"
    /\ pub' = pubkey[p]
    /\ Goto(p, AfterKey(p))
    /\ UNCHANGED <<locals, priv, certFile, trust, issued, abandoned, keysMade, kills>>

(***************************************************************************)
(* _verify after ensure_user_key only reads; it ends the command.          *)
(***************************************************************************)
VerifyReads(p) ==
    /\ pc[p] = "check"
    /\ Finish(p)
    /\ UNCHANGED <<files, issued, abandoned, keysMade, kills>>

(***************************************************************************)
(* Calls to the broker: get_host_ca_public_key, request_user_certificate.  *)
(***************************************************************************)
FetchHostCa(p) ==
    /\ pc[p] = "fetch"
    /\ Goto(p, "cablank")
    /\ UNCHANGED <<locals, files, issued, abandoned, keysMade, kills>>

\* Nobody waits any longer: if the request has reached a handler, it goes on.
Abandons(p) ==
    \/ UNCHANGED abandoned
    \/ /\ pc[p] = "request" /\ issued[pubkey[p]] = Absent
       /\ abandoned' = abandoned \cup {pubkey[p]}

\* HTTP error, refused connection, timeout of 15 s or unusable answer.
CallFails(p) ==
    /\ pc[p] \in {"fetch", "request"}
    /\ Finish(p)
    /\ Abandons(p)
    /\ UNCHANGED <<files, issued, keysMade, kills>>

(***************************************************************************)
(* install_host_ca: both files are truncated and written again.            *)
(***************************************************************************)
BlankHostCa(p) ==
    /\ pc[p] = "cablank"
    /\ trust' = Torn
    /\ Goto(p, "cawrite")
    /\ UNCHANGED <<locals, priv, pub, certFile, issued, abandoned, keysMade, kills>>

WriteHostCa(p) ==
    /\ pc[p] = "cawrite"
    /\ trust' = "installed"
    /\ Goto(p, "loadpub")
    /\ UNCHANGED <<locals, priv, pub, certFile, issued, abandoned, keysMade, kills>>

\* Mutant: the old certificate is unlinked before the new one is requested.
LoadPublicKey_Unlinks(p) ==
    /\ pc[p] = "loadpub"
    /\ pub # Absent
    /\ pubkey' = [pubkey EXCEPT ![p] = pub]
    /\ certFile' = Absent
    /\ Goto(p, "request")
    /\ UNCHANGED <<cmd, got, priv, pub, trust, issued, abandoned, keysMade, kills>>

\* ensure_user_key has seen to it that the public key is there.
LoadPublicKey(p) ==
    /\ pc[p] = "loadpub"
    /\ pub # Absent
    /\ pubkey' = [pubkey EXCEPT ![p] = pub]
    /\ Goto(p, "request")
    /\ UNCHANGED <<cmd, got, files, issued, abandoned, keysMade, kills>>

(***************************************************************************)
(* The broker's answer for a public key: what its store holds for the      *)
(* request, whatever is left of it, or a certificate signed now and kept.  *)
(***************************************************************************)
\* Mutant: the lifetime signed is one unit longer than the one asked for.
Answer_Longer(k) ==
    IF issued[k] # Absent THEN issued[k] ELSE [key |-> k, left |-> Ttl + 1]

Answer(k) ==
    IF issued[k] # Absent THEN issued[k] ELSE [key |-> k, left |-> Ttl]

Keep(k) ==
    /\ issued' = [issued EXCEPT ![k] = Answer(k)]
    /\ abandoned' = abandoned \ {k}

RequestCertificate(p) ==
    /\ pc[p] = "request"
    /\ got' = [got EXCEPT ![p] = Answer(pubkey[p])]
    /\ Keep(pubkey[p])
    /\ Goto(p, "blank")
    /\ UNCHANGED <<cmd, pubkey, files, keysMade, kills>>

(***************************************************************************)
(* What the handlers do before or without an answer: one signs and stores, *)
(* for a process that waits or for one that has given up or was killed;    *)
(* abandoned ones fail, or a restart of the broker ends them.              *)
(***************************************************************************)
Asked(k) == k \in abandoned \/ \E p \in Procs : pc[p] = "request" /\ pubkey[p] = k

HandlerStores(k) ==
    /\ Asked(k) /\ issued[k] = Absent
    /\ Keep(k)
    /\ UNCHANGED <<pc, locals, files, keysMade, kills>>

HandlersEnd ==
    /\ abandoned' \in (SUBSET abandoned) \ {abandoned}
    /\ UNCHANGED <<pc, locals, files, issued, keysMade, kills>>

(***************************************************************************)
(* install_user_certificate: write_text truncates the file, then writes.   *)
(***************************************************************************)
BlankCertificate(p) ==
    /\ pc[p] = "blank"
    /\ certFile' = Torn
    /\ Goto(p, "write")
    /\ UNCHANGED <<locals, priv, pub, trust, issued, abandoned, keysMade, kills>>

\* Mutant: the file is closed without the certificate.
WriteCertificate_Empty(p) ==
    /\ pc[p] = "write"
    /\ IF cmd[p] = "ssh"
       THEN Goto(p, "launch") /\ UNCHANGED locals
       ELSE Finish(p)
    /\ UNCHANGED <<files, issued, abandoned, keysMade, kills>>

WriteCertificate(p) ==
    /\ pc[p] = "write"
    /\ certFile' = got[p]
    /\ IF cmd[p] = "ssh"
       THEN Goto(p, "launch") /\ UNCHANGED locals
       ELSE Finish(p)
    /\ UNCHANGED <<priv, pub, trust, issued, abandoned, keysMade, kills>>

\* run_ssh starts ssh with the key, the certificate and known_hosts.
LaunchSsh(p) ==
    /\ pc[p] = "launch"
    /\ Finish(p)
    /\ UNCHANGED <<files, issued, abandoned, keysMade, kills>>

(***************************************************************************)
(* The environment: the process is killed; time passes.  Writing the files *)
(* and starting ssh take no time on the scale of a tick; a call, a prompt  *)
(* or a process that has not got a host CA yet may wait for many ticks.    *)
(***************************************************************************)
LocalWork == {"cablank", "cawrite", "loadpub", "blank", "write", "launch"}

Kill(p) ==
    /\ kills < MaxKills
    /\ pc[p] # "idle"
    /\ kills' = kills + 1
    /\ Finish(p)
    /\ Abandons(p)
    /\ UNCHANGED <<files, issued, keysMade>>

Older(c) ==
    IF c \in Certificate /\ c.left > 0 THEN [c EXCEPT !.left = @ - 1] ELSE c

Tick ==
    /\ \A p \in Procs : pc[p] \notin LocalWork
    /\ certFile' = Older(certFile)
    /\ got' = [p \in Procs |-> Older(got[p])]
    /\ issued' = [k \in Key |-> Older(issued[k])]
    /\ UNCHANGED <<pc, cmd, pubkey, priv, pub, trust, abandoned, keysMade, kills>>

(***************************************************************************)
(* What a process does by itself once it is started: Local needs no        *)
(* certificate from the broker.                                            *)
(***************************************************************************)
Local(p) ==
    \/ InspectRaises(p) \/ InspectSkips(p) \/ InspectRenews(p)
    \/ KeyPresent(p) \/ KeyMissing(p)
    \/ KeygenRefuses(p) \/ KeygenStarts(p) \/ KeygenPrivate(p) \/ KeygenPublic(p)
    \/ VerifyReads(p)
    \/ FetchHostCa(p)
    \/ BlankHostCa(p) \/ WriteHostCa(p)
    \/ LoadPublicKey(p)
    \/ BlankCertificate(p) \/ WriteCertificate(p)
    \/ LaunchSsh(p)

Step(p) == Local(p) \/ CallFails(p) \/ RequestCertificate(p)

Next ==
    \/ \E p \in Procs :
          \/ \E c \in Commands : Start(p, c)
          \/ Step(p)
          \/ Kill(p)
    \/ \E k \in Key : HandlerStores(k)
    \/ HandlersEnd
    \/ Tick

Spec == Init /\ [][Next]_vars

-----------------------------------------------------------------------------
(***************************************************************************)
(* Fairness.  A started process runs on.  The broker and the network may   *)
(* fail any number of times, but a call that is made again and again gets  *)
(* an answer in the end.  The timer is enabled, so systemd starts its      *)
(* service again after every run.                                          *)
(***************************************************************************)
ProcessFairness(p) ==
    /\ WF_vars(Step(p))
    /\ SF_vars(FetchHostCa(p))
    /\ SF_vars(RequestCertificate(p))

FairSpec ==
    /\ Spec
    /\ \A p \in Procs : ProcessFairness(p)
    /\ WF_vars(Start(Timer, "renew --if-needed"))

\* The user runs "zfcssh enroll" again and again.
PersistentUser(p) == SF_vars(Start(p, "enroll"))

-----------------------------------------------------------------------------
TypeOK ==
    /\ pc \in [Procs -> Stages]
    /\ cmd \in [Procs -> Commands]
    /\ pubkey \in [Procs -> Key \cup {Absent}]
    /\ got \in [Procs -> Certificate \cup {Absent}]
    /\ priv \in Key \cup {Absent}
    /\ pub \in Key \cup {Absent}
    /\ certFile \in Certificate \cup {Absent, Torn}
    /\ trust \in {"installed", Absent, Torn}
    /\ issued \in [Key -> Certificate \cup {Absent}]
    /\ abandoned \subseteq {k \in Key : issued[k] = Absent}
    /\ keysMade \in 0..MaxKeys
    /\ kills \in 0..MaxKills

HasCertificate == certFile \notin {Absent, Torn}
HasValid == HasCertificate /\ certFile.left > 0

\* Key pair, a certificate for it and the host CA are there ...
InPlace ==
    /\ HasCertificate
    /\ priv = pub /\ certFile.key = priv
    /\ trust = "installed"

\* ... and the certificate is valid: what ssh needs.
Usable == InPlace /\ certFile.left > 0

\* A live process has truncated a file that it is about to write.
Rewriting == \E p \in Procs : pc[p] \in {"cawrite", "write"}

(***************************************************************************)
(* The key pair, the certificate and the host CA come from separate steps  *)
(* that can fail, be killed or overlap.  Whatever is left behind: a        *)
(* certificate file that can be read is for the private key on disk, whose *)
(* public half is on disk too, and the host CA was installed before it.    *)
(***************************************************************************)
InstalledCertFits ==
    HasCertificate => /\ certFile.key = priv
                      /\ priv = pub
                      /\ trust # Absent

(***************************************************************************)
(* A step of the client, a kill included, takes a valid certificate away   *)
(* only when a live process is about to write its successor; and what it   *)
(* writes is valid, so two renewals that overlap cannot lose it between    *)
(* them.  All commands ask with the parameters of the bundle: a timer that *)
(* asks for another row than "enroll --ttl" did may write an older one.    *)
(***************************************************************************)
ValidCertSurvives ==
    [][HasValid /\ ~Tick => HasValid' \/ \E p \in Procs : pc'[p] = "write"]_vars

(***************************************************************************)
(* Failed calls, refused prompts and overlapping commands never leave a    *)
(* truncated file behind: with no process killed, a truncated file always  *)
(* has a live process that is about to write it.                           *)
(***************************************************************************)
NothingLeftTorn ==
    kills = 0 =>
        /\ certFile = Torn => \E p \in Procs : pc[p] = "write"
        /\ trust = Torn => \E p \in Procs : pc[p] = "cawrite"

(***************************************************************************)
(* "zfcssh ssh" renews first so that ssh finds what it needs: with no      *)
(* process killed, ssh starts with everything in place and a certificate   *)
(* as fresh as the broker would answer with, unless another process has    *)
(* one of the files open for writing at that moment.  It says nothing more *)
(* of the certificate: the broker may answer with an expired one.          *)
(***************************************************************************)
SshStartsReady ==
    \A p \in Procs :
        pc[p] = "launch" /\ cmd[p] = "ssh" /\ kills = 0 =>
            \/ InPlace /\ certFile = issued[certFile.key]
            \/ Rewriting

(***************************************************************************)
(* README.md:11: the client renews certificates before they expire.  As a  *)
(* minimum, a client without a usable certificate gets one again from the  *)
(* timer alone, whatever commands the user runs in between.                *)
(***************************************************************************)
CertificateReturns == ~Usable ~> Usable

(***************************************************************************)
(* What the client itself achieves in front of a broker that answers from  *)
(* its store: missing files are put in place, and a certificate that has   *)
(* expired is asked for again and the answer is installed, whatever it is  *)
(* worth.                                                                  *)
(***************************************************************************)
PutsInPlace == ~InPlace ~> InPlace

AsksAgain == HasCertificate /\ certFile.left = 0 ~> \E p \in Procs : pc[p] = "write"

(***************************************************************************)
(* Missing files, failed calls, timeouts and commands that overlap with    *)
(* the renewal: the timer gets over all of them without the user, as long  *)
(* as no process is killed.  An expired certificate it never gives up on,  *)
(* though it depends on the broker whether that helps.                     *)
(***************************************************************************)
TimerRecovers == [](kills = 0) => PutsInPlace /\ AsksAgain

(***************************************************************************)
(* Kills leave files the timer's command fails on, but "zfcssh enroll"     *)
(* does not depend on the installed certificate: a user who keeps running  *)
(* it gets everything in place again whatever a kill has left behind.      *)
(***************************************************************************)
EnrollRecovers ==
    (\A p \in Procs \ {Timer} : PersistentUser(p)) => PutsInPlace
=============================================================================
