------------------------------ MODULE EndToEnd ------------------------------
(***************************************************************************)
(* The client processes of one user and the broker together: the stages of *)
(* ClientAgent, with each certificate request handled by a thread of       *)
(* SigningService, in steps that interleave with everything else.  The     *)
(* timer and the user's commands ask for the same certificate, so that     *)
(* identical requests can be in flight at the same time; a process that    *)
(* has given up or was killed leaves its handler at work.                  *)
(*                                                                         *)
(* What is installed and in a process's hands carries the ticks it is      *)
(* valid; left says it of the certificates that the broker has signed.     *)
(***************************************************************************)
EXTENDS Naturals

CONSTANTS
    Procs, Timer, Terminal, Ttl, MinWindow, KeyReady, MaxKeys, MaxKills,
    Absent, Torn,       \* as in ClientAgent
    Workers, MaxCerts,  \* as in SigningService
    None,               \* no row, no certificate, no call
    Lost                \* the call has ended without a certificate

ASSUME ConstantsAssumption ==
    /\ Ttl \in Nat \ {0} /\ MinWindow \in Nat /\ KeyReady \in BOOLEAN
    /\ MaxKeys \in Nat \ {0} /\ MaxKills \in Nat /\ MaxCerts \in Nat
    /\ None \notin Workers /\ Lost \notin Workers /\ None # Lost

VARIABLES
    pc, cmd, pubkey, got, priv, pub, certFile, trust, keysMade, kills,
    stage, req, cert, store, audit, gaps, delivered, minted,
    left,       \* [1..MaxCerts -> ticks the signed certificate is still valid]
    call        \* [Procs -> the thread that handles its request, None or Lost]

locals == <<pc, cmd, pubkey, got, call>>
files == <<priv, pub, certFile, trust, keysMade>>
log == <<audit, gaps>>
broker == <<stage, req, cert, store, log, delivered, minted>>
vars == <<locals, files, kills, broker, left>>

Key == 1..MaxKeys

Broker == INSTANCE SigningService WITH
    pc <- stage, CertTypes <- {"user"}, Subjects <- Key, Grants <- {"bundle"},
    Callers <- {"requester"}, SerialCallers <- FALSE

\* What request_user_certificate asks for: all but the key is in the bundle.
RequestFor(k) ==
    [certType |-> "user", subject |-> k, grant |-> "bundle", caller |-> "requester"]

Row(k) == store[Broker!build_hash(RequestFor(k))]

\* A certificate as the client reads it.
View(c) == [key |-> c.subject, left |-> left[c.id]]

(***************************************************************************)
(* The table and the handlers as ClientAgent sees them.                    *)
(***************************************************************************)
Issued == [k \in Key |-> IF Row(k) = None THEN Absent ELSE View(Row(k))]

\* A handler that may still store a certificate, for nobody.
Orphan(w) ==
    /\ stage[w] \in {"get", "keygen", "put"}
    /\ \A p \in Procs : call[p] # w

Abandoned ==
    {k \in Key : Row(k) = None /\ \E w \in Workers : Orphan(w) /\ req[w].subject = k}

Client == INSTANCE ClientAgent WITH
    issued <- Issued, abandoned <- Abandoned

ASSUME ValuesAssumption ==
    /\ None \notin Broker!Certificate /\ None \notin Broker!Request
    /\ Absent \notin Client!Certificate /\ Torn \notin Client!Certificate
    /\ Absent \notin Key /\ Absent # Torn
    /\ Absent # "installed" /\ Torn # "installed"

Init ==
    /\ Broker!Init
    /\ left = [i \in 1..MaxCerts |-> 0]
    /\ call = [p \in Procs |-> None]
    /\ Client!Init

-----------------------------------------------------------------------------
(***************************************************************************)
(* The client.                                                             *)
(***************************************************************************)
ClientStep(p) ==
    /\ UNCHANGED <<broker, left, call>>
    /\ (\E c \in Client!Commands : Client!Start(p, c)) \/ Client!Local(p)

(***************************************************************************)
(* The request reaches the broker, which knows the client.  The client     *)
(* sends no Authorization header of its own: that something in front of    *)
(* the broker identifies it (mTLS and the bundle, specification.md:16) is  *)
(* an assumption.  A request that auth.py refuses is GiveUp.               *)
(***************************************************************************)
Send(p, w) ==
    /\ pc[p] = "request" /\ call[p] = None
    /\ Broker!Accept(w, RequestFor(pubkey[p]))
    /\ call' = [call EXCEPT ![p] = w]
    /\ UNCHANGED <<pc, cmd, pubkey, got, files, kills, left>>

\* The command ends; nobody tells the handler.
Leave(p) ==
    /\ Client!Finish(p)
    /\ call' = [call EXCEPT ![p] = None]
    /\ UNCHANGED <<files, broker, left>>

\* No connection, 15 s without an answer, or a refusal: 401, 403 or 422.
GiveUp(p) ==
    /\ pc[p] \in {"fetch", "request"}
    /\ Leave(p)
    /\ UNCHANGED kills

Kill(p) ==
    /\ kills < MaxKills /\ pc[p] # "idle"
    /\ kills' = kills + 1
    /\ Leave(p)

-----------------------------------------------------------------------------
(***************************************************************************)
(* The broker.                                                             *)
(***************************************************************************)
Handle(w) ==
    /\ \/ Broker!StoreHit(w) \/ Broker!StoreMiss(w) \/ Broker!KeygenFails(w)
       \/ Broker!StorePut(w) \/ Broker!AuditOk(w)
    /\ UNCHANGED <<locals, files, kills, left>>

\* Mutant: the lifetime signed is one unit longer than the one asked for.
Sign_Longer(w) ==
    /\ Broker!RunKeygen(w)
    /\ left' = [left EXCEPT ![minted + 1] = Ttl + 1]
    /\ UNCHANGED <<locals, files, kills>>

Sign(w) ==
    /\ Broker!RunKeygen(w)
    /\ left' = [left EXCEPT ![minted + 1] = Ttl]
    /\ UNCHANGED <<locals, files, kills>>

\* The caller, if it is still there, receives the certificate.
Respond(w) ==
    /\ Broker!Respond(w)
    /\ \E p \in Procs :
          /\ call[p] = w
          /\ got' = [got EXCEPT ![p] = View(cert[w])]
          /\ pc' = [pc EXCEPT ![p] = "blank"]
          /\ call' = [call EXCEPT ![p] = None]
    /\ UNCHANGED <<cmd, pubkey, files, kills, left>>

\* A status other than 200, or a connection that broke.
LoseCalls(lost) ==
    /\ call' = [p \in Procs |-> IF call[p] \in lost THEN Lost ELSE call[p]]
    /\ UNCHANGED <<pc, cmd, pubkey, got, files, kills, left>>

EndWithoutAnswer(w) ==
    /\ Broker!HandlerRaises(w) \/ Broker!AuditFailed(w) \/ Broker!RespondLost(w)
    /\ LoseCalls({w})

Restart == Broker!Crash /\ LoseCalls(Workers)

LogRotates ==
    /\ \E line \in audit : Broker!RotateAway(line)
    /\ UNCHANGED <<locals, files, kills, left>>

(***************************************************************************)
(* Time passes as in ClientAgent, and not between a lookup that finds no   *)
(* row and the row: ssh-keygen and one INSERT take no time on that scale.  *)
(***************************************************************************)
Tick ==
    /\ \A p \in Procs : pc[p] \notin Client!LocalWork
    /\ \A w \in Workers : stage[w] \notin {"keygen", "put"}
    /\ certFile' = Client!Older(certFile)
    /\ got' = [p \in Procs |-> Client!Older(got[p])]
    /\ left' = [i \in 1..MaxCerts |-> IF left[i] = 0 THEN 0 ELSE left[i] - 1]
    /\ UNCHANGED <<pc, cmd, pubkey, call, priv, pub, trust, keysMade, kills, broker>>

Next ==
    \/ \E p \in Procs : \/ ClientStep(p) \/ GiveUp(p) \/ Kill(p)
                        \/ \E w \in Workers : Send(p, w)
    \/ \E w \in Workers : Handle(w) \/ Sign(w) \/ Respond(w) \/ EndWithoutAnswer(w)
    \/ Restart
    \/ LogRotates
    \/ Tick

Spec == Init /\ [][Next]_vars

-----------------------------------------------------------------------------
TypeOK ==
    /\ Client!TypeOK /\ Broker!TypeOK
    /\ left \in [1..MaxCerts -> 0..Ttl]
    /\ call \in [Procs -> Workers \cup {None, Lost}]

(***************************************************************************)
(* Two processes of one user race for the same certificate and may get two *)
(* (INSERT OR REPLACE leaves the row to the later one).  It makes no       *)
(* difference to them: whatever is installed, in a process's hands or on   *)
(* its way in an answer expires together with the row.                     *)
(***************************************************************************)
OneExpiry ==
    /\ Client!HasCertificate => certFile = Issued[certFile.key]
    /\ \A p \in Procs : got[p] # Absent => got[p] = Issued[got[p].key]
    /\ \A w \in Workers : stage[w] \in {"audit", "respond"} =>
          View(cert[w]) = Issued[cert[w].subject]

(***************************************************************************)
(* docs/specification.md:152 has the broker log what it issues: as long as *)
(* logging itself loses no line, no client installs a certificate that the *)
(* log does not show as issued, also when the broker is restarted between  *)
(* the row and the line.                                                   *)
(***************************************************************************)
InstalledIsAudited ==
    Client!HasCertificate /\ ~gaps =>
        [request |-> RequestFor(certFile.key), result |-> "ok"] \in audit

(***************************************************************************)
(* To its clients the broker is the table of ClientAgent: a request is     *)
(* answered with one certificate per key, in one step, although lookup,    *)
(* signing, row and answer are steps of racing threads.                    *)
(***************************************************************************)
ImplementsClient == Client!Spec
=============================================================================
