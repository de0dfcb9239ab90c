--------------------------- MODULE SigningService ---------------------------
(***************************************************************************)
(* The broker's signing path: the handlers of POST /v1/sign/user and       *)
(* POST /v1/sign/host (app/api/routes.py) after validation has accepted    *)
(* the request, SigningService.sign_certificate (app/services/signing.py)  *)
(* and the SQLite idempotency store (app/services/idempotency.py).         *)
(*                                                                         *)
(* The handlers are plain "def" functions, so FastAPI runs each request on *)
(* a thread of its worker pool: a worker is one such thread, and the steps *)
(* of two workers interleave at every access to shared state: the SELECT,  *)
(* ssh-keygen, the INSERT OR REPLACE, the audit line and the response.  No *)
(* lock is held from one step to the next.                                 *)
(***************************************************************************)
EXTENDS Naturals, FiniteSets

CONSTANTS
    Workers,        \* threads of the pool that run the sync handlers
    CertTypes,      \* cert_type values in use, a subset of {"user", "host"}
    Subjects,       \* key_id and public_key of a request
    Grants,         \* principals, ttl, extensions and critical options
    Callers,        \* payload.caller.requester, recorded in the audit line
    None,           \* no request, no certificate, no row
    MaxCerts,       \* bound: how often ssh-keygen may sign
    SerialCallers   \* TRUE when callers keep docs/specification.md:326: no
                    \* two requests with the same parameters are in flight

ASSUME ConstantsAssumption ==
    /\ CertTypes \subseteq {"user", "host"}
    /\ MaxCerts \in Nat
    /\ SerialCallers \in BOOLEAN

Request == [certType : CertTypes, subject : Subjects, grant : Grants,
            caller : Callers]

(***************************************************************************)
(* IdempotencyStore.build_hash: the SHA-256 of the canonical JSON of the   *)
(* parameters, taken to be injective.  The caller is not part of it.       *)
(***************************************************************************)
HashKey == [certType : CertTypes, subject : Subjects, grant : Grants]

\* Mutant: the hash forgets principals, ttl and permissions.
build_hash_NoGrant(r) ==
    [certType |-> r.certType, subject |-> r.subject,
     grant |-> CHOOSE g \in Grants : TRUE]

build_hash(r) ==
    [certType |-> r.certType, subject |-> r.subject, grant |-> r.grant]

(***************************************************************************)
(* A certificate is what ssh-keygen signed (the CA, the subject and the    *)
(* grant), made unique by its serial number and nonce: id.  The signer is  *)
(* the thread that ran ssh-keygen, kept to tell concurrent signings apart. *)
(***************************************************************************)
Certificate == [id : 1..MaxCerts, ca : CertTypes, subject : Subjects,
                grant : Grants, signer : Workers]

ASSUME NoneAssumption ==
    /\ None \notin Certificate
    /\ None \notin Request

AuditEntry == [request : Request, result : {"ok", "failed"}]
Delivery == [request : Request, cert : Certificate]

VARIABLES
    pc,         \* [Workers -> where its handler stands]
    req,        \* [Workers -> the request it serves]
    cert,       \* [Workers -> local variable certificate]
    store,      \* table sign_requests: [HashKey -> certificate or None]
    audit,      \* the lines in the audit log, as a set
    gaps,       \* TRUE once logging has lost a line it was given
    delivered,  \* answers that reached their caller: request and certificate
    minted      \* how many certificates ssh-keygen has signed

log == <<audit, gaps>>
vars == <<pc, req, cert, store, log, delivered, minted>>

Stages == {"idle", "get", "keygen", "put", "audit", "failed", "respond"}

Init ==
    /\ pc = [w \in Workers |-> "idle"]
    /\ req = [w \in Workers |-> None]
    /\ cert = [w \in Workers |-> None]
    /\ store = [k \in HashKey |-> None]
    /\ audit = {}
    /\ gaps = FALSE
    /\ delivered = {}
    /\ minted = 0

InFlight(k) == \E w \in Workers : pc[w] # "idle" /\ build_hash(req[w]) = k

(***************************************************************************)
(* The handler returns or raises: the thread goes back to the pool.        *)
(***************************************************************************)
Release(w) ==
    /\ pc' = [pc EXCEPT ![w] = "idle"]
    /\ req' = [req EXCEPT ![w] = None]
    /\ cert' = [cert EXCEPT ![w] = None]

(***************************************************************************)
(* A validated request reaches sign_certificate on a free thread.          *)
(***************************************************************************)
Accept(w, r) ==
    /\ pc[w] = "idle"
    /\ SerialCallers => ~InFlight(build_hash(r))
    /\ pc' = [pc EXCEPT ![w] = "get"]
    /\ req' = [req EXCEPT ![w] = r]
    /\ UNCHANGED <<cert, store, log, delivered, minted>>

(***************************************************************************)
(* store.get: a row is returned as it stands, otherwise the service signs. *)
(***************************************************************************)
\* Mutant: the row is found but its certificate is not taken from it.
StoreHit_NoCertificate(w) ==
    /\ pc[w] = "get"
    /\ store[build_hash(req[w])] # None
    /\ pc' = [pc EXCEPT ![w] = "audit"]
    /\ UNCHANGED <<req, cert, store, log, delivered, minted>>

\* Mutant: a reused certificate is returned without an audit line.
StoreHit_NoAudit(w) ==
    LET k == build_hash(req[w]) IN
    /\ pc[w] = "get"
    /\ store[k] # None
    /\ cert' = [cert EXCEPT ![w] = store[k]]
    /\ pc' = [pc EXCEPT ![w] = "respond"]
    /\ UNCHANGED <<req, store, log, delivered, minted>>

StoreHit(w) ==
    LET k == build_hash(req[w]) IN
    /\ pc[w] = "get"
    /\ store[k] # None
    /\ cert' = [cert EXCEPT ![w] = store[k]]
    /\ pc' = [pc EXCEPT ![w] = "audit"]
    /\ UNCHANGED <<req, store, log, delivered, minted>>

\* Mutant: the service signs whether or not there is a row.
StoreMiss_Always(w) ==
    /\ pc[w] = "get"
    /\ pc' = [pc EXCEPT ![w] = "keygen"]
    /\ UNCHANGED <<req, cert, store, log, delivered, minted>>

StoreMiss(w) ==
    /\ pc[w] = "get"
    /\ store[build_hash(req[w])] = None
    /\ pc' = [pc EXCEPT ![w] = "keygen"]
    /\ UNCHANGED <<req, cert, store, log, delivered, minted>>

(***************************************************************************)
(* ssh-keygen -s with the CA of the certificate type.                      *)
(***************************************************************************)
RunKeygen(w) ==
    /\ pc[w] = "keygen"
    /\ minted < MaxCerts
    /\ minted' = minted + 1
    /\ cert' = [cert EXCEPT ![w] =
                  [id |-> minted + 1, ca |-> req[w].certType,
                   subject |-> req[w].subject, grant |-> req[w].grant,
                   signer |-> w]]
    /\ pc' = [pc EXCEPT ![w] = "put"]
    /\ UNCHANGED <<req, store, log, delivered>>

(***************************************************************************)
(* ssh-keygen is missing, exits non-zero or leaves no file: HTTPException, *)
(* which the handler catches, logs and raises again.                       *)
(***************************************************************************)
KeygenFails(w) ==
    /\ pc[w] = "keygen"
    /\ pc' = [pc EXCEPT ![w] = "failed"]
    /\ UNCHANGED <<req, cert, store, log, delivered, minted>>

(***************************************************************************)
(* store.put: INSERT OR REPLACE, whatever the row holds by now.            *)
(***************************************************************************)
\* Mutant: the certificate is returned without being stored.
StorePut_NotStored(w) ==
    /\ pc[w] = "put"
    /\ pc' = [pc EXCEPT ![w] = "audit"]
    /\ UNCHANGED <<req, cert, store, log, delivered, minted>>

StorePut(w) ==
    /\ pc[w] = "put"
    /\ store' = [store EXCEPT ![build_hash(req[w])] = cert[w]]
    /\ pc' = [pc EXCEPT ![w] = "audit"]
    /\ UNCHANGED <<req, cert, log, delivered, minted>>

(***************************************************************************)
(* sqlite3 raises in get or put (locked, full), or the temporary files of  *)
(* _run_ssh_keygen cannot be written: no HTTPException, so the handler's   *)
(* except clause is skipped and the generic handler answers 500 without an *)
(* audit line.                                                             *)
(***************************************************************************)
HandlerRaises(w) ==
    /\ pc[w] \in {"get", "keygen", "put"}
    /\ Release(w)
    /\ UNCHANGED <<store, log, delivered, minted>>

(***************************************************************************)
(* LOGGER.info promises nothing to its caller: a line below LOG_LEVEL is   *)
(* dropped, and an error of the write is swallowed by the handler.         *)
(***************************************************************************)
WriteLine(line) ==
    \/ audit' = audit \cup {line} /\ UNCHANGED gaps
    \/ gaps' = TRUE /\ UNCHANGED audit

\* RotatingFileHandler: the sixth file of 5 MB displaces the oldest one.
RotateAway(line) ==
    /\ line \in audit
    /\ audit' = audit \ {line}
    /\ gaps' = TRUE
    /\ UNCHANGED <<pc, req, cert, store, delivered, minted>>

AuditOk(w) ==
    /\ pc[w] = "audit"
    /\ WriteLine([request |-> req[w], result |-> "ok"])
    /\ pc' = [pc EXCEPT ![w] = "respond"]
    /\ UNCHANGED <<req, cert, store, delivered, minted>>

AuditFailed(w) ==
    /\ pc[w] = "failed"
    /\ WriteLine([request |-> req[w], result |-> "failed"])
    /\ Release(w)
    /\ UNCHANGED <<store, delivered, minted>>

Respond(w) ==
    /\ pc[w] = "respond"
    /\ delivered' = delivered \cup {[request |-> req[w], cert |-> cert[w]]}
    /\ Release(w)
    /\ UNCHANGED <<store, log, minted>>

(***************************************************************************)
(* The caller gave up after its 15 s timeout (zfcssh_client/broker.py) or  *)
(* the connection broke: the handler ran to its end for nobody.            *)
(***************************************************************************)
RespondLost(w) ==
    /\ pc[w] = "respond"
    /\ Release(w)
    /\ UNCHANGED <<store, log, delivered, minted>>

(***************************************************************************)
(* The broker process dies and systemd restarts it: every handler is gone, *)
(* the SQLite file and the log stay.                                       *)
(***************************************************************************)
\* Mutant: the store lives in memory and is empty after a restart.
Crash_StoreInMemory ==
    /\ \E w \in Workers : pc[w] # "idle"
    /\ pc' = [w \in Workers |-> "idle"]
    /\ req' = [w \in Workers |-> None]
    /\ cert' = [w \in Workers |-> None]
    /\ store' = [k \in HashKey |-> None]
    /\ UNCHANGED <<log, delivered, minted>>

Crash ==
    /\ \E w \in Workers : pc[w] # "idle"
    /\ pc' = [w \in Workers |-> "idle"]
    /\ req' = [w \in Workers |-> None]
    /\ cert' = [w \in Workers |-> None]
    /\ UNCHANGED <<store, log, delivered, minted>>

Next ==
    \/ \E w \in Workers :
          \/ \E r \in Request : Accept(w, r)
          \/ StoreHit(w)
          \/ StoreMiss(w)
          \/ RunKeygen(w)
          \/ KeygenFails(w)
          \/ StorePut(w)
          \/ HandlerRaises(w)
          \/ AuditOk(w)
          \/ AuditFailed(w)
          \/ Respond(w)
          \/ RespondLost(w)
    \/ \E line \in audit : RotateAway(line)
    \/ Crash

Spec == Init /\ [][Next]_vars

-----------------------------------------------------------------------------
TypeOK ==
    /\ pc \in [Workers -> Stages]
    /\ req \in [Workers -> Request \cup {None}]
    /\ cert \in [Workers -> Certificate \cup {None}]
    /\ store \in [HashKey -> Certificate \cup {None}]
    /\ audit \subseteq AuditEntry /\ gaps \in BOOLEAN
    /\ delivered \subseteq Delivery
    /\ minted \in 0..MaxCerts

(***************************************************************************)
(* A caller receives a certificate of the CA, for the subject and with the *)
(* grant of its own request, fresh or from the store: the hash tells any   *)
(* two requests apart that ssh-keygen would sign differently.              *)
(***************************************************************************)
GrantsWhatWasAsked ==
    \A d \in delivered :
        /\ d.cert.ca = d.request.certType
        /\ d.cert.subject = d.request.subject
        /\ d.cert.grant = d.request.grant

(***************************************************************************)
(* Nobody but logging loses a line: unless it dropped one (level, rotation *)
(* or a failed write), a certificate a caller holds has an audit line with *)
(* that caller and result=ok, whichever steps failed, died or raced.  And  *)
(* whatever logging does, a line with result=ok says that the store can    *)
(* answer a retry of the request.                                          *)
(***************************************************************************)
AuditCoversAnswers ==
    /\ ~gaps =>
          \A d \in delivered : [request |-> d.request, result |-> "ok"] \in audit
    /\ \A e \in audit : e.result = "ok" => store[build_hash(e.request)] # None

(***************************************************************************)
(* How far identical requests can be answered differently when nothing     *)
(* keeps callers from sending them at the same time: one thread never puts *)
(* two different certificates for the same parameters into the hands of    *)
(* callers, so their number is bounded by the size of the pool, however    *)
(* many requests, failures and restarts there are.                         *)
(***************************************************************************)
OneCertPerThread ==
    \A d, e \in delivered :
        /\ build_hash(d.request) = build_hash(e.request)
        /\ d.cert.signer = e.cert.signer
        => d.cert = e.cert

(***************************************************************************)
(* A row is settled when it is there and no thread that missed it is still *)
(* signing for its key.  A settled row is never replaced and never becomes *)
(* unsettled again, so the race on a key happens once in its life.         *)
(***************************************************************************)
Settled(k) ==
    /\ store[k] # None
    /\ \A w \in Workers :
          pc[w] \in {"keygen", "put"} => build_hash(req[w]) # k

SettledForever ==
    [][\A k \in HashKey :
         Settled(k) => Settled(k)' /\ store'[k] = store[k]]_vars

(***************************************************************************)
(* docs/specification.md:314: identical requests are handled idempotently, *)
(* so all callers that sent the same parameters hold the same certificate. *)
(***************************************************************************)
IdempotentAnswers ==
    \A d, e \in delivered :
        build_hash(d.request) = build_hash(e.request) => d.cert = e.cert

(***************************************************************************)
(* When callers keep the retry rule, the signing path, with its failures   *)
(* and restarts, implements the promise of IdempotentIssuance: the table   *)
(* row is the issued certificate and each delivered response an answer.    *)
(***************************************************************************)
Promise == INSTANCE IdempotentIssuance WITH
    Keys <- HashKey,
    CertsFor <- [k \in HashKey |->
        [id : 1..MaxCerts, ca : {k.certType}, subject : {k.subject},
         grant : {k.grant}, signer : Workers]],
    issued <- store,
    answers <- {<<build_hash(d.request), d.cert>> : d \in delivered}

ImplementsPromise == Promise!Spec
=============================================================================
