--------------------------- MODULE EndToEndProofs ---------------------------
(***************************************************************************)
(* Proofs about EndToEnd, for any number of processes, threads, keys,      *)
(* certificates and kills: the broker keeps the invariants of              *)
(* SigningServiceProofs, the whole implements ClientAgent, and so the      *)
(* theorems of ClientAgentProofs hold of the client in front of the real   *)
(* broker.                                                                 *)
(***************************************************************************)
EXTENDS EndToEnd, TLAPS

BP == INSTANCE SigningServiceProofs WITH
    pc <- stage, CertTypes <- {"user"}, Subjects <- Key, Grants <- {"bundle"},
    Callers <- {"requester"}, SerialCallers <- FALSE

CP == INSTANCE ClientAgentProofs WITH
    issued <- Issued, abandoned <- Abandoned

(***************************************************************************)
(* The constants are what the two modules assume of theirs.                *)
(***************************************************************************)
LEMMA BrokerConstants ==
    /\ {"user"} \subseteq {"user", "host"} /\ MaxCerts \in Nat /\ FALSE \in BOOLEAN
    /\ None \notin BP!Certificate /\ None \notin BP!Request
BY ConstantsAssumption, ValuesAssumption
   DEF Broker!Certificate, Broker!Request, BP!Certificate, BP!Request

LEMMA ClientConstants ==
    /\ Ttl \in Nat \ {0} /\ MinWindow \in Nat
    /\ MaxKeys \in Nat \ {0} /\ MaxKills \in Nat
    /\ KeyReady \in BOOLEAN
    /\ Absent \notin CP!Certificate /\ Absent \notin CP!Key /\ Absent # "installed"
    /\ Torn \notin CP!Certificate /\ Torn # "installed"
    /\ Absent # Torn
BY ConstantsAssumption, ValuesAssumption
   DEF Client!Certificate, Client!Key, CP!Certificate, CP!Key, Key

(***************************************************************************)
(* The instances of the proof modules speak of the same definitions.       *)
(***************************************************************************)
LEMMA SameBroker ==
    /\ Broker!Init <=> BP!Init
    /\ Broker!Next <=> BP!Next
    /\ Broker!vars = BP!vars
    /\ Broker!TypeOK <=> BP!TypeOK
BY DEF Broker!Init, BP!Init, Broker!vars, BP!vars, Broker!TypeOK, BP!TypeOK, Broker!Stages, BP!Stages,
  Broker!Certificate, BP!Certificate, Broker!Request, BP!Request, Broker!HashKey, BP!HashKey,
  Broker!AuditEntry, BP!AuditEntry, Broker!Delivery, BP!Delivery,
  Broker!Next, BP!Next, Broker!Accept, BP!Accept, Broker!StoreHit, BP!StoreHit, Broker!StoreMiss, BP!StoreMiss,
  Broker!RunKeygen, BP!RunKeygen, Broker!KeygenFails, BP!KeygenFails, Broker!StorePut, BP!StorePut,
  Broker!HandlerRaises, BP!HandlerRaises, Broker!WriteLine, BP!WriteLine, Broker!AuditOk, BP!AuditOk,
  Broker!AuditFailed, BP!AuditFailed, Broker!RotateAway, BP!RotateAway, Broker!log, BP!log,
  Broker!Respond, BP!Respond, Broker!RespondLost, BP!RespondLost, Broker!Crash, BP!Crash,
  Broker!Release, BP!Release, Broker!build_hash, BP!build_hash, Broker!InFlight, BP!InFlight

LEMMA SameClient ==
    /\ Client!Init <=> CP!Init
    /\ Client!Next <=> CP!Next
    /\ Client!vars = CP!vars
    /\ Client!TypeOK <=> CP!TypeOK
BY DEF Client!Init, CP!Init, Client!vars, CP!vars, Client!TypeOK, CP!TypeOK,
  Client!Stages, CP!Stages, Client!Commands, CP!Commands, Client!Certificate, CP!Certificate,
  Client!Key, CP!Key, Client!Next, CP!Next, Client!Start, CP!Start, Client!Step, CP!Step,
  Client!Local, CP!Local, Client!Kill, CP!Kill, Client!HandlerStores, CP!HandlerStores,
  Client!HandlersEnd, CP!HandlersEnd, Client!Tick, CP!Tick, Client!Older, CP!Older,
  Client!Asked, CP!Asked, Client!Keep, CP!Keep, Client!Answer, CP!Answer,
  Client!CallFails, CP!CallFails, Client!Abandons, CP!Abandons, Client!Finish, CP!Finish,
  Client!Goto, CP!Goto, Client!FirstStage, CP!FirstStage, Client!AfterKey, CP!AfterKey,
  Client!RequestCertificate, CP!RequestCertificate, Client!LocalWork, CP!LocalWork,
  Client!files, CP!files, Client!locals, CP!locals,
  Client!InspectRaises, CP!InspectRaises, Client!InspectSkips, CP!InspectSkips,
  Client!InspectRenews, CP!InspectRenews, Client!needs_renewal, CP!needs_renewal,
  Client!KeyPresent, CP!KeyPresent, Client!KeyMissing, CP!KeyMissing,
  Client!KeygenRefuses, CP!KeygenRefuses, Client!KeygenStarts, CP!KeygenStarts,
  Client!KeygenPrivate, CP!KeygenPrivate, Client!KeygenPublic, CP!KeygenPublic,
  Client!VerifyReads, CP!VerifyReads, Client!FetchHostCa, CP!FetchHostCa,
  Client!BlankHostCa, CP!BlankHostCa, Client!WriteHostCa, CP!WriteHostCa,
  Client!LoadPublicKey, CP!LoadPublicKey, Client!BlankCertificate, CP!BlankCertificate,
  Client!WriteCertificate, CP!WriteCertificate, Client!LaunchSsh, CP!LaunchSsh

-----------------------------------------------------------------------------
(***************************************************************************)
(* The rows and requests there are: one per key.                           *)
(***************************************************************************)
Hash(k) == [certType |-> "user", subject |-> k, grant |-> "bundle"]

Rows == [k \in Key |-> Row(k)]

LEMMA OneRequestPerKey ==
    /\ \A r \in BP!Request : /\ r.subject \in Key /\ r = RequestFor(r.subject)
                             /\ Broker!build_hash(r) = Hash(r.subject)
    /\ \A k \in Key : /\ RequestFor(k) \in BP!Request
                      /\ Hash(k) \in BP!HashKey
                      /\ BP!build_hash(RequestFor(k)) = Hash(k)
                      /\ Rows[k] = store[Hash(k)]
BY DEF BP!Request, BP!HashKey, BP!build_hash, Broker!build_hash, Hash, RequestFor, Row,
       Rows

(***************************************************************************)
(* What the invariants of the broker say of rows and threads, by key.      *)
(***************************************************************************)
BrokerInv == BP!TypeInv /\ BP!ServeInv

RowsFit ==
    \A k \in Key :
        /\ Rows[k] # None => /\ Rows[k] \in Broker!Certificate
                            /\ Rows[k].subject = k /\ Rows[k].id \in 1..MaxCerts

\* Unless logging has lost a line, the log has the one for this key.
Recorded(k) == ~gaps => [request |-> RequestFor(k), result |-> "ok"] \in audit

ThreadsFit ==
    \A w \in Workers :
        /\ stage[w] # "idle" =>
              /\ req[w].subject \in Key /\ req[w] = RequestFor(req[w].subject)
              /\ Broker!build_hash(req[w]) = Hash(req[w].subject)
        /\ stage[w] \in {"put", "audit", "respond"} =>
              /\ cert[w] \in Broker!Certificate /\ cert[w] # None
              /\ cert[w].subject = req[w].subject /\ cert[w].id \in 1..MaxCerts
        /\ stage[w] \in {"audit", "respond"} => Rows[req[w].subject] # None
        /\ stage[w] = "respond" => Recorded(req[w].subject)

BrokerTypes ==
    /\ stage \in [Workers -> Broker!Stages]
    /\ req \in [Workers -> Broker!Request \cup {None}]
    /\ cert \in [Workers -> Broker!Certificate \cup {None}]
    /\ store \in [Broker!HashKey -> Broker!Certificate \cup {None}]
    /\ minted \in 0..MaxCerts

LEMMA BrokerFacts == BrokerInv => RowsFit /\ ThreadsFit /\ BrokerTypes
<1> SUFFICES ASSUME BrokerInv PROVE RowsFit /\ ThreadsFit /\ BrokerTypes
  OBVIOUS
<1>1. BrokerTypes
  BY DEF BrokerInv, BrokerTypes, BP!TypeInv, BP!TypeOK, BP!Stages, Broker!Stages,
         BP!Request, Broker!Request, BP!Certificate, Broker!Certificate,
         BP!HashKey, Broker!HashKey
<1>2. RowsFit
  <2> SUFFICES ASSUME NEW k \in Key, Rows[k] # None
               PROVE  /\ Rows[k] \in Broker!Certificate
                      /\ Rows[k].subject = k /\ Rows[k].id \in 1..MaxCerts
    BY DEF RowsFit
  <2>1. Hash(k) \in BP!HashKey /\ Rows[k] = store[Hash(k)]
    BY OneRequestPerKey
  <2>2. Rows[k] \in Broker!Certificate
    BY <1>1, <2>1 DEF BrokerTypes, BP!HashKey, Broker!HashKey
  <2>3. BP!KeyOf(Rows[k]) = Hash(k)
    BY <2>1 DEF BrokerInv, BP!ServeInv, BP!RowsSuit
  <2> QED
    BY <2>2, <2>3 DEF BP!KeyOf, Hash, Broker!Certificate
<1>3. ASSUME NEW w \in Workers, stage[w] # "idle"
      PROVE  /\ req[w].subject \in Key /\ req[w] = RequestFor(req[w].subject)
             /\ Broker!build_hash(req[w]) = Hash(req[w].subject)
             /\ BP!build_hash(req[w]) = Hash(req[w].subject)
             /\ Rows[req[w].subject] = store[Hash(req[w].subject)]
  <2>1. req[w] \in BP!Request
    BY <1>3 DEF BrokerInv, BP!TypeInv, BP!HandlerOK
  <2> QED
    BY <2>1, OneRequestPerKey
<1>4. ASSUME NEW w \in Workers, stage[w] \in {"put", "audit", "respond"}
      PROVE  /\ cert[w] \in Broker!Certificate /\ cert[w] # None
             /\ cert[w].subject = req[w].subject /\ cert[w].id \in 1..MaxCerts
  <2>1. cert[w] \in Broker!Certificate
    BY <1>4 DEF BrokerInv, BP!TypeInv, BP!HandlerOK, BP!Certificate, Broker!Certificate
  <2>2. BP!KeyOf(cert[w]) = Hash(req[w].subject)
    BY <1>3, <1>4 DEF BrokerInv, BP!ServeInv, BP!CarriesOwn
  <2> QED
    BY <2>1, <2>2, ValuesAssumption DEF BP!KeyOf, Hash, Broker!Certificate
<1>5. ASSUME NEW w \in Workers
      PROVE  /\ stage[w] \in {"audit", "respond"} => Rows[req[w].subject] # None
             /\ stage[w] = "respond" => Recorded(req[w].subject)
  BY <1>3 DEF BrokerInv, BP!ServeInv, BP!CarriesOwn, BP!OnRecord, Recorded
<1>6. ThreadsFit
  BY <1>3, <1>4, <1>5 DEF ThreadsFit
<1> QED
  BY <1>1, <1>2, <1>6

(***************************************************************************)
(* What the type invariant of the client says, in the terms of EndToEnd.   *)
(***************************************************************************)
ClientTypes ==
    /\ pc \in [Procs -> Client!Stages]
    /\ cmd \in [Procs -> Client!Commands]
    /\ pubkey \in [Procs -> Key \cup {Absent}]
    /\ got \in [Procs -> Client!Certificate \cup {Absent}]
    /\ certFile \in Client!Certificate \cup {Absent, Torn}
    /\ Issued \in [Key -> Client!Certificate \cup {Absent}]
    /\ \A p \in Procs :
          /\ pc[p] \in {"genpub", "request"} => pubkey[p] \in Key
          /\ pc[p] \in {"blank", "write"} => got[p] \in Client!Certificate

LEMMA ClientFacts == CP!TypeInv => ClientTypes
BY DEF CP!TypeInv, CP!TypeOK, CP!InHand, ClientTypes, CP!Stages, Client!Stages,
       CP!Commands, Client!Commands, CP!Certificate, Client!Certificate,
       CP!Key, Client!Key, Key

(***************************************************************************)
(* A step of the client by itself concerns one process, which does not     *)
(* wait for an answer; certificates only move from its hands to the file.  *)
(***************************************************************************)
Shape(p) ==
    /\ pc[p] # "request"
    /\ \A q \in Procs \ {p} : /\ pc'[q] = pc[q] /\ pubkey'[q] = pubkey[q]
                              /\ got'[q] = got[q]
    /\ got'[p] \in {got[p], Absent}
    /\ \/ certFile' \in {certFile, Torn}
       \/ pc[p] = "write" /\ certFile' = got[p]

LEMMA LocalShape ==
    ASSUME ClientTypes, NEW p \in Procs, ClientStep(p)
    PROVE  Shape(p)
<1> USE DEF ClientTypes, Shape, Client!Goto, Client!Finish, Client!locals, Client!files
<1>1. ASSUME NEW c \in Client!Commands, Client!Start(p, c) PROVE Shape(p)
  BY <1>1 DEF Client!Start
<1>2. ASSUME \/ Client!InspectRaises(p) \/ Client!InspectSkips(p)
             \/ Client!InspectRenews(p) \/ Client!KeyPresent(p)
             \/ Client!KeyMissing(p) \/ Client!KeygenRefuses(p)
             \/ Client!KeygenStarts(p)
      PROVE  Shape(p)
  BY <1>2 DEF Client!InspectRaises, Client!InspectSkips, Client!InspectRenews,
     Client!KeyPresent, Client!KeyMissing, Client!KeygenRefuses, Client!KeygenStarts
<1>3. ASSUME \/ Client!KeygenPrivate(p) \/ Client!KeygenPublic(p)
             \/ Client!VerifyReads(p) \/ Client!FetchHostCa(p)
             \/ Client!BlankHostCa(p) \/ Client!WriteHostCa(p)
             \/ Client!LoadPublicKey(p)
      PROVE  Shape(p)
  BY <1>3 DEF Client!KeygenPrivate, Client!KeygenPublic, Client!VerifyReads,
     Client!FetchHostCa, Client!BlankHostCa, Client!WriteHostCa, Client!LoadPublicKey
<1>4. ASSUME \/ Client!BlankCertificate(p) \/ Client!WriteCertificate(p)
             \/ Client!LaunchSsh(p)
      PROVE  Shape(p)
  BY <1>4 DEF Client!BlankCertificate, Client!WriteCertificate, Client!LaunchSsh
<1> HIDE DEF Shape
<1> QED
  BY <1>1, <1>2, <1>3, <1>4 DEF ClientStep, Client!Local

LEMMA LeaveShape ==
    ASSUME ClientTypes, NEW p \in Procs, Leave(p)
    PROVE  /\ pc'[p] = "idle" /\ got'[p] = Absent
           /\ \A q \in Procs \ {p} : /\ pc'[q] = pc[q] /\ pubkey'[q] = pubkey[q]
                                     /\ got'[q] = got[q]
BY DEF ClientTypes, Leave, Client!Finish

(***************************************************************************)
(* Every step of the whole is a step of the broker or leaves it alone.     *)
(***************************************************************************)
LEMMA BrokerStep ==
    ASSUME ClientTypes, [Next]_vars
    PROVE  [BP!Next]_(BP!vars)
<1>1. CASE UNCHANGED broker
  BY <1>1 DEF broker, log, BP!vars, BP!log
<1>2. ASSUME NEW p \in Procs, NEW w \in Workers, Send(p, w) PROVE Broker!Next
  <2>1. RequestFor(pubkey[p]) \in Broker!Request
    BY <1>2, OneRequestPerKey DEF Send, ClientTypes, BP!Request, Broker!Request
  <2> QED
    BY <1>2, <2>1 DEF Send, Broker!Next
<1>3. ASSUME NEW w \in Workers,
             Handle(w) \/ Sign(w) \/ Respond(w) \/ EndWithoutAnswer(w)
      PROVE  Broker!Next
  BY <1>3 DEF Handle, Sign, Respond, EndWithoutAnswer, Broker!Next
<1>4. CASE Restart
  BY <1>4, SameBroker DEF Restart, Broker!Next
<1>5. CASE LogRotates
  BY <1>5, SameBroker DEF LogRotates, Broker!Next
<1> QED
  BY <1>1, <1>2, <1>3, <1>4, <1>5, SameBroker
  DEF Next, vars, ClientStep, GiveUp, Kill, Leave, Tick, broker

LEMMA BrokerInvStep ==
    ASSUME ClientTypes, BrokerInv, [Next]_vars
    PROVE  BrokerInv'
<1>1. [BP!Next]_(BP!vars)
  BY BrokerStep
<1> QED
  BY <1>1, BP!TypeInvStep, BP!ServeInvStep, BrokerConstants DEF BrokerInv

-----------------------------------------------------------------------------
(***************************************************************************)
(* A process waits for at most one thread, which serves its own request    *)
(* and nobody else's.                                                      *)
(***************************************************************************)
CallsFit ==
    /\ call \in [Procs -> Workers \cup {None, Lost}]
    /\ \A p \in Procs :
          /\ call[p] # None => pc[p] = "request"
          /\ call[p] \in Workers =>
                /\ stage[call[p]] # "idle"
                /\ req[call[p]] = RequestFor(pubkey[p])
                /\ \A q \in Procs : call[q] = call[p] => q = p

(***************************************************************************)
(* Threads work, and go back to the pool, each on its own.                 *)
(***************************************************************************)
LEMMA WorkShape ==
    ASSUME BrokerTypes, NEW w \in Workers, Handle(w) \/ Sign(w)
    PROVE  /\ stage[w] # "idle" /\ stage'[w] # "idle" /\ UNCHANGED req
           /\ \A v \in Workers \ {w} : stage'[v] = stage[v] /\ cert'[v] = cert[v]
BY DEF BrokerTypes, Handle, Sign, Broker!StoreHit, Broker!StoreMiss, Broker!RunKeygen,
   Broker!KeygenFails, Broker!StorePut, Broker!AuditOk

LEMMA ReleaseShape ==
    ASSUME BrokerTypes, NEW w \in Workers, Broker!Release(w)
    PROVE  /\ stage'[w] = "idle"
           /\ \A v \in Workers \ {w} : /\ stage'[v] = stage[v] /\ req'[v] = req[v]
                                       /\ cert'[v] = cert[v]
BY DEF BrokerTypes, Broker!Release

LEMMA EndShape ==
    ASSUME NEW w \in Workers, EndWithoutAnswer(w)
    PROVE  Broker!Release(w) /\ LoseCalls({w}) /\ UNCHANGED <<store, left, minted>>
BY DEF EndWithoutAnswer, LoseCalls, Broker!HandlerRaises, Broker!AuditFailed,
       Broker!RespondLost

LEMMA CallsFitInit == Init => CallsFit
BY ConstantsAssumption DEF Init, CallsFit

LEMMA CallsFitStep ==
    ASSUME ClientTypes, BrokerTypes, CallsFit, [Next]_vars
    PROVE  CallsFit'
<1>1. ASSUME NEW p \in Procs, ClientStep(p) PROVE CallsFit'
  <2>1. Shape(p) /\ UNCHANGED <<call, stage, req>>
    BY <1>1, LocalShape DEF ClientStep, broker
  <2>2. call[p] = None
    BY <2>1 DEF CallsFit, Shape
  <2> QED
    BY <2>1, <2>2, ConstantsAssumption DEF CallsFit, Shape
<1>2. ASSUME NEW p \in Procs, NEW w \in Workers, Send(p, w) PROVE CallsFit'
  <2>1. /\ stage[w] = "idle" /\ stage' = [stage EXCEPT ![w] = "get"]
        /\ req' = [req EXCEPT ![w] = RequestFor(pubkey[p])]
        /\ call' = [call EXCEPT ![p] = w] /\ UNCHANGED <<pc, pubkey>>
        /\ pc[p] = "request"
    BY <1>2 DEF Send, Broker!Accept
  <2>2. \A q \in Procs : call[q] # w
    BY <2>1 DEF CallsFit
  <2> QED
    BY <2>1, <2>2 DEF CallsFit, BrokerTypes
<1>3. ASSUME NEW p \in Procs, Leave(p) PROVE CallsFit'
  <2>1. /\ call' = [call EXCEPT ![p] = None] /\ UNCHANGED <<stage, req>>
        /\ \A q \in Procs \ {p} : pc'[q] = pc[q] /\ pubkey'[q] = pubkey[q]
    BY <1>3, LeaveShape DEF Leave, broker
  <2> QED
    BY <2>1, ConstantsAssumption DEF CallsFit
<1>4. ASSUME NEW w \in Workers, Handle(w) \/ Sign(w) PROVE CallsFit'
  <2>1. UNCHANGED <<pc, pubkey, call>>
    BY <1>4 DEF Handle, Sign, locals
  <2> QED
    BY <1>4, <2>1, WorkShape DEF CallsFit
<1>5. ASSUME NEW w \in Workers, Respond(w) PROVE CallsFit'
  <2>1. Broker!Release(w) /\ UNCHANGED pubkey
    BY <1>5 DEF Respond, Broker!Respond
  <2>2. PICK p \in Procs : /\ call[p] = w /\ pc' = [pc EXCEPT ![p] = "blank"]
                           /\ call' = [call EXCEPT ![p] = None]
    BY <1>5 DEF Respond
  <2>3. \A q \in Procs \ {p} : call[q] # w
    BY <2>2 DEF CallsFit
  <2> QED
    BY <2>1, <2>2, <2>3, ReleaseShape, ConstantsAssumption DEF CallsFit, ClientTypes
<1>6. ASSUME NEW w \in Workers, EndWithoutAnswer(w) PROVE CallsFit'
  <2>1. Broker!Release(w) /\ LoseCalls({w})
    BY <1>6, EndShape
  <2> QED
    BY <2>1, ReleaseShape, ConstantsAssumption DEF CallsFit, LoseCalls
<1>7. CASE Restart
  BY <1>7, ConstantsAssumption DEF Restart, LoseCalls, CallsFit
<1>8. CASE UNCHANGED <<pc, pubkey, call, stage, req>>
  BY <1>8 DEF CallsFit
<1> QED
  BY <1>1, <1>2, <1>3, <1>4, <1>5, <1>6, <1>7, <1>8
  DEF Next, vars, locals, broker, GiveUp, Kill, LogRotates, Broker!RotateAway, Tick

-----------------------------------------------------------------------------
(***************************************************************************)
(* Age.  Threads that sign for a key with a row signed it, as the row was, *)
(* within the tick; so a row that replaces another one expires with it,    *)
(* and whatever has left the handlers can be compared with the row.        *)
(***************************************************************************)
Ages == [k \in Key |-> left[Rows[k].id]]

ThreadAge(w) ==
    /\ stage[w] \in {"put", "audit", "respond"} => cert[w].id <= minted
    /\ stage[w] = "put" => left[cert[w].id] = Ttl
    /\ stage[w] \in {"keygen", "put"} /\ Rows[req[w].subject] # None
          => Ages[req[w].subject] = Ttl
    /\ stage[w] \in {"audit", "respond"} => left[cert[w].id] = Ages[req[w].subject]

SameAge ==
    /\ left \in [1..MaxCerts -> 0..Ttl]
    /\ \A k \in Key : Rows[k] # None => Rows[k].id <= minted
    /\ \A w \in Workers : ThreadAge(w)

LEMMA SameAgeInit == Init => SameAge
<1> SUFFICES ASSUME Init PROVE SameAge
  OBVIOUS
<1>1. \A k \in Key : Rows[k] = None
  BY OneRequestPerKey DEF Init, Broker!Init, BP!HashKey, Broker!HashKey
<1> QED
  BY <1>1, ConstantsAssumption DEF Init, Broker!Init, SameAge, ThreadAge

\* store.put replaces the row of the thread's key and no other.
LEMMA PutShape ==
    ASSUME BrokerTypes, ThreadsFit, NEW w \in Workers, Broker!StorePut(w)
    PROVE  /\ Rows'[req'[w].subject] = cert[w]
           /\ \A k \in Key : k # req[w].subject => Rows'[k] = Rows[k]
<1>1. /\ stage[w] = "put" /\ req[w].subject \in Key
      /\ Broker!build_hash(req[w]) = Hash(req[w].subject)
      /\ store' = [store EXCEPT ![Hash(req[w].subject)] = cert[w]]
      /\ UNCHANGED req
  BY DEF ThreadsFit, Broker!StorePut
<1>2. \A k \in Key : /\ Hash(k) \in Broker!HashKey
                    /\ Rows[k] = store[Hash(k)] /\ Rows'[k] = store'[Hash(k)]
  BY DEF Hash, Broker!HashKey, Row, Rows, RequestFor, Broker!build_hash
<1>3. \A k \in Key : k # req[w].subject => Hash(k) # Hash(req[w].subject)
  BY DEF Hash
<1>4. Rows'[req'[w].subject] = store'[Hash(req[w].subject)]
  BY <1>1, <1>2
<1> QED
  BY <1>1, <1>2, <1>3, <1>4 DEF BrokerTypes

LEMMA SameAgeStep ==
    ASSUME BrokerTypes, RowsFit, ThreadsFit, SameAge, [Next]_vars
    PROVE  SameAge'
<1>0. UNCHANGED store => UNCHANGED Rows
  BY DEF Row, Rows
<1>a. \A k \in Key : /\ Ages[k] = left[Rows[k].id] /\ Ages'[k] = left'[Rows'[k].id]
                    /\ Rows[k] = store[Hash(k)]
  BY OneRequestPerKey DEF Ages
<1>b. \A w \in Workers : stage[w] # "idle" =>
        /\ req[w].subject \in Key
        /\ Broker!build_hash(req[w]) = Hash(req[w].subject)
        /\ store[Broker!build_hash(req[w])] = Rows[req[w].subject]
  BY <1>a DEF ThreadsFit
<1>c. ASSUME UNCHANGED <<left, store>> PROVE UNCHANGED <<Rows, Ages>>
  BY <1>0, <1>c DEF Ages
<1>1. CASE UNCHANGED <<stage, req, cert, store, minted, left>>
  BY <1>c, <1>1 DEF SameAge, ThreadAge
<1>2. ASSUME NEW p \in Procs, NEW w \in Workers, Send(p, w) PROVE SameAge'
  BY <1>c, <1>2 DEF Send, Broker!Accept, SameAge, ThreadAge, BrokerTypes
<1>3. ASSUME NEW w \in Workers, Broker!StoreHit(w), UNCHANGED left PROVE SameAge'
  <2>1. /\ stage[w] = "get" /\ Rows[req[w].subject] # None
        /\ cert' = [cert EXCEPT ![w] = Rows[req[w].subject]]
        /\ stage' = [stage EXCEPT ![w] = "audit"]
        /\ UNCHANGED <<store, minted, req>>
    BY <1>3, <1>b DEF Broker!StoreHit
  <2>2. Rows[req[w].subject].id <= minted
    BY <1>b, <2>1 DEF SameAge, ThreadAge
  <2>3. Ages[req[w].subject] = left[Rows[req[w].subject].id]
    BY <1>a, <1>b, <2>1
  <2> QED
    BY <1>c, <1>3, <2>1, <2>2, <2>3 DEF SameAge, ThreadAge, BrokerTypes
<1>4. ASSUME NEW w \in Workers, UNCHANGED left,
             Broker!StoreMiss(w) \/ Broker!KeygenFails(w) \/ Broker!AuditOk(w)
      PROVE  SameAge'
  <2>1. CASE Broker!StoreMiss(w)
    <3>1. Rows[req[w].subject] = None
      BY <1>b, <2>1 DEF Broker!StoreMiss
    <3> QED
      BY <1>c, <1>4, <2>1, <3>1 DEF Broker!StoreMiss, SameAge, ThreadAge, BrokerTypes
  <2>2. CASE Broker!KeygenFails(w) \/ Broker!AuditOk(w)
    BY <1>c, <1>4, <2>2
    DEF Broker!KeygenFails, Broker!AuditOk, SameAge, ThreadAge, BrokerTypes
  <2> QED
    BY <1>4, <2>1, <2>2
<1>5. ASSUME NEW w \in Workers, Sign(w) PROVE SameAge'
  <2>1. /\ stage[w] = "keygen" /\ minted < MaxCerts /\ minted' = minted + 1
        /\ stage' = [stage EXCEPT ![w] = "put"] /\ UNCHANGED <<req, store>>
        /\ left' = [left EXCEPT ![minted + 1] = Ttl]
        /\ cert'[w].id = minted + 1
        /\ \A v \in Workers \ {w} : cert'[v] = cert[v]
    BY <1>5 DEF Sign, Broker!RunKeygen, BrokerTypes
  <2>2. minted \in Nat /\ minted + 1 \in 1..MaxCerts
    BY <2>1, ConstantsAssumption DEF BrokerTypes
  <2>3. \A i \in 1..MaxCerts : i <= minted => left'[i] = left[i]
    BY <2>1, <2>2 DEF SameAge, ThreadAge
  <2>4. \A k \in Key : Rows[k] # None => /\ Rows[k].id <= minted
                                        /\ Ages'[k] = Ages[k]
    BY <1>0, <1>a, <2>1, <2>3 DEF SameAge, RowsFit
  <2>5. left' \in [1..MaxCerts -> 0..Ttl] /\ left'[minted + 1] = Ttl
    BY <2>1, <2>2, ConstantsAssumption DEF SameAge, ThreadAge
  <2>6. \A k \in Key : Rows'[k] # None => Rows'[k].id <= minted'
    BY <1>0, <2>1, <2>2, <2>4 DEF RowsFit
  <2>7. ASSUME NEW v \in Workers, v # w
        PROVE  ThreadAge(v)'
    <3>1. stage'[v] = stage[v] /\ cert'[v] = cert[v]
      BY <2>1, <2>7 DEF BrokerTypes
    <3>2. stage[v] \in {"put", "audit", "respond"} =>
            /\ cert[v].id \in 1..MaxCerts /\ cert[v].id <= minted
            /\ left'[cert[v].id] = left[cert[v].id]
      BY <2>3 DEF SameAge, ThreadAge, ThreadsFit
    <3>3. stage[v] # "idle" /\ Rows[req[v].subject] # None =>
            Ages'[req[v].subject] = Ages[req[v].subject]
      BY <1>b, <2>4
    <3>4. stage[v] \in {"audit", "respond"} => Rows[req[v].subject] # None
      BY DEF ThreadsFit
    <3> QED
      BY <1>0, <2>1, <2>2, <3>1, <3>2, <3>3, <3>4 DEF SameAge, ThreadAge
  <2>8. Rows'[req'[w].subject] # None => Ages'[req'[w].subject] = Ttl
    BY <1>0, <1>b, <2>1, <2>4 DEF SameAge, ThreadAge
  <2> QED
    BY <2>1, <2>2, <2>5, <2>6, <2>7, <2>8 DEF SameAge, ThreadAge, BrokerTypes
<1>6. ASSUME NEW w \in Workers, Broker!StorePut(w), UNCHANGED left PROVE SameAge'
  <2>1. /\ stage[w] = "put" /\ stage' = [stage EXCEPT ![w] = "audit"]
        /\ UNCHANGED <<req, cert, minted>>
    BY <1>6 DEF Broker!StorePut
  <2>2. /\ Rows'[req'[w].subject] = cert[w]
        /\ \A k \in Key : k # req[w].subject => Rows'[k] = Rows[k]
    BY <1>6, PutShape
  <2>3. cert[w].id <= minted /\ left[cert[w].id] = Ttl
    BY <2>1 DEF SameAge, ThreadAge
  <2>4. \A k \in Key : Rows'[k] # None => Rows'[k].id <= minted'
    BY <2>1, <2>2, <2>3 DEF SameAge, ThreadAge
  <2>5. Ages'[req'[w].subject] = Ttl
    BY <1>6, <1>a, <1>b, <2>1, <2>2, <2>3
  <2>6. Rows[req[w].subject] # None => Ages[req[w].subject] = Ttl
    BY <2>1 DEF SameAge, ThreadAge
  <2>7. \A k \in Key : Rows[k] # None => Ages'[k] = Ages[k]
    BY <1>6, <1>a, <2>1, <2>2, <2>5, <2>6
  <2>8. ASSUME NEW v \in Workers
        PROVE  ThreadAge(v)'
    <3>1. stage[v] # "idle" => req[v].subject \in Key
      BY DEF ThreadsFit
    <3>2. CASE v = w
      BY <1>6, <2>1, <2>3, <2>5, <3>2 DEF ThreadAge, BrokerTypes
    <3>3. CASE v # w
      <4>1. stage'[v] = stage[v]
        BY <2>1, <3>3 DEF BrokerTypes
      <4>2. stage[v] \in {"keygen", "put"} /\ Rows'[req'[v].subject] # None
              => Ages'[req'[v].subject] = Ttl
        BY <2>1, <2>2, <2>5, <2>7, <3>1 DEF SameAge, ThreadAge
      <4>3. stage[v] \in {"audit", "respond"} => Rows[req[v].subject] # None
        BY DEF ThreadsFit
      <4> QED
        BY <1>6, <2>1, <2>7, <3>1, <4>1, <4>2, <4>3 DEF SameAge, ThreadAge
    <3> QED
      BY <3>2, <3>3
  <2> QED
    BY <1>6, <2>1, <2>4, <2>8 DEF SameAge, ThreadAge
<1>7. ASSUME NEW w \in Workers, Broker!Release(w), UNCHANGED <<store, left, minted>>
      PROVE  SameAge'
  BY <1>c, <1>7, ReleaseShape DEF SameAge, ThreadAge
<1>8. CASE Restart
  BY <1>c, <1>8 DEF Restart, Broker!Crash, LoseCalls, SameAge, ThreadAge
<1>9. CASE Tick
  <2>1. /\ UNCHANGED <<stage, req, cert, store, minted>>
        /\ \A w \in Workers : stage[w] \notin {"keygen", "put"}
        /\ left' = [i \in 1..MaxCerts |-> IF left[i] = 0 THEN 0 ELSE left[i] - 1]
    BY <1>9 DEF Tick, broker
  <2>2. left' \in [1..MaxCerts -> 0..Ttl]
    BY <2>1, ConstantsAssumption DEF SameAge, ThreadAge
  <2>3. \A i, j \in 1..MaxCerts : left[i] = left[j] => left'[i] = left'[j]
    BY <2>1
  <2>4. ASSUME NEW w \in Workers, stage[w] \in {"audit", "respond"}
        PROVE  left'[cert[w].id] = Ages'[req'[w].subject]
    <3>1. /\ req[w].subject \in Key /\ cert[w].id \in 1..MaxCerts
          /\ Rows[req[w].subject].id \in 1..MaxCerts
      BY <2>4 DEF ThreadsFit, RowsFit
    <3>2. left[cert[w].id] = left[Rows[req[w].subject].id]
      BY <1>a, <2>4, <3>1 DEF SameAge, ThreadAge
    <3>3. Ages'[req[w].subject] = left'[Rows[req[w].subject].id]
      BY <1>0, <1>a, <2>1, <3>1
    <3> QED
      BY <2>1, <2>3, <3>1, <3>2, <3>3
  <2> QED
    BY <1>0, <2>1, <2>2, <2>4 DEF SameAge, ThreadAge
<1> QED
  <2>1. ASSUME NEW w \in Workers, Handle(w) PROVE SameAge'
    BY <1>3, <1>4, <1>6, <2>1 DEF Handle
  <2>2. ASSUME NEW w \in Workers, Respond(w) \/ EndWithoutAnswer(w) PROVE SameAge'
    BY <1>7, <2>2, EndShape DEF Respond, Broker!Respond
  <2>3. ASSUME NEW p \in Procs, ClientStep(p) \/ GiveUp(p) \/ Kill(p) PROVE SameAge'
    BY <1>1, <2>3 DEF ClientStep, GiveUp, Kill, Leave, broker
  <2> QED
    BY <1>1, <1>2, <1>5, <1>8, <1>9, <2>1, <2>2, <2>3
    DEF Next, vars, broker, LogRotates, Broker!RotateAway

-----------------------------------------------------------------------------
(***************************************************************************)
(* The step of ClientAgent that each step of the whole is.  Answers and    *)
(* commands are steps of a process, the row of a key without one is        *)
(* HandlerStores, and the rest of what threads do is at most that          *)
(* abandoned handlers end.                                                 *)
(***************************************************************************)
Premises == /\ ClientTypes /\ BrokerTypes /\ RowsFit /\ ThreadsFit
            /\ CallsFit /\ SameAge

LEMMA IssuedByKey ==
    ASSUME RowsFit, SameAge
    PROVE  \A k \in Key :
              /\ Rows[k] = None => Issued[k] = Absent
              /\ Rows[k] # None => /\ Issued[k] # Absent
                                   /\ Issued[k] = [key |-> k, left |-> Ages[k]]
<1> SUFFICES ASSUME NEW k \in Key
             PROVE  /\ Rows[k] = None => Issued[k] = Absent
                    /\ Rows[k] # None => /\ Issued[k] # Absent
                                         /\ Issued[k] = [key |-> k, left |-> Ages[k]]
  OBVIOUS
<1>1. Rows[k] = Row(k) /\ Ages[k] = left[Rows[k].id]
  BY DEF Rows, Ages
<1>2. Rows[k] # None => Issued[k] = [key |-> k, left |-> Ages[k]]
  BY <1>1 DEF Issued, View, RowsFit
<1>3. ASSUME Rows[k] # None PROVE Issued[k] # Absent
  <2>1. Ages[k] \in 0..Ttl
    BY <1>1, <1>3 DEF RowsFit, SameAge
  <2>2. Issued[k] \in Client!Certificate
    BY <1>2, <1>3, <2>1 DEF Client!Certificate, Client!Key, Key
  <2> QED
    BY <2>2, ValuesAssumption
<1> QED
  BY <1>1, <1>2, <1>3 DEF Issued

LEMMA IssuedSame ==
    ASSUME UNCHANGED Rows, \A k \in Key : Rows[k] # None => Ages'[k] = Ages[k]
    PROVE  UNCHANGED Issued
<1>1. \A k \in Key : Rows[k] = Row(k) /\ Rows'[k] = Row(k)'
  BY DEF Rows
<1>2. \A k \in Key : Ages[k] = left[Rows[k].id] /\ Ages'[k] = left'[Rows'[k].id]
  BY DEF Ages
<1> QED
  BY <1>1, <1>2 DEF Issued, View

LEMMA AbandonedAre ==
    /\ Abandoned \subseteq Key /\ Abandoned' \subseteq Key
    /\ \A k \in Key :
          /\ k \in Abandoned <=>
                Rows[k] = None /\ \E v \in Workers : Orphan(v) /\ req[v].subject = k
          /\ k \in Abandoned' <=>
                Rows'[k] = None /\ \E v \in Workers : Orphan(v)' /\ req'[v].subject = k
BY DEF Abandoned, Rows

LEMMA AbandonedFewer ==
    ASSUME \A v \in Workers : Orphan(v)' => Orphan(v) /\ req'[v] = req[v],
           \A k \in Key : Rows[k] # None => Rows'[k] # None
    PROVE  Abandoned' \subseteq Abandoned
BY AbandonedAre

\* What threads do that no process notices.
LEMMA Quiet ==
    ASSUME UNCHANGED <<pc, cmd, pubkey, got, files, kills>>,
           UNCHANGED Issued, Abandoned' \subseteq Abandoned
    PROVE  [Client!Next]_(Client!vars)
<1>1. CASE Abandoned' = Abandoned
  BY <1>1 DEF Client!vars, files
<1>2. CASE Abandoned' # Abandoned
  <2>1. Client!HandlersEnd
    BY <1>2 DEF Client!HandlersEnd, Client!locals, Client!files, files
  <2> QED
    BY <2>1 DEF Client!Next
<1> QED
  BY <1>1, <1>2

LEMMA RotateSim ==
    ASSUME LogRotates
    PROVE  UNCHANGED Client!vars
<1>1. UNCHANGED <<Issued, Abandoned>>
  BY DEF LogRotates, Broker!RotateAway, locals, Issued, Abandoned, Row, View, Orphan
<1> QED
  BY <1>1 DEF LogRotates, locals, files, Client!vars

LEMMA ClientSim ==
    ASSUME NEW p \in Procs, ClientStep(p)
    PROVE  Client!Next
BY DEF ClientStep, Client!Next, Client!Step

LEMMA SendSim ==
    ASSUME Premises, NEW p \in Procs, NEW w \in Workers, Send(p, w)
    PROVE  [Client!Next]_(Client!vars)
<1> USE DEF Premises
<1>1. /\ call' = [call EXCEPT ![p] = w] /\ stage' = [stage EXCEPT ![w] = "get"]
      /\ UNCHANGED <<pc, cmd, pubkey, got, files, kills, left, store>>
      /\ \A v \in Workers \ {w} : req'[v] = req[v]
      /\ call[p] = None
  BY DEF Send, Broker!Accept, BrokerTypes
<1>2. UNCHANGED <<Rows, Ages>>
  BY <1>1 DEF Rows, Row, Ages
<1>3. ASSUME NEW v \in Workers, Orphan(v)' PROVE Orphan(v) /\ req'[v] = req[v]
  <2>1. v # w
    BY <1>1, <1>3 DEF Orphan, CallsFit
  <2> QED
    BY <1>1, <1>3, <2>1, ConstantsAssumption DEF Orphan, CallsFit, BrokerTypes
<1> QED
  BY <1>1, <1>2, <1>3, IssuedSame, AbandonedFewer, Quiet

(***************************************************************************)
(* A process that leaves makes the handler it waited for an orphan.        *)
(***************************************************************************)
LEMMA LeaveAbandons ==
    ASSUME Premises, NEW p \in Procs, pc[p] # "idle", Leave(p)
    PROVE  UNCHANGED Issued /\ Client!Abandons(p)
<1> USE DEF Premises
<1>1. /\ call' = [call EXCEPT ![p] = None] /\ UNCHANGED <<stage, req, store, left>>
  BY DEF Leave, broker
<1>2. UNCHANGED <<Rows, Ages>>
  BY <1>1 DEF Rows, Row, Ages
<1>3. UNCHANGED Issued
  BY <1>2, IssuedSame
<1>4. \A v \in Workers : call[p] # v => (Orphan(v)' <=> Orphan(v))
  BY <1>1, ConstantsAssumption DEF Orphan, CallsFit
<1>6. ASSUME NEW w \in Workers, call[p] = w
      PROVE  Client!Abandons(p)
  <2>1. pc[p] = "request" /\ pubkey[p] \in Key /\ req[w].subject = pubkey[p]
    <3>1. pc[p] = "request" /\ req[w] = RequestFor(pubkey[p])
      BY <1>6, ConstantsAssumption DEF CallsFit
    <3>2. pubkey[p] \in Key
      BY <3>1 DEF ClientTypes
    <3> QED
      BY <3>1, <3>2 DEF RequestFor
  <2>2. PICK k \in Key : pubkey[p] = k
    BY <2>1
  <2>3. ~Orphan(w)
    BY <1>6 DEF Orphan
  <2>4. CASE stage[w] \in {"get", "keygen", "put"} /\ Rows[k] = None
    <3>1. Orphan(w)'
      BY <1>1, <1>6, <2>4, ConstantsAssumption DEF Orphan, CallsFit
    <3>2. Abandoned' = Abandoned \cup {k}
      BY <1>1, <1>2, <1>4, <1>6, <2>1, <2>2, <2>3, <2>4, <3>1, AbandonedAre
    <3>3. Issued[k] = Absent
      BY <2>4, IssuedByKey
    <3> QED
      BY <2>1, <2>2, <3>2, <3>3 DEF Client!Abandons
  <2>5. CASE ~(stage[w] \in {"get", "keygen", "put"} /\ Rows[k] = None)
    <3>1. Orphan(w)' => Rows[k] # None
      BY <1>1, <2>5 DEF Orphan
    <3>2. Abandoned' = Abandoned
      BY <1>1, <1>2, <1>4, <1>6, <2>1, <2>2, <2>3, <3>1, AbandonedAre
    <3> QED
      BY <3>2 DEF Client!Abandons
  <2> QED
    BY <2>4, <2>5
<1>7. ASSUME call[p] \notin Workers PROVE Client!Abandons(p)
  <2>1. Abandoned' = Abandoned
    BY <1>1, <1>2, <1>4, <1>7, AbandonedAre
  <2> QED
    BY <2>1 DEF Client!Abandons
<1> QED
  BY <1>3, <1>6, <1>7

LEMMA GiveUpSim ==
    ASSUME Premises, NEW p \in Procs, GiveUp(p)
    PROVE  Client!Next
<1>1. UNCHANGED Issued /\ Client!Abandons(p)
  BY LeaveAbandons DEF GiveUp
<1>2. Client!CallFails(p)
  BY <1>1 DEF GiveUp, Leave, Client!CallFails, Client!files, files
<1> QED
  BY <1>2 DEF Client!Next, Client!Step

LEMMA KillSim ==
    ASSUME Premises, NEW p \in Procs, Kill(p)
    PROVE  Client!Next
<1>1. UNCHANGED Issued /\ Client!Abandons(p)
  BY LeaveAbandons DEF Kill
<1>2. Client!Kill(p)
  BY <1>1 DEF Kill, Leave, Client!Kill, Client!files, files
<1> QED
  BY <1>2 DEF Client!Next

(***************************************************************************)
(* store.put: the first row of a key is HandlerStores; a later one, with   *)
(* the same expiry, makes no difference to the client.                     *)
(***************************************************************************)
LEMMA PutSim ==
    ASSUME Premises, NEW w \in Workers, Broker!StorePut(w),
           UNCHANGED <<locals, files, kills, left>>
    PROVE  [Client!Next]_(Client!vars)
<1> USE DEF Premises
<1>1. /\ stage[w] = "put" /\ stage' = [stage EXCEPT ![w] = "audit"]
      /\ UNCHANGED <<req, cert, call>>
  BY DEF Broker!StorePut, locals
<1>2. PICK k \in Key : k = req[w].subject
  BY <1>1 DEF ThreadsFit
<1>3. /\ Rows'[k] = cert[w] /\ cert[w] # None
      /\ \A j \in Key : j # k => Rows'[j] = Rows[j]
      /\ cert[w].subject = k /\ left[cert[w].id] = Ttl
  BY <1>1, <1>2, PutShape DEF ThreadsFit, SameAge, ThreadAge
<1>4. \A j \in Key : Ages[j] = left[Rows[j].id] /\ Ages'[j] = left[Rows'[j].id]
  BY DEF Ages
<1>5. \A v \in Workers : /\ v # w => (Orphan(v)' <=> Orphan(v))
                        /\ ~Orphan(w)'
  BY <1>1 DEF Orphan, BrokerTypes
<1>6. Issued' = [Issued EXCEPT ![k] = [key |-> k, left |-> Ttl]]
  <2>1. \A j \in Key : Rows[j] = Row(j) /\ Rows'[j] = Row(j)'
    BY DEF Rows
  <2>2. /\ Issued' = [j \in Key |-> IF Rows'[j] = None THEN Absent
                       ELSE [key |-> Rows'[j].subject, left |-> left[Rows'[j].id]]]
        /\ Issued = [j \in Key |-> IF Rows[j] = None THEN Absent
                       ELSE [key |-> Rows[j].subject, left |-> left[Rows[j].id]]]
    BY <2>1 DEF Issued, View
  <2> QED
    BY <1>3, <2>2
<1>7. CASE Rows[k] = None
  <2>1. Abandoned' = Abandoned \ {k}
    BY <1>1, <1>2, <1>3, <1>5, AbandonedAre
  <2>2. Client!Asked(k)
    <3>1. CASE Orphan(w)
      BY <1>2, <1>7, <3>1, AbandonedAre DEF Client!Asked
    <3>2. CASE ~Orphan(w)
      <4>1. PICK p \in Procs : call[p] = w
        BY <1>1, <3>2 DEF Orphan
      <4>2. pc[p] = "request" /\ req[w] = RequestFor(pubkey[p])
        BY <4>1, ConstantsAssumption DEF CallsFit
      <4>3. pubkey[p] = k
        BY <1>2, <4>2 DEF RequestFor
      <4> QED
        BY <4>2, <4>3 DEF Client!Asked
    <3> QED
      BY <3>1, <3>2
  <2>3. Issued[k] = Absent
    BY <1>7, IssuedByKey
  <2>4. Client!HandlerStores(k)
    BY <1>6, <2>1, <2>2, <2>3
    DEF Client!HandlerStores, Client!Keep, Client!Answer, Client!locals,
        Client!files, locals, files
  <2> QED
    BY <2>4 DEF Client!Next, Client!Key, Key
<1>8. CASE Rows[k] # None
  <2>1. Issued[k] = [key |-> k, left |-> Ttl]
    BY <1>1, <1>2, <1>8, IssuedByKey DEF SameAge, ThreadAge
  <2>2. Issued' = Issued
    BY <1>6, <2>1 DEF ClientTypes
  <2>3. Abandoned' \subseteq Abandoned
    BY <1>1, <1>3, <1>5, <1>8, AbandonedFewer
  <2> QED
    BY <2>2, <2>3, Quiet DEF locals
<1> QED
  BY <1>7, <1>8

(***************************************************************************)
(* The other work of a thread is none of the client's business.            *)
(***************************************************************************)
LEMMA WorkSim ==
    ASSUME Premises, NEW w \in Workers, UNCHANGED <<locals, files, kills>>,
           \/ /\ \/ Broker!StoreHit(w) \/ Broker!StoreMiss(w)
                 \/ Broker!KeygenFails(w) \/ Broker!AuditOk(w)
              /\ UNCHANGED left
           \/ Sign(w)
    PROVE  [Client!Next]_(Client!vars)
<1> USE DEF Premises
<1>1. /\ \A v \in Workers \ {w} : stage'[v] = stage[v]
      /\ stage'[w] \in {"get", "keygen", "put"} =>
            stage[w] \in {"get", "keygen", "put"}
      /\ UNCHANGED <<req, store, call>>
  BY DEF Broker!StoreHit, Broker!StoreMiss, Broker!KeygenFails, Broker!AuditOk,
         Sign, Broker!RunKeygen, BrokerTypes, locals
<1>2. \A v \in Workers : Orphan(v)' => Orphan(v) /\ req'[v] = req[v]
  BY <1>1 DEF Orphan
<1>3. UNCHANGED Rows
  BY <1>1 DEF Rows, Row
<1>4. \A k \in Key : Rows[k] # None => Ages'[k] = Ages[k]
  <2>1. \A k \in Key : Ages[k] = left[Rows[k].id] /\ Ages'[k] = left'[Rows'[k].id]
    BY DEF Ages
  <2>2. CASE UNCHANGED left
    BY <1>3, <2>1, <2>2
  <2>3. CASE Sign(w)
    <3>1. left' = [left EXCEPT ![minted + 1] = Ttl]
      BY <2>3 DEF Sign
    <3>2. minted \in Nat
      BY ConstantsAssumption DEF BrokerTypes
    <3> QED
      BY <1>3, <2>1, <3>1, <3>2 DEF SameAge, RowsFit
  <2> QED
    BY <2>2, <2>3
<1>5. UNCHANGED Issued
  BY <1>3, <1>4, IssuedSame
<1>6. Abandoned' \subseteq Abandoned
  BY <1>2, <1>3, AbandonedFewer
<1> QED
  BY <1>5, <1>6, Quiet DEF locals

(***************************************************************************)
(* An answer hands out what the row of the process's own key says.         *)
(***************************************************************************)
LEMMA RespondSim ==
    ASSUME Premises, NEW w \in Workers, Respond(w)
    PROVE  Client!Next
<1> USE DEF Premises
<1>1. /\ stage[w] = "respond" /\ Broker!Release(w)
      /\ UNCHANGED <<cmd, pubkey, files, kills, left, store>>
  BY DEF Respond, Broker!Respond
<1>2. PICK p \in Procs : /\ call[p] = w
                         /\ got' = [got EXCEPT ![p] = View(cert[w])]
                         /\ pc' = [pc EXCEPT ![p] = "blank"]
                         /\ call' = [call EXCEPT ![p] = None]
  BY DEF Respond
<1>3. pc[p] = "request" /\ req[w] = RequestFor(pubkey[p])
  BY <1>2, ConstantsAssumption DEF CallsFit
<1>4. PICK k \in Key : pubkey[p] = k
  BY <1>3 DEF ClientTypes
<1>5. req[w].subject = k
  BY <1>3, <1>4 DEF RequestFor
<1>6. UNCHANGED <<Rows, Ages>>
  BY <1>1 DEF Rows, Row, Ages
<1>7. UNCHANGED Issued
  BY <1>6, IssuedSame
<1>8. Issued[k] # Absent /\ Issued[k] = View(cert[w])
  <2>1. Rows[k] # None /\ cert[w].subject = k
    BY <1>1, <1>5 DEF ThreadsFit
  <2>2. left[cert[w].id] = Ages[k]
    BY <1>1, <1>5 DEF SameAge, ThreadAge
  <2> QED
    BY <2>1, <2>2, IssuedByKey DEF View
<1>9. Abandoned' = Abandoned \ {k}
  <2>1. /\ \A v \in Workers \ {w} : (Orphan(v)' <=> Orphan(v)) /\ req'[v] = req[v]
        /\ ~Orphan(w) /\ ~Orphan(w)'
    BY <1>1, <1>2, ReleaseShape, ConstantsAssumption DEF Orphan, CallsFit
  <2>2. Rows[k] # None
    BY <1>8, IssuedByKey
  <2> QED
    BY <1>6, <2>1, <2>2, AbandonedAre
<1>10. Issued' = [Issued EXCEPT ![k] = Issued[k]]
  BY <1>7 DEF ClientTypes
<1>11. Client!RequestCertificate(p)
  BY <1>1, <1>2, <1>3, <1>4, <1>8, <1>9, <1>10
  DEF Client!RequestCertificate, Client!Keep, Client!Answer, Client!Goto,
      Client!files, files
<1> QED
  BY <1>11 DEF Client!Next, Client!Step

(***************************************************************************)
(* Handlers that end without an answer, one by one or in a restart.        *)
(***************************************************************************)
LEMMA EndSim ==
    ASSUME Premises, Restart \/ \E w \in Workers : EndWithoutAnswer(w)
    PROVE  [Client!Next]_(Client!vars)
<1> USE DEF Premises
<1>1. /\ UNCHANGED <<pc, cmd, pubkey, got, files, kills, left, store>>
      /\ \A v \in Workers : Orphan(v)' => Orphan(v) /\ req'[v] = req[v]
  <2>1. CASE Restart
    BY <2>1 DEF Restart, Broker!Crash, LoseCalls, Orphan
  <2>2. ASSUME NEW w \in Workers, EndWithoutAnswer(w)
        PROVE  /\ UNCHANGED <<pc, cmd, pubkey, got, files, kills, left, store>>
               /\ \A v \in Workers : Orphan(v)' => Orphan(v) /\ req'[v] = req[v]
    <3>1. /\ Broker!Release(w) /\ LoseCalls({w}) /\ UNCHANGED store
          /\ UNCHANGED <<pc, cmd, pubkey, got, files, kills, left>>
      BY <2>2, EndShape DEF LoseCalls
    <3>2. \A v \in Workers : v # w => \A p \in Procs : call[p] = v => call'[p] = v
      BY <3>1 DEF LoseCalls
    <3> QED
      BY <3>1, <3>2, ReleaseShape DEF Orphan
  <2> QED
    BY <2>1, <2>2
<1>2. UNCHANGED <<Rows, Ages>>
  BY <1>1 DEF Rows, Row, Ages
<1> QED
  BY <1>1, <1>2, IssuedSame, AbandonedFewer, Quiet

LEMMA TickSim ==
    ASSUME Premises, Tick
    PROVE  Client!Next
<1> USE DEF Premises
<1>1. /\ UNCHANGED <<pc, cmd, pubkey, call, priv, pub, trust, keysMade, kills>>
      /\ UNCHANGED <<stage, req, store>>
      /\ left' = [i \in 1..MaxCerts |-> IF left[i] = 0 THEN 0 ELSE left[i] - 1]
  BY DEF Tick, broker
<1>2. UNCHANGED Rows
  BY <1>1 DEF Rows, Row
<1>3. UNCHANGED Abandoned
  BY <1>1 DEF Abandoned, Orphan, Row
<1>4. Issued' = [k \in Key |-> Client!Older(Issued[k])]
  <2>1. \A k \in Key : Issued'[k] = Client!Older(Issued[k])
    <3> SUFFICES ASSUME NEW k \in Key PROVE Issued'[k] = Client!Older(Issued[k])
      OBVIOUS
    <3>1. Rows[k] = Row(k) /\ Rows'[k] = Row(k)'
      BY DEF Rows
    <3>2. CASE Rows[k] = None
      <4>1. Issued[k] = Absent /\ Issued'[k] = Absent
        BY <1>2, <3>1, <3>2 DEF Issued
      <4> QED
        BY <4>1, ValuesAssumption DEF Client!Older
    <3>3. CASE Rows[k] # None
      <4>1. Rows[k].id \in 1..MaxCerts /\ Rows[k].subject = k
        BY <3>3 DEF RowsFit
      <4>2. PICK n \in 0..Ttl : n = left[Rows[k].id]
        BY <4>1 DEF SameAge
      <4>3. left'[Rows[k].id] = IF n = 0 THEN 0 ELSE n - 1
        BY <1>1, <4>1, <4>2
      <4>4. /\ Issued[k] = [key |-> k, left |-> n]
            /\ Issued'[k] = [key |-> k, left |-> IF n = 0 THEN 0 ELSE n - 1]
        BY <1>2, <3>1, <3>3, <4>1, <4>2, <4>3 DEF Issued, View
      <4>5. Issued[k] \in Client!Certificate
        BY <4>4 DEF Client!Certificate, Client!Key, Key
      <4> QED
        BY <4>4, <4>5, ConstantsAssumption DEF Client!Older
    <3> QED
      BY <3>2, <3>3
  <2>2. Issued' = [k \in Key |-> Issued'[k]]
    BY DEF Issued
  <2> QED
    BY <2>1, <2>2
<1>5. Client!Tick
  BY <1>1, <1>3, <1>4 DEF Tick, Client!Tick, Client!Key, Key
<1> QED
  BY <1>5 DEF Client!Next

-----------------------------------------------------------------------------
(***************************************************************************)
(* The audit log.  Lines stay, or logging has lost one; a thread logs      *)
(* before it responds; and what a process installs it got from a thread.   *)
(***************************************************************************)
RecordInv ==
    /\ \A p \in Procs : got[p] # Absent => Recorded(got[p].key)
    /\ Client!HasCertificate => Recorded(certFile.key)

LEMMA RecordInvInit == Init => RecordInv
BY DEF Init, Client!Init, RecordInv, Client!HasCertificate

LEMMA RecordKept ==
    ASSUME ClientTypes, [Next]_vars
    PROVE  \A k : Recorded(k) => Recorded(k)'
<1>1. \/ gaps' = gaps /\ audit \subseteq audit'
      \/ gaps' = TRUE
  BY BrokerStep
  DEF BP!Next, BP!vars, BP!log, BP!Accept, BP!StoreHit, BP!StoreMiss, BP!RunKeygen,
      BP!KeygenFails, BP!StorePut, BP!HandlerRaises, BP!WriteLine, BP!AuditOk,
      BP!AuditFailed, BP!RotateAway, BP!Respond, BP!RespondLost, BP!Crash
<1> QED
  BY <1>1 DEF Recorded

LEMMA RecordInvStep ==
    ASSUME Premises, RecordInv, [Next]_vars
    PROVE  RecordInv'
<1> USE DEF Premises
<1>1. \A k : Recorded(k) => Recorded(k)'
  BY RecordKept
<1>2. CASE UNCHANGED <<got, certFile>>
  BY <1>1, <1>2 DEF RecordInv, Client!HasCertificate
<1>3. ASSUME NEW p \in Procs, ClientStep(p) PROVE RecordInv'
  <2>1. Shape(p)
    BY <1>3, LocalShape
  <2>2. pc[p] = "write" => got[p] # Absent
    BY ValuesAssumption DEF ClientTypes
  <2> QED
    BY <1>1, <2>1, <2>2 DEF Shape, RecordInv, Client!HasCertificate
<1>4. ASSUME NEW p \in Procs, Leave(p) PROVE RecordInv'
  <2>1. UNCHANGED certFile
    BY <1>4 DEF Leave, files
  <2> QED
    BY <1>1, <1>4, <2>1, LeaveShape DEF RecordInv, Client!HasCertificate
<1>5. ASSUME NEW w \in Workers, Respond(w) PROVE RecordInv'
  <2>1. stage[w] = "respond" /\ UNCHANGED certFile
    BY <1>5 DEF Respond, Broker!Respond, files
  <2>2. PICK p \in Procs : got' = [got EXCEPT ![p] = View(cert[w])]
    BY <1>5 DEF Respond
  <2>3. Recorded(View(cert[w]).key)
    BY <2>1 DEF ThreadsFit, View
  <2>4. PICK k : k = View(cert[w]).key
    OBVIOUS
  <2>5. Recorded(k)'
    BY <1>1, <2>3, <2>4
  <2>6. got'[p].key = k
    BY <2>2, <2>4 DEF ClientTypes
  <2> QED
    BY <1>1, <2>1, <2>2, <2>5, <2>6 DEF RecordInv, Client!HasCertificate, ClientTypes
<1>6. CASE Tick
  <2>1. \A c \in Client!Certificate :
           Client!Older(c) \in Client!Certificate /\ Client!Older(c).key = c.key
    BY ClientConstants, CP!OlderTyped
    DEF CP!Certificate, Client!Certificate, CP!Key, Client!Key, CP!Older, Client!Older
  <2>2. \A c \in {Absent, Torn} : Client!Older(c) = c
    BY ValuesAssumption DEF Client!Older
  <2>3. /\ certFile' = Client!Older(certFile)
        /\ got' = [p \in Procs |-> Client!Older(got[p])]
    BY <1>6 DEF Tick
  <2> QED
    BY <1>1, <2>1, <2>2, <2>3 DEF RecordInv, Client!HasCertificate, ClientTypes
<1> QED
  BY <1>2, <1>3, <1>4, <1>5, <1>6
  DEF Next, vars, locals, files, GiveUp, Kill, Send, Handle, Sign, Restart,
      EndWithoutAnswer, LoseCalls, LogRotates

-----------------------------------------------------------------------------
(***************************************************************************)
(* The whole.  The invariant is that of each part, of the calls between    *)
(* them and of the ages; ThreadsFit and RowsFit follow from BrokerInv.     *)
(***************************************************************************)
WholeInv ==
    /\ BrokerInv /\ CP!TypeInv /\ CP!SameAnswer
    /\ CallsFit /\ SameAge /\ RecordInv

LEMMA WholeFacts == WholeInv => Premises
BY BrokerFacts, ClientFacts DEF WholeInv, Premises

LEMMA ClientSimulation ==
    ASSUME Premises, [Next]_vars
    PROVE  [Client!Next]_(Client!vars)
<1>1. ASSUME NEW p \in Procs,
             ClientStep(p) \/ GiveUp(p) \/ Kill(p) \/ \E w \in Workers : Send(p, w)
      PROVE  [Client!Next]_(Client!vars)
  BY <1>1, ClientSim, GiveUpSim, KillSim, SendSim
<1>2. ASSUME NEW w \in Workers, Handle(w) \/ Sign(w) PROVE [Client!Next]_(Client!vars)
  BY <1>2, PutSim, WorkSim DEF Handle, Sign
<1>3. CASE UNCHANGED vars
  <2>1. UNCHANGED <<Issued, Abandoned>>
    BY <1>3 DEF vars, locals, broker, Issued, Abandoned, Row, View, Orphan
  <2> QED
    BY <1>3, <2>1 DEF vars, locals, files, Client!vars
<1> QED
  BY <1>1, <1>2, <1>3, RespondSim, EndSim, RotateSim, TickSim DEF Next

LEMMA WholeInvInit == Init => WholeInv
<1> SUFFICES ASSUME Init PROVE WholeInv
  OBVIOUS
<1>1. BP!Init /\ CP!Init
  BY SameBroker, SameClient DEF Init
<1>2. BrokerInv
  BY <1>1, BP!TypeInvInit, BP!ServeInvInit, BrokerConstants DEF BrokerInv
<1>3. CP!TypeInv /\ CP!SameAnswer
  BY <1>1, CP!TypeInvInit, CP!SameAnswerInit, ClientConstants
<1> QED
  BY <1>2, <1>3, CallsFitInit, SameAgeInit, RecordInvInit DEF WholeInv

LEMMA WholeInvStep == WholeInv /\ [Next]_vars => WholeInv'
<1> SUFFICES ASSUME WholeInv, [Next]_vars PROVE WholeInv'
  OBVIOUS
<1>1. Premises
  BY WholeFacts
<1>2. BrokerInv'
  BY <1>1, BrokerInvStep DEF Premises, WholeInv
<1>3. [CP!Next]_(CP!vars)
  <2>1. UNCHANGED Client!vars => UNCHANGED CP!vars
    BY DEF Client!vars, CP!vars
  <2> QED
    BY <1>1, <2>1, ClientSimulation, SameClient
<1>4. CP!TypeInv'
  BY <1>3, CP!TypeInvStep, ClientConstants DEF WholeInv
<1>5. CP!KeptFit
  <2>1. ASSUME NEW k \in Key, Issued[k] # Absent PROVE Issued[k].key = k
    <3>1. RowsFit /\ SameAge
      BY <1>1 DEF Premises
    <3>2. Issued[k] = [key |-> k, left |-> Ages[k]]
      BY <2>1, <3>1, IssuedByKey
    <3> QED
      BY <3>2
  <2> QED
    BY <2>1 DEF CP!KeptFit, CP!Key, Key
<1>6. CP!SameAnswer'
  BY <1>3, <1>5, CP!SameAnswerStep, ClientConstants DEF WholeInv
<1>7. CallsFit' /\ SameAge' /\ RecordInv'
  BY <1>1, CallsFitStep, SameAgeStep, RecordInvStep DEF Premises, WholeInv
<1> QED
  BY <1>2, <1>4, <1>6, <1>7 DEF WholeInv

LEMMA WholeInvCorrect == Spec => []WholeInv
BY WholeInvInit, WholeInvStep, PTL DEF Spec

(***************************************************************************)
(* Client, broker, calls and remaining lifetimes keep their types, however *)
(* the steps of processes and threads interleave.                          *)
(***************************************************************************)
THEOREM TypeCorrect == Spec => []TypeOK
<1>1. WholeInv => TypeOK
  <2> SUFFICES ASSUME WholeInv PROVE TypeOK
    OBVIOUS
  <2>1. BP!TypeOK /\ CP!TypeOK
    BY DEF WholeInv, BrokerInv, BP!TypeInv, CP!TypeInv
  <2> QED
    BY <2>1, SameBroker, SameClient DEF TypeOK, WholeInv, CallsFit, SameAge
<1> QED
  BY <1>1, WholeInvCorrect, PTL

(***************************************************************************)
(* Whoever asked, however often and at what time: all that is installed,   *)
(* in hand or on its way for a key expires together with the row.          *)
(***************************************************************************)
THEOREM AnswersExpireTogether == Spec => []OneExpiry
<1>1. WholeInv => OneExpiry
  <2> SUFFICES ASSUME WholeInv PROVE OneExpiry
    OBVIOUS
  <2>1. /\ Client!HasCertificate => certFile = Issued[certFile.key]
        /\ \A p \in Procs : got[p] # Absent => got[p] = Issued[got[p].key]
    BY DEF WholeInv, CP!SameAnswer, CP!HasCertificate, Client!HasCertificate
  <2>2. ASSUME NEW w \in Workers, stage[w] \in {"audit", "respond"}
        PROVE  View(cert[w]) = Issued[cert[w].subject]
    <3>1. /\ Rows[req[w].subject] # None /\ cert[w].subject = req[w].subject
          /\ req[w].subject \in Key /\ left[cert[w].id] = Ages[req[w].subject]
      BY <2>2, WholeFacts DEF Premises, ThreadsFit, SameAge, ThreadAge
    <3>2. Issued[req[w].subject] = [key |-> req[w].subject, left |-> Ages[req[w].subject]]
      BY <3>1, WholeFacts, IssuedByKey DEF Premises
    <3> QED
      BY <3>1, <3>2 DEF View
  <2> QED
    BY <2>1, <2>2 DEF OneExpiry
<1> QED
  BY <1>1, WholeInvCorrect, PTL

(***************************************************************************)
(* Unless logging lost a line, nothing is installed that the audit log     *)
(* does not show as issued.                                                *)
(***************************************************************************)
THEOREM InstalledAreAudited == Spec => []InstalledIsAudited
<1>1. WholeInv => InstalledIsAudited
  BY DEF WholeInv, RecordInv, Recorded, InstalledIsAudited
<1> QED
  BY <1>1, WholeInvCorrect, PTL

(***************************************************************************)
(* The racing threads of the broker implement the table of ClientAgent.    *)
(***************************************************************************)
THEOREM ClientKept == Spec => ImplementsClient
<1>1. Init => Client!Init
  BY DEF Init
<1>2. WholeInv /\ [Next]_vars => [Client!Next]_(Client!vars)
  BY WholeFacts, ClientSimulation
<1> QED
  BY <1>1, <1>2, WholeInvCorrect, PTL DEF Spec, ImplementsClient, Client!Spec

(***************************************************************************)
(* So what is proved of ClientAgent holds of the client in front of the    *)
(* broker: with the key pair there from the start, or one process, every   *)
(* certificate that is installed fits the private key and came after the   *)
(* host CA, and no step of the client takes a valid one away for good.     *)
(***************************************************************************)
THEOREM ClientStaysUsable ==
    CP!PairPremise /\ Spec => []Client!InstalledCertFits /\ Client!ValidCertSurvives
<1> SUFFICES ASSUME CP!PairPremise
             PROVE  Spec => []Client!InstalledCertFits /\ Client!ValidCertSurvives
  OBVIOUS
<1>1. CP!Spec => []CP!InstalledCertFits
  BY CP!InstalledCertsFit, ClientConstants
<1>2. CP!Spec => CP!ValidCertSurvives
  BY CP!ValidCertsSurvive, ClientConstants
<1>3. Client!Spec => CP!Spec
  <2>1. Client!Init => CP!Init
    BY SameClient
  <2>2. [Client!Next]_(Client!vars) => [CP!Next]_(CP!vars)
    <3>1. UNCHANGED Client!vars => UNCHANGED CP!vars
      BY DEF Client!vars, CP!vars
    <3> QED
      BY <3>1, SameClient
  <2> QED
    BY <2>1, <2>2, PTL DEF Client!Spec, CP!Spec
<1>4. CP!InstalledCertFits => Client!InstalledCertFits
  BY DEF CP!InstalledCertFits, Client!InstalledCertFits, CP!HasCertificate,
         Client!HasCertificate
<1>5. CP!ValidCertSurvives => Client!ValidCertSurvives
  <2>1. CP!HasValid <=> Client!HasValid
    BY DEF CP!HasValid, Client!HasValid, CP!HasCertificate, Client!HasCertificate
  <2>2. CP!HasValid' <=> Client!HasValid'
    BY DEF CP!HasValid, Client!HasValid, CP!HasCertificate, Client!HasCertificate
  <2>3. CP!Tick <=> Client!Tick
    BY DEF CP!Tick, Client!Tick, CP!LocalWork, Client!LocalWork, CP!Older,
           Client!Older, CP!Certificate, Client!Certificate, CP!Key, Client!Key
  <2>4. [CP!HasValid /\ ~CP!Tick => CP!HasValid' \/ \E p \in Procs : pc'[p] = "write"]_(CP!vars)
          => [Client!HasValid /\ ~Client!Tick
                => Client!HasValid' \/ \E p \in Procs : pc'[p] = "write"]_(Client!vars)
    <3>1. UNCHANGED CP!vars => UNCHANGED Client!vars
      BY DEF Client!vars, CP!vars
    <3> QED
      BY <2>1, <2>2, <2>3, <3>1
  <2> QED
    BY <2>4, PTL DEF CP!ValidCertSurvives, Client!ValidCertSurvives
<1>6. Spec => Client!Spec
  BY ClientKept DEF ImplementsClient
<1> QED
  BY <1>1, <1>2, <1>3, <1>4, <1>5, <1>6, PTL
=============================================================================
