------------------------ MODULE SigningServiceProofs ------------------------
(***************************************************************************)
(* Proofs about SigningService, for every pool of threads, every set of    *)
(* parameters and callers and every bound MaxCerts.                        *)
(*                                                                         *)
(* TypeOK is not inductive: a step that hashes req[w] or files cert[w]     *)
(* needs to know that the thread has a request, or a certificate, at that  *)
(* point of the handler.  HandlerOK adds that, and what else a thread, the *)
(* table, the audit log and the callers' hands owe to each other at each   *)
(* stage.                                                                  *)
(***************************************************************************)
EXTENDS SigningService, TLAPS

KeyOf(c) == [certType |-> c.ca, subject |-> c.subject, grant |-> c.grant]

HandlerOK ==
    \A w \in Workers :
        /\ pc[w] # "idle" => req[w] \in Request
        /\ pc[w] \in {"put", "audit", "respond"} => cert[w] \in Certificate

TypeInv == TypeOK /\ HandlerOK

-----------------------------------------------------------------------------
LEMMA HashTyped == \A r \in Request : build_hash(r) \in HashKey
BY DEF Request, HashKey, build_hash

(***************************************************************************)
(* Returning a thread to the pool keeps the other threads as they are.     *)
(***************************************************************************)
LEMMA ReleaseTyped ==
    ASSUME TypeInv, NEW w \in Workers, Release(w)
    PROVE  /\ pc' \in [Workers -> Stages]
           /\ req' \in [Workers -> Request \cup {None}]
           /\ cert' \in [Workers -> Certificate \cup {None}]
           /\ HandlerOK'
<1>1. \A v \in Workers : v # w => /\ pc'[v] = pc[v]
                                  /\ req'[v] = req[v]
                                  /\ cert'[v] = cert[v]
  BY DEF TypeInv, TypeOK, Release
<1>2. pc'[w] = "idle"
  BY DEF TypeInv, TypeOK, Release
<1>3. HandlerOK'
  BY <1>1, <1>2 DEF TypeInv, HandlerOK
<1> QED
  BY <1>3 DEF TypeInv, TypeOK, Release, Stages

LEMMA TypeInvInit == Init => TypeInv
<1> SUFFICES ASSUME Init PROVE TypeInv
  OBVIOUS
<1>1. gaps \in BOOLEAN /\ audit \subseteq AuditEntry
  BY DEF Init
<1>2. minted \in 0..MaxCerts
  BY ConstantsAssumption DEF Init
<1> QED
  BY <1>1, <1>2 DEF Init, TypeInv, TypeOK, HandlerOK, Stages

LEMMA TypeInvStep == TypeInv /\ [Next]_vars => TypeInv'
<1> SUFFICES ASSUME TypeInv, [Next]_vars PROVE TypeInv'
  OBVIOUS
<1> USE DEF TypeInv, log
<1>1. ASSUME NEW w \in Workers, NEW r \in Request, Accept(w, r)
      PROVE  TypeInv'
  BY <1>1 DEF TypeOK, HandlerOK, Accept, Stages
<1>2. ASSUME NEW w \in Workers, StoreHit(w) PROVE TypeInv'
  <2>1. build_hash(req[w]) \in HashKey
    BY <1>2, HashTyped DEF HandlerOK, StoreHit
  <2>2. store[build_hash(req[w])] \in Certificate
    BY <1>2, <2>1 DEF TypeOK, StoreHit
  <2> QED
    BY <1>2, <2>2 DEF TypeOK, HandlerOK, StoreHit, Stages
<1>3. ASSUME NEW w \in Workers, StoreMiss(w) PROVE TypeInv'
  BY <1>3 DEF TypeOK, HandlerOK, StoreMiss, Stages
<1>4. ASSUME NEW w \in Workers, RunKeygen(w) PROVE TypeInv'
  <2>1. req[w] \in Request
    BY <1>4 DEF HandlerOK, RunKeygen
  <2>2. minted + 1 \in 1..MaxCerts
    BY <1>4, ConstantsAssumption DEF TypeOK, RunKeygen
  <2>3. [id |-> minted + 1, ca |-> req[w].certType,
         subject |-> req[w].subject, grant |-> req[w].grant,
         signer |-> w] \in Certificate
    BY <2>1, <2>2 DEF Request, Certificate
  <2> QED
    BY <1>4, <2>2, <2>3, ConstantsAssumption
    DEF TypeOK, HandlerOK, RunKeygen, Stages
<1>5. ASSUME NEW w \in Workers, KeygenFails(w) PROVE TypeInv'
  BY <1>5 DEF TypeOK, HandlerOK, KeygenFails, Stages
<1>6. ASSUME NEW w \in Workers, StorePut(w) PROVE TypeInv'
  <2>1. build_hash(req[w]) \in HashKey /\ cert[w] \in Certificate
    BY <1>6, HashTyped DEF HandlerOK, StorePut
  <2> QED
    BY <1>6, <2>1 DEF TypeOK, HandlerOK, StorePut, Stages
<1>7. ASSUME NEW w \in Workers, HandlerRaises(w) PROVE TypeInv'
  BY <1>7, ReleaseTyped DEF TypeOK, HandlerRaises
<1>8. ASSUME NEW w \in Workers, AuditOk(w) PROVE TypeInv'
  <2>1. [request |-> req[w], result |-> "ok"] \in AuditEntry
    BY <1>8 DEF HandlerOK, AuditOk, AuditEntry
  <2>2. audit' \subseteq AuditEntry /\ gaps' \in BOOLEAN
    BY <1>8, <2>1 DEF TypeOK, AuditOk, WriteLine
  <2> QED
    BY <1>8, <2>2 DEF TypeOK, HandlerOK, AuditOk, Stages
<1>9. ASSUME NEW w \in Workers, AuditFailed(w) PROVE TypeInv'
  <2>1. [request |-> req[w], result |-> "failed"] \in AuditEntry
    BY <1>9 DEF HandlerOK, AuditFailed, AuditEntry
  <2> QED
    BY <1>9, <2>1, ReleaseTyped DEF TypeOK, AuditFailed, WriteLine
<1>10. ASSUME NEW w \in Workers, Respond(w) PROVE TypeInv'
  <2>1. [request |-> req[w], cert |-> cert[w]] \in Delivery
    BY <1>10 DEF HandlerOK, Respond, Delivery
  <2> QED
    BY <1>10, <2>1, ReleaseTyped DEF TypeOK, Respond
<1>11. ASSUME NEW w \in Workers, RespondLost(w) PROVE TypeInv'
  BY <1>11, ReleaseTyped DEF TypeOK, RespondLost
<1>12. CASE Crash
  BY <1>12 DEF TypeOK, HandlerOK, Crash, Stages
<1>13. CASE UNCHANGED vars
  BY <1>13 DEF TypeOK, HandlerOK, vars, log
<1>14. ASSUME NEW line \in audit, RotateAway(line) PROVE TypeInv'
  BY <1>14 DEF TypeOK, HandlerOK, RotateAway
<1> QED
  BY <1>1, <1>2, <1>3, <1>4, <1>5, <1>6, <1>7, <1>8, <1>9, <1>10, <1>11,
     <1>12, <1>13, <1>14 DEF Next

(***************************************************************************)
(* Every variable keeps its type: no handler step, failure or restart      *)
(* leaves a thread, a row or an audit line in a shape the code has not.    *)
(***************************************************************************)
THEOREM TypeCorrect == Spec => []TypeOK
<1>1. TypeInv => TypeOK
  BY DEF TypeInv
<1> QED
  BY <1>1, TypeInvInit, TypeInvStep, PTL DEF Spec

LEMMA TypeInvCorrect == Spec => []TypeInv
BY TypeInvInit, TypeInvStep, PTL DEF Spec

-----------------------------------------------------------------------------
(***************************************************************************)
(* What a thread carries suits the request it serves, at every stage; what *)
(* a row holds suits its key; what a caller holds suits what it asked for  *)
(* and is on record, unless logging has lost a line.                       *)
(***************************************************************************)
OnRecord(r) == ~gaps => [request |-> r, result |-> "ok"] \in audit

CarriesOwn ==
    \A w \in Workers :
        /\ pc[w] \in {"put", "audit", "respond"} =>
              KeyOf(cert[w]) = build_hash(req[w])
        /\ pc[w] = "put" => cert[w].signer = w
        /\ pc[w] \in {"audit", "respond"} => store[build_hash(req[w])] # None
        /\ pc[w] = "respond" => OnRecord(req[w])

RowsSuit == \A k \in HashKey : store[k] # None => KeyOf(store[k]) = k

HandsSuit ==
    \A d \in delivered :
        /\ KeyOf(d.cert) = build_hash(d.request)
        /\ OnRecord(d.request)
        /\ store[build_hash(d.request)] # None

OkIsStored == \A e \in audit : e.result = "ok" => store[build_hash(e.request)] # None

ServeInv == CarriesOwn /\ RowsSuit /\ HandsSuit /\ OkIsStored

LEMMA ServeInvInit == Init => ServeInv
BY DEF Init, ServeInv, CarriesOwn, RowsSuit, HandsSuit, OkIsStored

(***************************************************************************)
(* A thread that goes back to the pool carries nothing any more.           *)
(***************************************************************************)
LEMMA ReleaseServes ==
    ASSUME TypeInv, ServeInv, NEW w \in Workers, Release(w),
           UNCHANGED store, \A r \in Request : OnRecord(r) => OnRecord(r)'
    PROVE  CarriesOwn'
<1>1. \A v \in Workers : v # w => /\ pc'[v] = pc[v]
                                  /\ req'[v] = req[v]
                                  /\ cert'[v] = cert[v]
  BY DEF TypeInv, TypeOK, Release
<1>2. pc'[w] = "idle"
  BY DEF TypeInv, TypeOK, Release
<1> QED
  BY <1>1, <1>2 DEF TypeInv, HandlerOK, ServeInv, CarriesOwn

(***************************************************************************)
(* A line that is written, or lost, takes no other line off the record.    *)
(***************************************************************************)
LEMMA LineRecorded ==
    ASSUME NEW line, WriteLine(line)
    PROVE  \A r \in Request :
              /\ OnRecord(r) => OnRecord(r)'
              /\ line = [request |-> r, result |-> "ok"] => OnRecord(r)'
BY DEF WriteLine, OnRecord

LEMMA ServeInvStep == TypeInv /\ ServeInv /\ [Next]_vars => ServeInv'
<1> SUFFICES ASSUME TypeInv, ServeInv, [Next]_vars PROVE ServeInv'
  OBVIOUS
<1> USE DEF TypeInv, ServeInv, log
<1>1. ASSUME NEW w \in Workers, NEW r \in Request, Accept(w, r)
      PROVE  ServeInv'
  BY <1>1 DEF TypeOK, Accept, CarriesOwn, RowsSuit, HandsSuit, OkIsStored,
              OnRecord
<1>2. ASSUME NEW w \in Workers, StoreHit(w) PROVE ServeInv'
  <2>1. build_hash(req[w]) \in HashKey
    BY <1>2, HashTyped DEF HandlerOK, StoreHit
  <2> QED
    BY <1>2, <2>1
    DEF TypeOK, StoreHit, CarriesOwn, RowsSuit, HandsSuit, OkIsStored, OnRecord
<1>3. ASSUME NEW w \in Workers, StoreMiss(w) PROVE ServeInv'
  BY <1>3 DEF TypeOK, StoreMiss, CarriesOwn, RowsSuit, HandsSuit, OkIsStored,
              OnRecord
<1>4. ASSUME NEW w \in Workers, RunKeygen(w) PROVE ServeInv'
  BY <1>4 DEF TypeOK, RunKeygen, CarriesOwn, RowsSuit, HandsSuit, OkIsStored,
              KeyOf, build_hash, OnRecord
<1>5. ASSUME NEW w \in Workers, KeygenFails(w) PROVE ServeInv'
  BY <1>5 DEF TypeOK, KeygenFails, CarriesOwn, RowsSuit, HandsSuit, OkIsStored,
              OnRecord
<1>6. ASSUME NEW w \in Workers, StorePut(w) PROVE ServeInv'
  <2> DEFINE k == build_hash(req[w])
  <2>1. k \in HashKey /\ cert[w] \in Certificate /\ KeyOf(cert[w]) = k
    BY <1>6, HashTyped DEF HandlerOK, StorePut, CarriesOwn
  <2>2. store'[k] = cert[w] /\ cert[w] # None
    BY <1>6, <2>1, NoneAssumption DEF TypeOK, StorePut
  <2>3. \A j \in HashKey : j # k => store'[j] = store[j]
    BY <1>6 DEF TypeOK, StorePut
  <2>4. \A j : store[j] # None /\ j \in HashKey => store'[j] # None
    BY <2>2, <2>3
  <2>5. RowsSuit'
    BY <2>1, <2>2, <2>3 DEF RowsSuit
  <2>6. CarriesOwn'
    <3>1. \A v \in Workers : pc[v] # "idle" => build_hash(req[v]) \in HashKey
      BY HashTyped DEF HandlerOK
    <3> HIDE DEF k
    <3>2. ASSUME NEW v \in Workers, v # w PROVE CarriesOwn!(v)'
      BY <1>6, <2>4, <3>1, <3>2 DEF TypeOK, StorePut, CarriesOwn, OnRecord
    <3>3. CarriesOwn!(w)'
      BY <1>6, <2>1, <2>2 DEF TypeOK, StorePut, CarriesOwn, k
    <3> QED
      BY <3>2, <3>3 DEF CarriesOwn
  <2>7. OkIsStored'
    <3>1. \A e \in audit : build_hash(e.request) \in HashKey
      BY HashTyped DEF TypeOK, AuditEntry
    <3> QED
      BY <1>6, <2>4, <3>1 DEF StorePut, OkIsStored
  <2> QED
    <3>1. \A d \in delivered : build_hash(d.request) \in HashKey
      BY HashTyped DEF TypeOK, Delivery
    <3>2. HandsSuit'
      BY <1>6, <2>4, <3>1 DEF StorePut, HandsSuit, OnRecord
    <3> QED
      BY <2>5, <2>6, <2>7, <3>2
<1>7. ASSUME NEW w \in Workers, HandlerRaises(w) PROVE ServeInv'
  BY <1>7, ReleaseServes DEF HandlerRaises, RowsSuit, HandsSuit, OkIsStored,
                             OnRecord
<1>8. ASSUME NEW w \in Workers, AuditOk(w) PROVE ServeInv'
  <2>0. WriteLine([request |-> req[w], result |-> "ok"])
    BY <1>8 DEF AuditOk
  <2>1. \A r \in Request :
           /\ OnRecord(r) => OnRecord(r)'
           /\ r = req[w] => OnRecord(r)'
    BY <2>0, LineRecorded
  <2>2. req[w] \in Request /\ store[build_hash(req[w])] # None
    BY <1>8 DEF AuditOk, HandlerOK, CarriesOwn
  <2>3. CarriesOwn'
    BY <1>8, <2>1, <2>2 DEF TypeOK, HandlerOK, AuditOk, CarriesOwn
  <2>4. HandsSuit'
    BY <1>8, <2>1 DEF TypeOK, AuditOk, HandsSuit, Delivery
  <2>5. OkIsStored'
    BY <1>8, <2>0, <2>2 DEF AuditOk, WriteLine, OkIsStored
  <2> QED
    BY <1>8, <2>3, <2>4, <2>5 DEF AuditOk, RowsSuit
<1>9. ASSUME NEW w \in Workers, AuditFailed(w) PROVE ServeInv'
  <2>0. WriteLine([request |-> req[w], result |-> "failed"])
    BY <1>9 DEF AuditFailed
  <2>1. \A r \in Request : OnRecord(r) => OnRecord(r)'
    BY <2>0, LineRecorded
  <2>2. CarriesOwn'
    BY <1>9, <2>1, ReleaseServes DEF AuditFailed
  <2>3. HandsSuit'
    BY <1>9, <2>1 DEF TypeOK, AuditFailed, HandsSuit, Delivery
  <2>4. OkIsStored'
    BY <1>9, <2>0 DEF AuditFailed, WriteLine, OkIsStored
  <2> QED
    BY <1>9, <2>2, <2>3, <2>4 DEF AuditFailed, RowsSuit
<1>10. ASSUME NEW w \in Workers, Respond(w) PROVE ServeInv'
  <2>1. /\ KeyOf(cert[w]) = build_hash(req[w])
        /\ OnRecord(req[w])
        /\ store[build_hash(req[w])] # None
    BY <1>10 DEF Respond, CarriesOwn
  <2>2. HandsSuit'
    <3> DEFINE new == [request |-> req[w], cert |-> cert[w]]
    <3>1. delivered' = delivered \cup {new} /\ UNCHANGED <<audit, gaps, store>>
      BY <1>10 DEF Respond
    <3>2. /\ KeyOf(new.cert) = build_hash(new.request)
          /\ OnRecord(new.request)
          /\ store[build_hash(new.request)] # None
      BY <2>1
    <3> HIDE DEF new
    <3> QED
      BY <3>1, <3>2 DEF HandsSuit, OnRecord
  <2> QED
    BY <1>10, <2>2, ReleaseServes DEF Respond, RowsSuit, OkIsStored, OnRecord
<1>11. ASSUME NEW w \in Workers, RespondLost(w) PROVE ServeInv'
  BY <1>11, ReleaseServes DEF RespondLost, RowsSuit, HandsSuit, OkIsStored,
                              OnRecord
<1>12. CASE Crash
  BY <1>12 DEF Crash, CarriesOwn, RowsSuit, HandsSuit, OkIsStored, OnRecord
<1>13. CASE UNCHANGED vars
  BY <1>13 DEF vars, CarriesOwn, RowsSuit, HandsSuit, OkIsStored, OnRecord
<1>14. ASSUME NEW line \in audit, RotateAway(line) PROVE ServeInv'
  BY <1>14 DEF RotateAway, CarriesOwn, RowsSuit, HandsSuit, OkIsStored, OnRecord
<1> QED
  BY <1>1, <1>2, <1>3, <1>4, <1>5, <1>6, <1>7, <1>8, <1>9, <1>10, <1>11,
     <1>12, <1>13, <1>14 DEF Next

LEMMA ServeInvCorrect == Spec => []ServeInv
<1>1. TypeInv /\ ServeInv /\ [Next]_vars => ServeInv'
  BY ServeInvStep
<1> QED
  BY <1>1, ServeInvInit, TypeInvCorrect, PTL DEF Spec

(***************************************************************************)
(* For any number of threads and any mix of failures, lost answers and     *)
(* restarts, no caller ever receives a certificate of another CA, subject  *)
(* or grant than it asked for.                                             *)
(***************************************************************************)
THEOREM GrantsAreExact == Spec => []GrantsWhatWasAsked
<1>1. TypeInv /\ ServeInv => GrantsWhatWasAsked
  BY DEF TypeInv, TypeOK, ServeInv, HandsSuit, GrantsWhatWasAsked, KeyOf,
         build_hash, Delivery
<1> QED
  BY <1>1, TypeInvCorrect, ServeInvCorrect, PTL

(***************************************************************************)
(* Unless logging itself loses a line, every delivered certificate is on   *)
(* the audit record; and whatever logging does, every ok line on the       *)
(* record can be answered from the store.                                  *)
(***************************************************************************)
THEOREM AnswersAreAudited == Spec => []AuditCoversAnswers
<1>1. ServeInv => AuditCoversAnswers
  BY DEF ServeInv, HandsSuit, OkIsStored, OnRecord, AuditCoversAnswers
<1> QED
  BY <1>1, ServeInvCorrect, PTL

-----------------------------------------------------------------------------
(***************************************************************************)
(* The race on a key.  A certificate circulates for k when a thread may    *)
(* still answer with it, a caller holds it, or the row has it.  A thread   *)
(* only signs for k after it missed the row, that is, before anything      *)
(* circulated for k: so nothing of its own circulates while it signs.      *)
(***************************************************************************)
Circulating(k) ==
    {c \in Certificate :
        \/ store[k] = c
        \/ \E w \in Workers : /\ pc[w] \in {"audit", "respond"}
                              /\ build_hash(req[w]) = k
                              /\ cert[w] = c
        \/ \E d \in delivered : build_hash(d.request) = k /\ d.cert = c}

Signs(w, k) == pc[w] \in {"keygen", "put"} /\ build_hash(req[w]) = k

RaceInv ==
    \A k \in HashKey :
        /\ \A c \in Circulating(k), w \in Workers :
              Signs(w, k) => c.signer # w
        /\ \A b, c \in Circulating(k) : b.signer = c.signer => b = c

(***************************************************************************)
(* Nothing circulates for a key without a row.                             *)
(***************************************************************************)
LEMMA EmptyUntilStored ==
    ASSUME TypeInv, ServeInv, NEW k \in HashKey, store[k] = None
    PROVE  Circulating(k) = {}
BY NoneAssumption
   DEF ServeInv, CarriesOwn, HandsSuit, OkIsStored, Circulating

(***************************************************************************)
(* Only store.put brings a certificate into circulation.                   *)
(***************************************************************************)
LEMMA CirculationStep ==
    ASSUME TypeInv, ServeInv, [Next]_vars, NEW k \in HashKey
    PROVE  \/ Circulating(k)' \subseteq Circulating(k)
           \/ \E w \in Workers :
                 /\ StorePut(w)
                 /\ build_hash(req[w]) = k
                 /\ Circulating(k)' \subseteq Circulating(k) \cup {cert[w]}
<1> USE DEF TypeInv, TypeOK, log
<1> DEFINE Fewer == Circulating(k)' \subseteq Circulating(k)
<1>1. ASSUME NEW w \in Workers, NEW r \in Request, Accept(w, r) PROVE Fewer
  BY <1>1 DEF Accept, Circulating
<1>2. ASSUME NEW w \in Workers, StoreHit(w) PROVE Fewer
  BY <1>2 DEF StoreHit, Circulating
<1>3. ASSUME NEW w \in Workers, StoreMiss(w) PROVE Fewer
  BY <1>3 DEF StoreMiss, Circulating
<1>4. ASSUME NEW w \in Workers, RunKeygen(w) PROVE Fewer
  BY <1>4 DEF RunKeygen, Circulating
<1>5. ASSUME NEW w \in Workers, KeygenFails(w) PROVE Fewer
  BY <1>5 DEF KeygenFails, Circulating
<1>6. ASSUME NEW w \in Workers, StorePut(w)
      PROVE  \/ Fewer
             \/ /\ build_hash(req[w]) = k
                /\ Circulating(k)' \subseteq Circulating(k) \cup {cert[w]}
  BY <1>6 DEF StorePut, Circulating
<1>7. ASSUME NEW w \in Workers, HandlerRaises(w) PROVE Fewer
  BY <1>7 DEF HandlerRaises, Release, Circulating
<1>8. ASSUME NEW w \in Workers, AuditOk(w) PROVE Fewer
  BY <1>8 DEF AuditOk, Circulating
<1>9. ASSUME NEW w \in Workers, AuditFailed(w) PROVE Fewer
  BY <1>9 DEF AuditFailed, Release, Circulating
<1>10. ASSUME NEW w \in Workers, Respond(w) PROVE Fewer
  BY <1>10 DEF Respond, Release, Circulating
<1>11. ASSUME NEW w \in Workers, RespondLost(w) PROVE Fewer
  BY <1>11 DEF RespondLost, Release, Circulating
<1>12. CASE Crash
  BY <1>12 DEF Crash, Circulating
<1>13. CASE UNCHANGED vars
  BY <1>13 DEF vars, Circulating
<1>14. ASSUME NEW line \in audit, RotateAway(line) PROVE Fewer
  BY <1>14 DEF RotateAway, Circulating
<1> QED
  BY <1>1, <1>2, <1>3, <1>4, <1>5, <1>6, <1>7, <1>8, <1>9, <1>10, <1>11,
     <1>12, <1>13, <1>14 DEF Next

(***************************************************************************)
(* A thread comes to sign for a key by missing its row.                    *)
(***************************************************************************)
LEMMA SignsStep ==
    ASSUME TypeInv, [Next]_vars, NEW k \in HashKey, NEW v \in Workers,
           Signs(v, k)'
    PROVE  \/ Signs(v, k)
           \/ store[k] = None /\ UNCHANGED store
<1> USE DEF TypeInv, TypeOK
<1>1. ASSUME NEW w \in Workers, NEW r \in Request, Accept(w, r) PROVE Signs(v, k)
  BY <1>1 DEF Accept, Signs
<1>2. ASSUME NEW w \in Workers, StoreHit(w) PROVE Signs(v, k)
  BY <1>2 DEF StoreHit, Signs
<1>3. ASSUME NEW w \in Workers, StoreMiss(w)
      PROVE  Signs(v, k) \/ (store[k] = None /\ UNCHANGED store)
  BY <1>3 DEF StoreMiss, Signs
<1>4. ASSUME NEW w \in Workers, RunKeygen(w) PROVE Signs(v, k)
  BY <1>4 DEF RunKeygen, Signs
<1>5. ASSUME NEW w \in Workers, KeygenFails(w) PROVE Signs(v, k)
  BY <1>5 DEF KeygenFails, Signs
<1>6. ASSUME NEW w \in Workers, StorePut(w) PROVE Signs(v, k)
  BY <1>6 DEF StorePut, Signs
<1>7. ASSUME NEW w \in Workers, Release(w) PROVE Signs(v, k)
  BY <1>7 DEF Release, Signs
<1>8. ASSUME NEW w \in Workers, AuditOk(w) PROVE Signs(v, k)
  BY <1>8 DEF AuditOk, Signs
<1>9. CASE Crash
  BY <1>9 DEF Crash, Signs
<1>10. CASE UNCHANGED vars
  BY <1>10 DEF vars, Signs
<1>11. ASSUME NEW line \in audit, RotateAway(line) PROVE Signs(v, k)
  BY <1>11 DEF RotateAway, Signs
<1> QED
  BY <1>1, <1>2, <1>3, <1>4, <1>5, <1>6, <1>7, <1>8, <1>9, <1>10, <1>11
  DEF Next, HandlerRaises, AuditFailed, Respond, RespondLost

LEMMA RaceInvInit == Init => RaceInv
BY NoneAssumption DEF Init, RaceInv, Circulating, Signs

LEMMA RaceInvStep == TypeInv /\ ServeInv /\ RaceInv /\ [Next]_vars => RaceInv'
<1> SUFFICES ASSUME TypeInv, ServeInv, RaceInv, [Next]_vars, NEW k \in HashKey
             PROVE  /\ \A c \in Circulating(k)', w \in Workers :
                          Signs(w, k)' => c.signer # w
                    /\ \A b, c \in Circulating(k)' :
                          b.signer = c.signer => b = c
  BY DEF RaceInv
<1>1. CASE Circulating(k)' \subseteq Circulating(k)
  <2>1. ASSUME NEW c \in Circulating(k)', NEW w \in Workers, Signs(w, k)'
        PROVE  c.signer # w
    <3>1. c \in Circulating(k)
      BY <1>1
    <3>2. store[k] # None
      BY <3>1, EmptyUntilStored
    <3>3. Signs(w, k)
      BY <2>1, <3>2, SignsStep
    <3> QED
      BY <3>1, <3>3 DEF RaceInv
  <2> QED
    BY <1>1, <2>1 DEF RaceInv
<1>2. ASSUME NEW v \in Workers, StorePut(v), build_hash(req[v]) = k,
             Circulating(k)' \subseteq Circulating(k) \cup {cert[v]}
      PROVE  /\ \A c \in Circulating(k)', w \in Workers :
                   Signs(w, k)' => c.signer # w
             /\ \A b, c \in Circulating(k)' : b.signer = c.signer => b = c
  <2>1. Signs(v, k) /\ cert[v].signer = v
    BY <1>2 DEF StorePut, Signs, ServeInv, CarriesOwn
  <2>2. \A c \in Circulating(k) : c.signer # v
    BY <2>1 DEF RaceInv
  <2>3. \A w \in Workers : Signs(w, k)' => Signs(w, k) /\ w # v
    BY <1>2 DEF StorePut, Signs, TypeInv, TypeOK
  <2>4. \A c \in Circulating(k)', w \in Workers : Signs(w, k)' => c.signer # w
    BY <1>2, <2>1, <2>3 DEF RaceInv
  <2>5. \A b, c \in Circulating(k)' : b.signer = c.signer => b = c
    BY <1>2, <2>1, <2>2 DEF RaceInv
  <2> QED
    BY <2>4, <2>5
<1> QED
  BY <1>1, <1>2, CirculationStep

LEMMA RaceInvCorrect == Spec => []RaceInv
<1>1. TypeInv /\ ServeInv /\ RaceInv /\ [Next]_vars => RaceInv'
  BY RaceInvStep
<1> QED
  BY <1>1, RaceInvInit, TypeInvCorrect, ServeInvCorrect, PTL DEF Spec

(***************************************************************************)
(* Identical requests, however many and however concurrent, are answered   *)
(* with at most one certificate per thread of the pool.                    *)
(***************************************************************************)
THEOREM DuplicatesPerThread == Spec => []OneCertPerThread
<1>1. TypeInv /\ RaceInv => OneCertPerThread
  <2> SUFFICES ASSUME TypeInv, RaceInv, NEW d \in delivered, NEW e \in delivered,
                      build_hash(d.request) = build_hash(e.request),
                      d.cert.signer = e.cert.signer
               PROVE  d.cert = e.cert
    BY DEF OneCertPerThread
  <2> DEFINE k == build_hash(d.request)
  <2>1. k \in HashKey /\ d.cert \in Certificate /\ e.cert \in Certificate
    BY HashTyped DEF TypeInv, TypeOK, Delivery
  <2>2. d.cert \in Circulating(k) /\ e.cert \in Circulating(k)
    BY <2>1 DEF Circulating
  <2> QED
    BY <2>1, <2>2 DEF RaceInv
<1> QED
  BY <1>1, TypeInvCorrect, RaceInvCorrect, PTL

(***************************************************************************)
(* Once the last thread that missed a row is done, the row is final: no    *)
(* later request, failure or restart replaces it or signs for its key.     *)
(***************************************************************************)
THEOREM RowsSettle == Spec => SettledForever
<1> DEFINE StaysSettled ==
      \A k \in HashKey : Settled(k) => Settled(k)' /\ store'[k] = store[k]
<1>1. TypeInv /\ [Next]_vars => [StaysSettled]_vars
  <2> SUFFICES ASSUME TypeInv, [Next]_vars, NEW k \in HashKey, Settled(k)
               PROVE  Settled(k)' /\ store'[k] = store[k]
    OBVIOUS
  <2>1. \A w \in Workers : ~Signs(w, k)
    BY DEF Settled, Signs
  <2>2. \A w \in Workers : ~Signs(w, k)'
    BY <2>1, SignsStep DEF Settled
  <2>3. store'[k] = store[k]
    <3>1. ASSUME NEW w \in Workers, StorePut(w) PROVE store'[k] = store[k]
      BY <2>1, <3>1 DEF StorePut, Signs, TypeInv, TypeOK
    <3> QED
      BY <3>1 DEF Next, Accept, StoreHit, StoreMiss, RunKeygen, KeygenFails,
         HandlerRaises, AuditOk, AuditFailed, Respond, RespondLost, RotateAway, Crash,
         vars
  <2> QED
    BY <2>2, <2>3 DEF Settled, Signs
<1> QED
  BY <1>1, TypeInvCorrect, PTL DEF Spec, SettledForever

-----------------------------------------------------------------------------
(***************************************************************************)
(* When callers keep the retry rule.  The threads in flight serve          *)
(* different keys; so the row of a key that is being signed is still       *)
(* empty, and whatever circulates for a key is its row.                    *)
(***************************************************************************)
SerialInv ==
    /\ \A v, w \in Workers :
          pc[v] # "idle" /\ pc[w] # "idle" /\ build_hash(req[v]) = build_hash(req[w])
          => v = w
    /\ \A w \in Workers :
          pc[w] \in {"keygen", "put"} => store[build_hash(req[w])] = None
    /\ \A k \in HashKey : \A c \in Circulating(k) : c = store[k]

LEMMA SerialInvInit == Init => SerialInv
BY NoneAssumption DEF Init, SerialInv, Circulating

LEMMA SerialInvStep ==
    ASSUME SerialCallers, TypeInv, ServeInv, SerialInv, [Next]_vars
    PROVE  SerialInv'
<1> DEFINE Apart ==
      \A v, w \in Workers :
          pc[v] # "idle" /\ pc[w] # "idle" /\ build_hash(req[v]) = build_hash(req[w])
          => v = w
<1>1. Apart'
  <2> USE DEF TypeInv, TypeOK, SerialInv
  <2>1. ASSUME NEW w \in Workers, NEW r \in Request, Accept(w, r) PROVE Apart'
    BY <2>1 DEF Accept, InFlight
  <2>2. ASSUME NEW w \in Workers, Release(w) PROVE Apart'
    BY <2>2 DEF Release
  <2>3. CASE Crash
    BY <2>3 DEF Crash
  <2>4. CASE UNCHANGED vars
    BY <2>4 DEF vars
  <2>7. ASSUME NEW line \in audit, RotateAway(line) PROVE Apart'
    BY <2>7 DEF RotateAway
  <2>5. ASSUME NEW w \in Workers, pc[w] # "idle", UNCHANGED req,
               \A v \in Workers \ {w} : pc'[v] = pc[v]
        PROVE  Apart'
    BY <2>5
  <2>6. ASSUME NEW w \in Workers,
               \/ StoreHit(w) \/ StoreMiss(w) \/ RunKeygen(w)
               \/ KeygenFails(w) \/ StorePut(w) \/ AuditOk(w)
        PROVE  Apart'
    BY <2>5, <2>6 DEF StoreHit, StoreMiss, RunKeygen, KeygenFails, StorePut, AuditOk
  <2> QED
    BY <2>1, <2>2, <2>3, <2>4, <2>6, <2>7
    DEF Next, HandlerRaises, AuditFailed, Respond, RespondLost
<1>2. ASSUME NEW w \in Workers, pc'[w] \in {"keygen", "put"}
      PROVE  store'[build_hash(req'[w])] = None
  <2>0. build_hash(req'[w]) \in HashKey
    BY <1>2, TypeInvStep, HashTyped DEF TypeInv, HandlerOK
  <2>k. PICK k \in HashKey : k = build_hash(req'[w])
    BY <2>0
  <2>1. Signs(w, k)'
    BY <1>2, <2>k DEF Signs, build_hash
  <2>2. ASSUME Signs(w, k) PROVE store'[k] = None
    <3>1. store[k] = None
      BY <2>2 DEF Signs, SerialInv
    <3>2. ASSUME NEW v \in Workers, StorePut(v) PROVE store'[k] = None
      <4>1. build_hash(req[v]) # k \/ v = w
        BY <2>2, <3>2 DEF Signs, SerialInv, StorePut
      <4>2. v # w
        BY <1>2, <3>2 DEF StorePut, TypeInv, TypeOK
      <4> QED
        BY <2>1, <3>1, <3>2, <4>1, <4>2 DEF StorePut, TypeInv, TypeOK
    <3> QED
      BY <3>1, <3>2 DEF Next, Accept, StoreHit, StoreMiss, RunKeygen, KeygenFails,
         HandlerRaises, AuditOk, AuditFailed, Respond, RespondLost, RotateAway, Crash,
         vars
  <2>3. ASSUME store[k] = None, UNCHANGED store PROVE store'[k] = None
    BY <2>3
  <2>4. store'[k] = None
    BY <2>1, <2>2, <2>3, SignsStep
  <2> QED
    BY <2>4, <2>k
<1>3. ASSUME NEW k \in HashKey, NEW c \in Circulating(k)' PROVE c = store'[k]
  <2>1. CASE c \in Circulating(k)
    <3>1. store[k] # None /\ c = store[k]
      BY <2>1, EmptyUntilStored DEF SerialInv
    <3>2. \A w \in Workers : ~Signs(w, k)
      BY <3>1 DEF Signs, SerialInv
    <3>3. ASSUME NEW w \in Workers, StorePut(w) PROVE store'[k] = store[k]
      BY <3>2, <3>3 DEF StorePut, Signs, TypeInv, TypeOK
    <3> QED
      BY <3>1, <3>3 DEF Next, Accept, StoreHit, StoreMiss, RunKeygen, KeygenFails,
         HandlerRaises, AuditOk, AuditFailed, Respond, RespondLost, RotateAway, Crash,
         vars
  <2>2. ASSUME NEW w \in Workers, StorePut(w), build_hash(req[w]) = k, c = cert[w]
        PROVE  c = store'[k]
    BY <2>2 DEF StorePut, TypeInv, TypeOK
  <2> QED
    BY <2>1, <2>2, CirculationStep
<1> QED
  BY <1>1, <1>2, <1>3 DEF SerialInv

LEMMA SerialInvCorrect == SerialCallers /\ Spec => []SerialInv
<1> SUFFICES ASSUME SerialCallers PROVE Spec => []SerialInv
  OBVIOUS
<1>1. TypeInv /\ ServeInv /\ SerialInv /\ [Next]_vars => SerialInv'
  BY SerialInvStep
<1> QED
  BY <1>1, SerialInvInit, TypeInvCorrect, ServeInvCorrect, PTL DEF Spec

(***************************************************************************)
(* With callers that keep the retry rule, identical requests always get    *)
(* the identical certificate, whatever fails or restarts in between.       *)
(***************************************************************************)
THEOREM AnswersAreIdempotent == SerialCallers /\ Spec => []IdempotentAnswers
<1>1. TypeInv /\ SerialInv => IdempotentAnswers
  <2> SUFFICES ASSUME TypeInv, SerialInv, NEW d \in delivered, NEW e \in delivered,
                      build_hash(d.request) = build_hash(e.request)
               PROVE  d.cert = e.cert
    BY DEF IdempotentAnswers
  <2> DEFINE k == build_hash(d.request)
  <2>1. k \in HashKey /\ d.cert \in Certificate /\ e.cert \in Certificate
    BY HashTyped DEF TypeInv, TypeOK, Delivery
  <2>2. d.cert \in Circulating(k) /\ e.cert \in Circulating(k)
    BY <2>1 DEF Circulating
  <2> QED
    BY <2>1, <2>2 DEF SerialInv
<1> QED
  BY <1>1, TypeInvCorrect, SerialInvCorrect, PTL

(***************************************************************************)
(* Under the same rule the whole signing path implements the promise: only *)
(* store.put issues, only a delivered response answers, and every other    *)
(* step, failures and restarts included, changes nothing of the promise.   *)
(***************************************************************************)
LEMMA PromiseStep ==
    ASSUME SerialCallers, TypeInv, ServeInv, SerialInv, [Next]_vars
    PROVE  [Promise!Next]_(Promise!vars)
<1> DEFINE Answers == {<<build_hash(d.request), d.cert>> : d \in delivered}
           Suited(k) == [id : 1..MaxCerts, ca : {k.certType},
                         subject : {k.subject}, grant : {k.grant},
                         signer : Workers]
<1>1. ASSUME NEW w \in Workers, StorePut(w) PROVE Promise!Next
  <2> DEFINE k == build_hash(req[w])
             c == cert[w]
  <2>1. k \in HashKey /\ c \in Certificate /\ KeyOf(c) = k
    BY <1>1, HashTyped DEF StorePut, TypeInv, HandlerOK, ServeInv, CarriesOwn
  <2>2. store[k] = None
    BY <1>1 DEF StorePut, SerialInv
  <2>3. c \in Suited(k)
    BY <2>1 DEF Certificate, KeyOf, HashKey
  <2>4. \A other \in HashKey : store[other] # c
    <3>1. c # None
      BY <2>1, NoneAssumption
    <3> SUFFICES ASSUME NEW other \in HashKey, store[other] = c PROVE FALSE
      OBVIOUS
    <3>2. KeyOf(c) = other
      BY <3>1 DEF ServeInv, RowsSuit
    <3> QED
      BY <2>1, <2>2, <3>1, <3>2
  <2>5. store' = [store EXCEPT ![k] = c] /\ Answers' = Answers
    BY <1>1 DEF StorePut
  <2>6. [j \in HashKey |-> Suited(j)][k] = Suited(k)
    BY <2>1
  <2> HIDE DEF k, c, Answers, Suited
  <2>7. Promise!Issue(k)
    BY <2>1, <2>2, <2>3, <2>4, <2>5, <2>6 DEF Promise!Issue, Answers, Suited
  <2> QED
    BY <2>1, <2>7 DEF Promise!Next
<1>2. ASSUME NEW w \in Workers, Respond(w) PROVE Promise!Next
  <2> DEFINE new == [request |-> req[w], cert |-> cert[w]]
  <2>1. build_hash(req[w]) \in HashKey /\ cert[w] \in Certificate
    BY <1>2, HashTyped DEF Respond, TypeInv, HandlerOK
  <2>2. PICK k \in HashKey : k = build_hash(req[w])
    BY <2>1
  <2>3. cert[w] \in Circulating(k)
    BY <1>2, <2>1, <2>2 DEF Respond, Circulating
  <2>4. cert[w] = store[k] /\ store[k] # None
    BY <2>1, <2>3, NoneAssumption DEF SerialInv
  <2>5. delivered' = delivered \cup {new} /\ UNCHANGED store
    BY <1>2 DEF Respond
  <2>6. Answers' = Answers \cup {<<k, store[k]>>}
    <3>1. build_hash(new.request) = k /\ new.cert = store[k]
      BY <2>2, <2>4
    <3> HIDE DEF new
    <3> QED
      BY <2>5, <3>1
  <2> HIDE DEF Answers
  <2>7. Promise!Answer(k)
    BY <2>4, <2>5, <2>6 DEF Promise!Answer, Answers
  <2> QED
    BY <2>7 DEF Promise!Next
<1>3. CASE UNCHANGED <<store, delivered>>
  BY <1>3 DEF Promise!vars
<1> QED
  BY <1>1, <1>2, <1>3 DEF Next, vars, Accept, StoreHit, StoreMiss, RunKeygen,
     KeygenFails, HandlerRaises, AuditOk, AuditFailed, RespondLost, RotateAway, Crash

THEOREM PromiseKept == SerialCallers /\ Spec => ImplementsPromise
<1> SUFFICES ASSUME SerialCallers PROVE Spec => ImplementsPromise
  OBVIOUS
<1>1. Init => Promise!Init
  BY DEF Init, Promise!Init
<1>2. TypeInv /\ ServeInv /\ SerialInv /\ [Next]_vars
        => [Promise!Next]_(Promise!vars)
  BY PromiseStep
<1> QED
  BY <1>1, <1>2, TypeInvCorrect, ServeInvCorrect, SerialInvCorrect, PTL
  DEF Spec, ImplementsPromise, Promise!Spec
=============================================================================
