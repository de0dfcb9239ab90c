-------------------------- MODULE ClientAgentProofs --------------------------
(***************************************************************************)
(* Proofs about ClientAgent, for any number of processes, of interruptions *)
(* and of keys.                                                            *)
(***************************************************************************)
EXTENDS ClientAgent, TLAPS

(***************************************************************************)
(* What a process has in hand at each stage; TypeOK alone does not say     *)
(* that a certificate is there when it is written.                         *)
(***************************************************************************)
InHand ==
    \A p \in Procs :
        /\ pc[p] \in {"genpub", "request"} => pubkey[p] \in Key
        /\ pc[p] \in {"blank", "write"} => got[p] \in Certificate

TypeInv == TypeOK /\ InHand

LEMMA OlderTyped ==
    /\ \A c \in Certificate : Older(c) \in Certificate /\ Older(c).key = c.key
    /\ \A c : c \notin Certificate => Older(c) = c
<1>1. ASSUME NEW c \in Certificate
      PROVE  Older(c) \in Certificate /\ Older(c).key = c.key
  <2>1. CASE c.left > 0
    <3>1. Older(c) = [c EXCEPT !.left = c.left - 1]
      BY <2>1 DEF Older
    <3>2. c.left - 1 \in 0..Ttl
      BY <2>1, ConstantsAssumption DEF Certificate
    <3> QED
      BY <3>1, <3>2 DEF Certificate
  <2>2. CASE ~(c.left > 0)
    BY <2>2 DEF Older
  <2> QED
    BY <2>1, <2>2
<1> QED
  BY <1>1 DEF Older

LEMMA AnswerTyped ==
    ASSUME TypeOK, NEW k \in Key
    PROVE  Answer(k) \in Certificate
BY ConstantsAssumption DEF TypeOK, Answer, Certificate

LEMMA KeepTyped ==
    ASSUME TypeOK, NEW k \in Key, Keep(k)
    PROVE  /\ issued' \in [Key -> Certificate \cup {Absent}]
           /\ abandoned' \subseteq {j \in Key : issued'[j] = Absent}
<1>1. Answer(k) \in Certificate
  BY AnswerTyped
<1>2. \A j \in Key \ {k} : issued'[j] = issued[j]
  BY DEF TypeOK, Keep
<1> QED
  BY <1>1, <1>2 DEF TypeOK, Keep

LEMMA AbandonsTyped ==
    ASSUME TypeInv, NEW p \in Procs, Abandons(p), UNCHANGED issued
    PROVE  abandoned' \subseteq {k \in Key : issued'[k] = Absent}
BY DEF TypeInv, TypeOK, InHand, Abandons

(***************************************************************************)
(* The end of a command, in whatever way, concerns its own process only.   *)
(***************************************************************************)
LEMMA FinishTyped ==
    ASSUME TypeInv, NEW p \in Procs, Finish(p)
    PROVE  /\ pc' \in [Procs -> Stages]
           /\ cmd' \in [Procs -> Commands]
           /\ pubkey' \in [Procs -> Key \cup {Absent}]
           /\ got' \in [Procs -> Certificate \cup {Absent}]
           /\ InHand'
<1>1. \A q \in Procs : q # p => /\ pc'[q] = pc[q]
                                /\ pubkey'[q] = pubkey[q]
                                /\ got'[q] = got[q]
  BY DEF TypeInv, TypeOK, Finish
<1>2. pc'[p] = "idle"
  BY DEF TypeInv, TypeOK, Finish
<1>3. InHand'
  BY <1>1, <1>2 DEF TypeInv, InHand
<1> QED
  BY <1>3 DEF TypeInv, TypeOK, Finish, Stages, Commands

LEMMA TypeInvInit == Init => TypeInv
BY ConstantsAssumption
   DEF Init, TypeInv, TypeOK, InHand, Key, Stages, Commands

LEMMA TypeInvStep == TypeInv /\ [Next]_vars => TypeInv'
<1> SUFFICES ASSUME TypeInv, [Next]_vars PROVE TypeInv'
  OBVIOUS
<1> USE DEF TypeInv
<1>1. ASSUME NEW p \in Procs, NEW c \in Commands, Start(p, c) PROVE TypeInv'
  <2>1. FirstStage(c) \in {"key", "launch", "inspect"}
    BY DEF FirstStage
  <2> QED
    BY <1>1, <2>1 DEF TypeOK, InHand, Start, Goto, files, Stages
<1>2. ASSUME NEW p \in Procs,
             \/ InspectRaises(p) \/ KeygenRefuses(p) \/ VerifyReads(p)
             \/ LaunchSsh(p)
      PROVE  TypeInv'
  BY <1>2, FinishTyped DEF TypeOK, InspectRaises, KeygenRefuses, VerifyReads,
     LaunchSsh, files
<1>3. ASSUME NEW p \in Procs, InspectSkips(p) PROVE TypeInv'
  <2>1. CASE cmd[p] = "ssh"
    BY <1>3, <2>1 DEF TypeOK, InHand, InspectSkips, Goto, files, locals, Stages
  <2>2. CASE cmd[p] # "ssh"
    BY <1>3, <2>2, FinishTyped DEF TypeOK, InspectSkips, files
  <2> QED
    BY <2>1, <2>2
<1>4. ASSUME NEW p \in Procs,
             \/ InspectRenews(p) \/ KeyPresent(p) \/ KeyMissing(p)
             \/ KeygenStarts(p) \/ FetchHostCa(p)
      PROVE  TypeInv'
  <2>1. AfterKey(p) \in {"check", "fetch"}
    BY DEF AfterKey
  <2> QED
    BY <1>4, <2>1 DEF TypeOK, InHand, InspectRenews, KeyPresent, KeyMissing,
       KeygenStarts, FetchHostCa, Goto, files, locals, Stages
<1>5. ASSUME NEW p \in Procs, KeygenPrivate(p) PROVE TypeInv'
  <2>1. keysMade + 1 \in Key /\ keysMade + 1 \in 0..MaxKeys
    BY <1>5, ConstantsAssumption DEF TypeOK, KeygenPrivate, Key
  <2> QED
    BY <1>5, <2>1 DEF TypeOK, InHand, KeygenPrivate, Goto, Stages
<1>6. ASSUME NEW p \in Procs, KeygenPublic(p) PROVE TypeInv'
  <2>1. AfterKey(p) \in {"check", "fetch"} /\ pubkey[p] \in Key
    BY <1>6 DEF AfterKey, InHand, KeygenPublic
  <2> QED
    BY <1>6, <2>1 DEF TypeOK, InHand, KeygenPublic, Goto, locals, Stages
<1>7. ASSUME NEW p \in Procs, BlankHostCa(p) \/ WriteHostCa(p) PROVE TypeInv'
  BY <1>7 DEF TypeOK, InHand, BlankHostCa, WriteHostCa, Goto, locals, Stages
<1>8. ASSUME NEW p \in Procs, LoadPublicKey(p) PROVE TypeInv'
  BY <1>8 DEF TypeOK, InHand, LoadPublicKey, Goto, files, Stages
<1>9. ASSUME NEW p \in Procs, RequestCertificate(p) PROVE TypeInv'
  <2>1. pubkey[p] \in Key
    BY <1>9 DEF InHand, RequestCertificate
  <2>2. Answer(pubkey[p]) \in Certificate
    BY <2>1, AnswerTyped
  <2>3. /\ issued' \in [Key -> Certificate \cup {Absent}]
        /\ abandoned' \subseteq {k \in Key : issued'[k] = Absent}
    BY <1>9, <2>1, KeepTyped DEF RequestCertificate
  <2> QED
    BY <1>9, <2>2, <2>3 DEF TypeOK, InHand, RequestCertificate, Goto, files, Stages
<1>10. ASSUME NEW p \in Procs, CallFails(p) PROVE TypeInv'
  <2>1. abandoned' \subseteq {k \in Key : issued'[k] = Absent}
    BY <1>10, AbandonsTyped DEF CallFails
  <2> QED
    BY <1>10, <2>1, FinishTyped DEF TypeOK, CallFails, files
<1>11. ASSUME NEW p \in Procs, BlankCertificate(p) PROVE TypeInv'
  BY <1>11 DEF TypeOK, InHand, BlankCertificate, Goto, locals, Stages
<1>12. ASSUME NEW p \in Procs, WriteCertificate(p) PROVE TypeInv'
  <2>1. got[p] \in Certificate
    BY <1>12 DEF InHand, WriteCertificate
  <2>2. CASE cmd[p] = "ssh"
    BY <1>12, <2>1, <2>2
    DEF TypeOK, InHand, WriteCertificate, Goto, locals, Stages
  <2>3. CASE cmd[p] # "ssh"
    BY <1>12, <2>1, <2>3, FinishTyped DEF TypeOK, WriteCertificate
  <2> QED
    BY <2>2, <2>3
<1>13. ASSUME NEW p \in Procs, Kill(p) PROVE TypeInv'
  <2>1. kills' \in 0..MaxKills
    BY <1>13, ConstantsAssumption DEF TypeOK, Kill
  <2>2. abandoned' \subseteq {k \in Key : issued'[k] = Absent}
    BY <1>13, AbandonsTyped DEF Kill
  <2> QED
    BY <1>13, <2>1, <2>2, FinishTyped DEF TypeOK, Kill, files
<1>14. CASE Tick
  <2>2. got' \in [Procs -> Certificate \cup {Absent}]
    BY <1>14, OlderTyped DEF TypeOK, Tick
  <2>3. issued' \in [Key -> Certificate \cup {Absent}]
    BY <1>14, OlderTyped DEF TypeOK, Tick
  <2>4. certFile' \in Certificate \cup {Absent, Torn}
    BY <1>14, OlderTyped DEF TypeOK, Tick
  <2>5. InHand'
    BY <1>14, OlderTyped DEF TypeOK, InHand, Tick
  <2>6. abandoned' \subseteq {k \in Key : issued'[k] = Absent}
    BY <1>14, OlderTyped, FileAssumption DEF TypeOK, Tick
  <2> QED
    BY <1>14, <2>2, <2>3, <2>4, <2>5, <2>6 DEF TypeOK, Tick
<1>15. CASE UNCHANGED vars
  BY <1>15 DEF TypeOK, InHand, vars
<1>16. ASSUME NEW k \in Key, HandlerStores(k) PROVE TypeInv'
  <2>1. /\ issued' \in [Key -> Certificate \cup {Absent}]
        /\ abandoned' \subseteq {j \in Key : issued'[j] = Absent}
    BY <1>16, KeepTyped DEF HandlerStores
  <2> QED
    BY <1>16, <2>1 DEF TypeOK, InHand, HandlerStores, locals, files
<1>17. CASE HandlersEnd
  <2>1. abandoned' \subseteq abandoned
    BY <1>17 DEF HandlersEnd
  <2> QED
    BY <1>17, <2>1 DEF TypeOK, InHand, HandlersEnd, locals, files
<1> QED
  BY <1>1, <1>2, <1>3, <1>4, <1>5, <1>6, <1>7, <1>8, <1>9, <1>10, <1>11,
     <1>12, <1>13, <1>14, <1>15, <1>16, <1>17 DEF Next, Step, Local

LEMMA TypeInvCorrect == Spec => []TypeInv
BY TypeInvInit, TypeInvStep, PTL DEF Spec

(***************************************************************************)
(* Every file, local variable and stage keeps the shape the code gives it, *)
(* across kills, failed calls and overlapping commands.                    *)
(***************************************************************************)
THEOREM TypeCorrect == Spec => []TypeOK
<1>1. TypeInv => TypeOK
  BY DEF TypeInv
<1> QED
  BY <1>1, TypeInvCorrect, PTL

-----------------------------------------------------------------------------
(***************************************************************************)
(* The key pair, while there is one process or when it exists beforehand.  *)
(* A public key on disk is the half of the private one; ensure_user_key    *)
(* generates a pair only while there is no public key, so nothing replaces *)
(* a pair once it is complete, also if a process was killed between the    *)
(* two halves; and whoever is past it has seen the pair complete.          *)
(* install_host_ca comes before the request, so the trust files exist      *)
(* whenever a certificate is on its way.                                   *)
(***************************************************************************)
OneProcess == \A p, q \in Procs : p = q
PairPremise == KeyReady \/ OneProcess

Generating == {"keygen", "genpriv", "genpub"}
PastKey == {"check", "fetch", "cablank", "cawrite", "loadpub", "request",
            "blank", "write"}

PairFits ==
    /\ pub # Absent => pub = priv
    /\ KeyReady => pub # Absent
    /\ \A p \in Procs :
          /\ pc[p] \in Generating => pub = Absent
          /\ pc[p] = "genpub" => pubkey[p] = priv
          /\ pc[p] \in PastKey => pub # Absent

TrustBefore ==
    \A p \in Procs :
        pc[p] \in {"cawrite", "loadpub", "request", "blank", "write"}
            => trust # Absent

OnePair ==
    /\ \A p \in Procs :
          /\ pc[p] = "request" => pubkey[p] = priv
          /\ pc[p] \in {"blank", "write"} => got[p].key = priv
    /\ \A k \in Key : issued[k] # Absent => issued[k].key = k

FitInv == PairFits /\ TrustBefore /\ OnePair /\ InstalledCertFits

LEMMA FitInvInit == Init => FitInv
BY ConstantsAssumption, FileAssumption
   DEF Init, FitInv, PairFits, TrustBefore, OnePair, InstalledCertFits,
       HasCertificate, Key, Generating, PastKey

(***************************************************************************)
(* While the public key is missing no certificate is installed, and no     *)
(* process is on its way to one.                                           *)
(***************************************************************************)
LEMMA NothingBeforeThePair ==
    ASSUME TypeInv, FitInv, pub = Absent
    PROVE  /\ ~HasCertificate
           /\ \A p \in Procs : pc[p] \notin PastKey
<1>1. HasCertificate => certFile.key \in Key
  BY DEF TypeInv, TypeOK, HasCertificate, Certificate
<1> QED
  BY <1>1, FileAssumption DEF FitInv, InstalledCertFits, PairFits

(***************************************************************************)
(* What the broker answers is for the key that was asked.                  *)
(***************************************************************************)
KeptFit == \A k \in Key : issued[k] # Absent => issued[k].key = k

LEMMA AnswerFits ==
    ASSUME TypeInv, KeptFit, NEW k \in Key
    PROVE  /\ Answer(k).key = k
           /\ Keep(k) => \A j \in Key : issued'[j] # Absent => issued'[j].key = j
<1>1. Answer(k).key = k
  BY DEF Answer, KeptFit
<1> QED
  BY <1>1 DEF Keep, KeptFit, TypeInv, TypeOK

LEMMA FinishFits ==
    ASSUME TypeInv, FitInv, NEW p \in Procs, Finish(p),
           UNCHANGED <<priv, pub, trust>>,
           \A k \in Key : issued'[k] # Absent => issued'[k].key = k
    PROVE  PairFits' /\ TrustBefore' /\ OnePair'
<1>1. \A q \in Procs : q # p => /\ pc'[q] = pc[q]
                                /\ pubkey'[q] = pubkey[q]
                                /\ got'[q] = got[q]
  BY DEF TypeInv, TypeOK, Finish
<1>2. pc'[p] = "idle"
  BY DEF TypeInv, TypeOK, Finish
<1> QED
  BY <1>1, <1>2 DEF FitInv, PairFits, TrustBefore, OnePair, Generating, PastKey

(***************************************************************************)
(* A process that goes on to its next stage and changes no file.           *)
(***************************************************************************)
LEMMA GotoFits ==
    ASSUME TypeInv, FitInv, NEW p \in Procs, NEW stage, Goto(p, stage),
           UNCHANGED <<locals, files, issued>>,
           stage \in Generating \ {"genpub"} => pub = Absent,
           stage \in PastKey => pub # Absent,
           stage \notin {"genpub", "cawrite", "loadpub", "request", "blank",
                         "write"}
    PROVE  FitInv'
<1>1. \A q \in Procs : q # p => pc'[q] = pc[q]
  BY DEF TypeInv, TypeOK, Goto
<1>2. pc'[p] = stage
  BY DEF TypeInv, TypeOK, Goto
<1>3. InstalledCertFits'
  BY DEF FitInv, InstalledCertFits, HasCertificate, files
<1> QED
  BY <1>1, <1>2, <1>3
  DEF FitInv, PairFits, TrustBefore, OnePair, Generating, PastKey, files, locals

LEMMA FitInvStep ==
    PairPremise /\ TypeInv /\ FitInv /\ [Next]_vars => FitInv'
<1> SUFFICES ASSUME PairPremise, TypeInv, FitInv, [Next]_vars PROVE FitInv'
  OBVIOUS
<1> USE DEF TypeInv, FitInv
<1>0. /\ \A k \in Key : issued[k] # Absent => issued[k].key = k
      /\ UNCHANGED certFile /\ UNCHANGED <<priv, pub, trust>>
            => InstalledCertFits'
  BY DEF OnePair, InstalledCertFits, HasCertificate
<1>1. ASSUME NEW p \in Procs, NEW c \in Commands, Start(p, c) PROVE FitInv'
  <2>1. FirstStage(c) \in {"key", "launch", "inspect"}
    BY DEF FirstStage
  <2> QED
    BY <1>0, <1>1, <2>1
    DEF TypeOK, PairFits, TrustBefore, OnePair, Start, Goto, files,
        Generating, PastKey
<1>2. ASSUME NEW p \in Procs,
             \/ InspectRaises(p) \/ KeygenRefuses(p) \/ VerifyReads(p)
             \/ CallFails(p) \/ LaunchSsh(p) \/ Kill(p)
      PROVE  FitInv'
  BY <1>0, <1>2, FinishFits DEF InspectRaises, KeygenRefuses, VerifyReads,
     CallFails, LaunchSsh, Kill, files
<1>3. ASSUME NEW p \in Procs, InspectSkips(p) PROVE FitInv'
  <2>1. CASE cmd[p] = "ssh"
    BY <1>3, <2>1, GotoFits DEF InspectSkips, Generating, PastKey
  <2>2. CASE cmd[p] # "ssh"
    BY <1>0, <1>3, <2>2, FinishFits DEF InspectSkips, files
  <2> QED
    BY <2>1, <2>2
<1>4. ASSUME NEW p \in Procs, InspectRenews(p) PROVE FitInv'
  BY <1>4, GotoFits DEF InspectRenews, Generating, PastKey
<1>5. ASSUME NEW p \in Procs, KeyPresent(p) PROVE FitInv'
  <2>1. AfterKey(p) \in {"check", "fetch"} /\ pub # Absent
    BY <1>5 DEF AfterKey, KeyPresent
  <2> QED
    BY <1>5, <2>1, GotoFits DEF KeyPresent, Generating, PastKey
<1>6. ASSUME NEW p \in Procs, KeyMissing(p) PROVE FitInv'
  <2>1. pub = Absent
    BY <1>6 DEF KeyMissing, PairFits
  <2> QED
    BY <1>6, <2>1, GotoFits DEF KeyMissing, Generating, PastKey
<1>7. ASSUME NEW p \in Procs, KeygenStarts(p) PROVE FitInv'
  <2>1. pub = Absent
    BY <1>7 DEF KeygenStarts, PairFits, Generating
  <2> QED
    BY <1>7, <2>1, GotoFits DEF KeygenStarts, Generating, PastKey
<1>8. ASSUME NEW p \in Procs, KeygenPrivate(p) \/ KeygenPublic(p) PROVE FitInv'
  <2>1. pub = Absent
    BY <1>8 DEF KeygenPrivate, KeygenPublic, PairFits, Generating
  <2>2. \A q \in Procs : q = p
    BY <2>1 DEF PairPremise, OneProcess, PairFits
  <2>3. InstalledCertFits'
    BY <1>8, <2>1, NothingBeforeThePair
    DEF KeygenPrivate, KeygenPublic, InstalledCertFits, HasCertificate
  <2>4. CASE KeygenPrivate(p)
    BY <2>1, <2>2, <2>3, <2>4 DEF TypeOK, PairFits, TrustBefore, OnePair,
       KeygenPrivate, Goto, Generating, PastKey
  <2>5. CASE KeygenPublic(p)
    <3>1. AfterKey(p) \in {"check", "fetch"} /\ pubkey[p] = priv
      BY <2>5 DEF AfterKey, KeygenPublic, PairFits
    <3>2. pub' = priv /\ pub' # Absent
      BY <2>5, <3>1, FileAssumption DEF KeygenPublic, InHand
    <3>3. pc'[p] \in {"check", "fetch"}
      BY <2>5, <3>1 DEF TypeOK, KeygenPublic, Goto
    <3> QED
      BY <1>0, <2>2, <2>3, <2>5, <3>2, <3>3 DEF PairFits, TrustBefore, OnePair,
         KeygenPublic, Generating, PastKey
  <2> QED
    BY <1>8, <2>4, <2>5
<1>9. ASSUME NEW p \in Procs, FetchHostCa(p) PROVE FitInv'
  <2>1. pub # Absent
    BY <1>9 DEF FetchHostCa, PairFits, PastKey
  <2> QED
    BY <1>9, <2>1, GotoFits DEF FetchHostCa, Generating, PastKey
<1>10. ASSUME NEW p \in Procs, BlankHostCa(p) \/ WriteHostCa(p) PROVE FitInv'
  <2>1. trust' # Absent
    BY <1>10, FileAssumption DEF BlankHostCa, WriteHostCa
  <2>2. pub # Absent
    BY <1>10 DEF BlankHostCa, WriteHostCa, PairFits, PastKey
  <2> QED
    BY <1>10, <2>1, <2>2 DEF TypeOK, PairFits, TrustBefore, OnePair,
       InstalledCertFits, HasCertificate, BlankHostCa, WriteHostCa, Goto, locals,
       Generating, PastKey
<1>11. ASSUME NEW p \in Procs, LoadPublicKey(p) PROVE FitInv'
  BY <1>0, <1>11 DEF TypeOK, PairFits, TrustBefore, OnePair, LoadPublicKey,
     Goto, files, Generating, PastKey
<1>12. ASSUME NEW p \in Procs, RequestCertificate(p) PROVE FitInv'
  <2>1. pubkey[p] = priv /\ pubkey[p] \in Key
    BY <1>12 DEF RequestCertificate, OnePair, InHand
  <2>2. /\ Answer(pubkey[p]).key = priv
        /\ \A k \in Key : issued'[k] # Absent => issued'[k].key = k
    BY <1>12, <2>1, AnswerFits DEF RequestCertificate, OnePair, KeptFit
  <2> QED
    BY <1>0, <1>12, <2>2 DEF TypeOK, PairFits, TrustBefore, OnePair,
       RequestCertificate, Goto, files, Generating, PastKey
<1>13. ASSUME NEW k \in Key, HandlerStores(k) PROVE FitInv'
  <2>1. \A j \in Key : issued'[j] # Absent => issued'[j].key = j
    BY <1>13, AnswerFits DEF HandlerStores, OnePair, KeptFit
  <2> QED
    BY <1>0, <1>13, <2>1 DEF HandlerStores, PairFits, TrustBefore, OnePair,
       locals, files
<1>14. ASSUME NEW p \in Procs, BlankCertificate(p) PROVE FitInv'
  BY <1>14 DEF TypeOK, PairFits, TrustBefore, OnePair, InstalledCertFits,
     HasCertificate, BlankCertificate, Goto, locals, Generating, PastKey
<1>15. ASSUME NEW p \in Procs, WriteCertificate(p) PROVE FitInv'
  <2>1. InstalledCertFits'
    BY <1>15 DEF WriteCertificate, PairFits, TrustBefore, OnePair,
       InstalledCertFits, PastKey
  <2>2. CASE cmd[p] = "ssh"
    BY <1>15, <2>1, <2>2 DEF TypeOK, PairFits, TrustBefore, OnePair,
       WriteCertificate, Goto, locals, Generating, PastKey
  <2>3. CASE cmd[p] # "ssh"
    BY <1>0, <1>15, <2>1, <2>3, FinishFits DEF WriteCertificate
  <2> QED
    BY <2>2, <2>3
<1>16. CASE Tick
  <2>1. OnePair'
    <3>1. \A p \in Procs : pc[p] \notin {"blank", "write"}
      BY <1>16 DEF Tick, LocalWork
    <3>2. ASSUME NEW k \in Key, issued'[k] # Absent PROVE issued'[k].key = k
      <4>1. issued'[k] = Older(issued[k])
        BY <1>16 DEF Tick
      <4>2. Absent \notin Certificate /\ issued[k] \in Certificate \cup {Absent}
        BY FileAssumption DEF TypeOK
      <4>3. issued[k] # Absent
        BY <3>2, <4>1, <4>2, OlderTyped
      <4> QED
        BY <1>0, <4>1, <4>2, <4>3, OlderTyped
    <3> QED
      BY <1>16, <3>1, <3>2 DEF OnePair, Tick
  <2>2. InstalledCertFits'
    <3>1. certFile' = Older(certFile) /\ UNCHANGED <<priv, pub, trust>>
      BY <1>16 DEF Tick
    <3>2. /\ Absent \notin Certificate /\ Torn \notin Certificate
          /\ certFile \in Certificate \cup {Absent, Torn}
      BY FileAssumption DEF TypeOK
    <3>3. HasCertificate' => HasCertificate /\ certFile'.key = certFile.key
      BY <3>1, <3>2, OlderTyped DEF HasCertificate
    <3> QED
      BY <3>1, <3>3 DEF InstalledCertFits
  <2> QED
    BY <1>16, <2>1, <2>2 DEF Tick, PairFits, TrustBefore
<1>17. CASE UNCHANGED vars
  BY <1>17 DEF vars, PairFits, TrustBefore, OnePair, InstalledCertFits,
     HasCertificate
<1>18. CASE HandlersEnd
  BY <1>0, <1>18 DEF HandlersEnd, PairFits, TrustBefore, OnePair, locals, files
<1> QED
  BY <1>1, <1>2, <1>3, <1>4, <1>5, <1>6, <1>7, <1>8, <1>9, <1>10, <1>11,
     <1>12, <1>13, <1>14, <1>15, <1>16, <1>17, <1>18 DEF Next, Step, Local

(***************************************************************************)
(* With an existing key pair, any number of overlapping commands, kills    *)
(* and failed calls never leaves a certificate for another key, or one     *)
(* whose host CA was never fetched.  On an empty machine the same holds of *)
(* commands that do not overlap, however often they are killed while the   *)
(* pair is generated.                                                      *)
(***************************************************************************)
THEOREM InstalledCertsFit == PairPremise /\ Spec => []InstalledCertFits
<1> SUFFICES ASSUME PairPremise PROVE Spec => []InstalledCertFits
  OBVIOUS
<1>1. Init => FitInv
  BY FitInvInit
<1>2. TypeInv /\ FitInv /\ [Next]_vars => FitInv'
  BY FitInvStep
<1>3. FitInv => InstalledCertFits
  BY DEF FitInv
<1> QED
  BY <1>1, <1>2, <1>3, TypeInvCorrect, PTL DEF Spec

-----------------------------------------------------------------------------
(***************************************************************************)
(* There is one certificate per key in circulation: what a process holds   *)
(* and what is installed is what the broker keeps for that key.            *)
(***************************************************************************)
SameAnswer ==
    /\ \A p \in Procs : got[p] # Absent => got[p] = issued[got[p].key]
    /\ HasCertificate => certFile = issued[certFile.key]

LEMMA SameAnswerInit == Init => SameAnswer
BY DEF Init, SameAnswer, HasCertificate

LEMMA FinishHands ==
    ASSUME TypeInv, SameAnswer, NEW p \in Procs, Finish(p),
           UNCHANGED <<certFile, issued>>
    PROVE  SameAnswer'
<1>1. \A q \in Procs : q # p => pc'[q] = pc[q] /\ got'[q] = got[q]
  BY DEF TypeInv, TypeOK, Finish
<1>2. pc'[p] = "idle" /\ got'[p] = Absent
  BY DEF TypeInv, TypeOK, Finish
<1> QED
  BY <1>1, <1>2 DEF SameAnswer, HasCertificate

(***************************************************************************)
(* The broker keeps what it has answered once.                             *)
(***************************************************************************)
LEMMA AnswerKept ==
    ASSUME TypeInv, NEW k \in Key, Keep(k)
    PROVE  /\ issued'[k] = Answer(k)
           /\ \A j \in Key : issued[j] # Absent => issued'[j] = issued[j]
BY DEF TypeInv, TypeOK, Keep, Answer

LEMMA KeepHands ==
    ASSUME TypeInv, SameAnswer, NEW k \in Key, Keep(k)
    PROVE  /\ \A p \in Procs : got[p] # Absent => got[p] = issued'[got[p].key]
           /\ HasCertificate => certFile = issued'[certFile.key]
<1>1. /\ \A p \in Procs : got[p] # Absent => got[p] \in Certificate
      /\ HasCertificate => certFile \in Certificate
  BY DEF TypeInv, TypeOK, HasCertificate
<1>2. \A c \in Certificate : c.key \in Key /\ c # Absent
  BY FileAssumption DEF Certificate
<1> QED
  BY <1>1, <1>2, AnswerKept DEF SameAnswer

LEMMA SameAnswerStep == TypeInv /\ KeptFit /\ SameAnswer /\ [Next]_vars => SameAnswer'
<1> SUFFICES ASSUME TypeInv, KeptFit, SameAnswer, [Next]_vars PROVE SameAnswer'
  OBVIOUS
<1> USE DEF TypeInv
<1>1. ASSUME NEW p \in Procs, NEW c \in Commands, Start(p, c) PROVE SameAnswer'
  BY <1>1 DEF SameAnswer, HasCertificate, Start, files
<1>2. ASSUME NEW p \in Procs,
             \/ InspectRaises(p) \/ KeygenRefuses(p) \/ VerifyReads(p)
             \/ CallFails(p) \/ LaunchSsh(p) \/ Kill(p)
      PROVE  SameAnswer'
  BY <1>2, FinishHands DEF InspectRaises, KeygenRefuses, VerifyReads,
     CallFails, LaunchSsh, Kill, files
<1>3. ASSUME NEW p \in Procs, InspectSkips(p) PROVE SameAnswer'
  <2>1. CASE cmd[p] = "ssh"
    BY <1>3, <2>1
    DEF TypeOK, SameAnswer, HasCertificate, InspectSkips, Goto, files, locals
  <2>2. CASE cmd[p] # "ssh"
    BY <1>3, <2>2, FinishHands DEF InspectSkips, files
  <2> QED
    BY <2>1, <2>2
<1>4. ASSUME NEW p \in Procs,
             \/ InspectRenews(p) \/ KeyPresent(p) \/ KeyMissing(p)
             \/ KeygenStarts(p) \/ FetchHostCa(p)
      PROVE  SameAnswer'
  BY <1>4 DEF SameAnswer, HasCertificate, InspectRenews, KeyPresent, KeyMissing,
     KeygenStarts, FetchHostCa, files, locals
<1>5. ASSUME NEW p \in Procs,
             \/ KeygenPrivate(p) \/ KeygenPublic(p) \/ BlankHostCa(p)
             \/ WriteHostCa(p) \/ LoadPublicKey(p)
      PROVE  SameAnswer'
  BY <1>5 DEF SameAnswer, HasCertificate, KeygenPrivate, KeygenPublic,
     BlankHostCa, WriteHostCa, LoadPublicKey, files, locals
<1>6. ASSUME NEW p \in Procs, RequestCertificate(p) PROVE SameAnswer'
  <2> DEFINE k == pubkey[p]
  <2>1. k \in Key
    BY <1>6 DEF InHand, RequestCertificate
  <2>2. got' = [got EXCEPT ![p] = Answer(k)] /\ Keep(k) /\ certFile' = certFile
    BY <1>6 DEF RequestCertificate, files
  <2>3. Answer(k).key = k
    BY <2>1, AnswerFits
  <2> QED
    BY <2>1, <2>2, <2>3, AnswerKept, KeepHands
    DEF TypeOK, SameAnswer, HasCertificate
<1>7. ASSUME NEW k \in Key, HandlerStores(k) PROVE SameAnswer'
  <2>1. Keep(k) /\ UNCHANGED <<pc, got, certFile>>
    BY <1>7 DEF HandlerStores, locals, files
  <2> QED
    BY <2>1, KeepHands DEF SameAnswer, HasCertificate
<1>8. ASSUME NEW p \in Procs, BlankCertificate(p) PROVE SameAnswer'
  BY <1>8
  DEF TypeOK, SameAnswer, HasCertificate, BlankCertificate, Goto, locals
<1>9. ASSUME NEW p \in Procs, WriteCertificate(p) PROVE SameAnswer'
  <2>1. got[p] # Absent /\ certFile' = got[p] /\ UNCHANGED issued
    BY <1>9, FileAssumption DEF InHand, WriteCertificate
  <2>2. \A q \in Procs : got'[q] # Absent => got'[q] = got[q]
    BY <1>9 DEF TypeOK, WriteCertificate, Finish, Goto, locals
  <2> QED
    BY <2>1, <2>2 DEF SameAnswer, HasCertificate
<1>10. CASE Tick
  <2>1. \A c : c \in {Absent, Torn} => Older(c) = c
    BY FileAssumption, OlderTyped
  <2>2. \A c \in Certificate : /\ Older(c) \in Certificate
                               /\ Older(c).key = c.key /\ c.key \in Key
    BY OlderTyped DEF Certificate
  <2>3. \A k \in Key : issued'[k] = Older(issued[k])
    BY <1>10 DEF Tick
  <2>4. /\ \A p \in Procs : /\ got'[p] = Older(got[p])
                            /\ got[p] \in Certificate \cup {Absent}
        /\ certFile' = Older(certFile)
        /\ certFile \in Certificate \cup {Absent, Torn}
    BY <1>10 DEF TypeOK, Tick
  <2> QED
    BY <2>1, <2>2, <2>3, <2>4 DEF SameAnswer, HasCertificate
<1>11. CASE UNCHANGED vars
  BY <1>11 DEF vars, SameAnswer, HasCertificate
<1>12. CASE HandlersEnd
  BY <1>12 DEF HandlersEnd, SameAnswer, HasCertificate, locals, files
<1> QED
  BY <1>1, <1>2, <1>3, <1>4, <1>5, <1>6, <1>7, <1>8, <1>9, <1>10, <1>11, <1>12
  DEF Next, Step, Local

(***************************************************************************)
(* What is written over a valid certificate is valid.                      *)
(***************************************************************************)
LEMMA SuccessorValid ==
    ASSUME TypeInv, FitInv, SameAnswer, HasValid,
           NEW p \in Procs, pc[p] \in {"blank", "write"}
    PROVE  got[p] \in Certificate /\ got[p].left > 0
<1>1. got[p] \in Certificate /\ got[p] # Absent /\ got[p].key = priv
  BY FileAssumption DEF TypeInv, InHand, FitInv, OnePair
<1>2. got[p] = certFile
  BY <1>1 DEF HasValid, SameAnswer, FitInv, InstalledCertFits
<1> QED
  BY <1>1, <1>2 DEF HasValid

LEMMA ValidCertStep ==
    ASSUME TypeInv, FitInv, SameAnswer, [Next]_vars, HasValid, ~Tick
    PROVE  HasValid' \/ \E p \in Procs : pc'[p] = "write"
<1>1. UNCHANGED certFile => HasValid'
  BY DEF HasValid, HasCertificate
<1>2. ASSUME NEW p \in Procs, BlankCertificate(p) PROVE pc'[p] = "write"
  BY <1>2 DEF TypeInv, TypeOK, BlankCertificate, Goto
<1>3. ASSUME NEW p \in Procs, WriteCertificate(p) PROVE HasValid'
  <2>1. certFile' = got[p] /\ got[p] \in Certificate /\ got[p].left > 0
    BY <1>3, SuccessorValid DEF WriteCertificate
  <2> QED
    BY <2>1, FileAssumption DEF HasValid, HasCertificate
<1>4. ASSUME NEW p \in Procs, NEW c \in Commands, Start(p, c)
      PROVE  UNCHANGED certFile
  BY <1>4 DEF Start, files
<1>5. ASSUME NEW p \in Procs, Kill(p) PROVE UNCHANGED certFile
  BY <1>5 DEF Kill, files
<1>6. ASSUME NEW p \in Procs, Step(p), ~BlankCertificate(p), ~WriteCertificate(p)
      PROVE  UNCHANGED certFile
  BY <1>6 DEF Step, Local, InspectRaises, InspectSkips, InspectRenews, KeyPresent,
     KeyMissing, KeygenRefuses, KeygenStarts, KeygenPrivate, KeygenPublic,
     VerifyReads, FetchHostCa, CallFails, BlankHostCa, WriteHostCa,
     LoadPublicKey, RequestCertificate, LaunchSsh, files
<1>7. UNCHANGED vars => UNCHANGED certFile
  BY DEF vars
<1>8. HandlersEnd \/ (\E k \in Key : HandlerStores(k)) => UNCHANGED certFile
  BY DEF HandlersEnd, HandlerStores, files
<1> QED
  BY <1>1, <1>2, <1>3, <1>4, <1>5, <1>6, <1>7, <1>8 DEF Next

LEMMA InvariantsHold == PairPremise /\ Spec => [](TypeInv /\ FitInv /\ SameAnswer)
<1> SUFFICES ASSUME PairPremise PROVE Spec => [](TypeInv /\ FitInv /\ SameAnswer)
  OBVIOUS
<1>1. Init => FitInv /\ SameAnswer
  BY FitInvInit, SameAnswerInit
<1>2. TypeInv /\ FitInv /\ SameAnswer /\ [Next]_vars => FitInv' /\ SameAnswer'
  <2>1. FitInv => KeptFit
    BY DEF FitInv, OnePair, KeptFit
  <2> QED
    BY <2>1, FitInvStep, SameAnswerStep
<1> QED
  BY <1>1, <1>2, TypeInvCorrect, PTL DEF Spec

(***************************************************************************)
(* No step of the client, kills included, takes a valid certificate away   *)
(* but to write its successor, and the successor is valid whichever of the *)
(* overlapping renewals comes last.                                        *)
(***************************************************************************)
THEOREM ValidCertsSurvive == PairPremise /\ Spec => ValidCertSurvives
<1> SUFFICES ASSUME PairPremise PROVE Spec => ValidCertSurvives
  OBVIOUS
<1>1. TypeInv /\ FitInv /\ SameAnswer /\ [Next]_vars =>
         (HasValid /\ ~Tick => HasValid' \/ \E p \in Procs : pc'[p] = "write")
  BY ValidCertStep
<1> QED
  BY <1>1, InvariantsHold, PTL DEF Spec, ValidCertSurvives

-----------------------------------------------------------------------------
(***************************************************************************)
(* Truncated files.  NothingLeftTorn is inductive by itself: who truncates *)
(* a file is at the stage that writes it next, and only a kill takes it    *)
(* away from there.                                                        *)
(***************************************************************************)
LEMMA FinishTorn ==
    ASSUME TypeInv, NothingLeftTorn, NEW p \in Procs, Finish(p),
           pc[p] \notin {"write", "cawrite"}, UNCHANGED <<certFile, trust, kills>>
    PROVE  NothingLeftTorn'
<1>1. \A q \in Procs : q # p => pc'[q] = pc[q]
  BY DEF TypeInv, TypeOK, Finish
<1> QED
  BY <1>1 DEF NothingLeftTorn

LEMMA GotoTorn ==
    ASSUME TypeInv, NothingLeftTorn, NEW p \in Procs, NEW stage, Goto(p, stage),
           pc[p] \notin {"write", "cawrite"}, UNCHANGED <<certFile, trust, kills>>
    PROVE  NothingLeftTorn'
<1>1. \A q \in Procs : q # p => pc'[q] = pc[q]
  BY DEF TypeInv, TypeOK, Goto
<1> QED
  BY <1>1 DEF NothingLeftTorn

LEMMA TornStep == TypeInv /\ NothingLeftTorn /\ [Next]_vars => NothingLeftTorn'
<1> SUFFICES ASSUME TypeInv, NothingLeftTorn, [Next]_vars PROVE NothingLeftTorn'
  OBVIOUS
<1> USE DEF TypeInv
<1>1. ASSUME NEW p \in Procs, NEW c \in Commands, Start(p, c)
      PROVE  NothingLeftTorn'
  BY <1>1, GotoTorn DEF Start, files
<1>2. ASSUME NEW p \in Procs,
             \/ InspectRaises(p) \/ KeygenRefuses(p) \/ VerifyReads(p)
             \/ CallFails(p) \/ LaunchSsh(p)
      PROVE  NothingLeftTorn'
  BY <1>2, FinishTorn DEF InspectRaises, KeygenRefuses, VerifyReads, CallFails,
     LaunchSsh, files
<1>3. ASSUME NEW p \in Procs, InspectSkips(p) PROVE NothingLeftTorn'
  BY <1>3, FinishTorn, GotoTorn DEF InspectSkips, files
<1>4. ASSUME NEW p \in Procs,
             \/ InspectRenews(p) \/ KeyPresent(p) \/ KeyMissing(p)
             \/ KeygenStarts(p) \/ KeygenPrivate(p) \/ KeygenPublic(p)
             \/ FetchHostCa(p) \/ LoadPublicKey(p) \/ RequestCertificate(p)
      PROVE  NothingLeftTorn'
  BY <1>4, GotoTorn DEF InspectRenews, KeyPresent, KeyMissing, KeygenStarts,
     KeygenPrivate, KeygenPublic, FetchHostCa, LoadPublicKey,
     RequestCertificate, files
<1>5. ASSUME NEW p \in Procs, BlankHostCa(p) \/ BlankCertificate(p)
      PROVE  NothingLeftTorn'
  <2>1. /\ pc[p] \notin {"write", "cawrite"}
        /\ \A q \in Procs : q # p => pc'[q] = pc[q]
        /\ BlankHostCa(p) => pc'[p] = "cawrite" /\ UNCHANGED certFile
        /\ BlankCertificate(p) => pc'[p] = "write" /\ UNCHANGED trust
        /\ UNCHANGED kills
    BY <1>5 DEF TypeOK, BlankHostCa, BlankCertificate, Goto
  <2> QED
    BY <1>5, <2>1 DEF NothingLeftTorn
<1>6. ASSUME NEW p \in Procs, WriteHostCa(p) PROVE NothingLeftTorn'
  <2>1. /\ pc[p] = "cawrite" /\ trust' # Torn /\ UNCHANGED <<certFile, kills>>
        /\ \A q \in Procs : q # p => pc'[q] = pc[q]
    BY <1>6, FileAssumption DEF TypeOK, WriteHostCa, Goto
  <2> QED
    BY <2>1 DEF NothingLeftTorn
<1>7. ASSUME NEW p \in Procs, WriteCertificate(p) PROVE NothingLeftTorn'
  <2>1. /\ pc[p] = "write" /\ certFile' # Torn /\ UNCHANGED <<trust, kills>>
        /\ \A q \in Procs : q # p => pc'[q] = pc[q]
    BY <1>7, FileAssumption DEF TypeOK, InHand, WriteCertificate, Finish, Goto
  <2> QED
    BY <2>1 DEF NothingLeftTorn
<1>8. ASSUME NEW p \in Procs, Kill(p) PROVE NothingLeftTorn'
  <2>1. kills' # 0
    BY <1>8 DEF TypeOK, Kill
  <2> QED
    BY <2>1 DEF NothingLeftTorn
<1>9. CASE Tick
  <2>1. certFile' = Torn => certFile = Torn
    BY <1>9, FileAssumption, OlderTyped DEF TypeOK, Tick
  <2> QED
    BY <1>9, <2>1 DEF NothingLeftTorn, Tick
<1>10. CASE UNCHANGED vars
  BY <1>10 DEF vars, NothingLeftTorn
<1>11. CASE HandlersEnd \/ \E k \in Key : HandlerStores(k)
  BY <1>11 DEF HandlersEnd, HandlerStores, NothingLeftTorn, files
<1> QED
  BY <1>1, <1>2, <1>3, <1>4, <1>5, <1>6, <1>7, <1>8, <1>9, <1>10, <1>11
  DEF Next, Step, Local

(***************************************************************************)
(* As long as no process is killed, a truncated certificate or host CA     *)
(* file always has a live process about to write it, whatever calls fail,  *)
(* prompts are refused and commands overlap.  No premise on the key pair.  *)
(***************************************************************************)
THEOREM NothingStaysTorn == Spec => []NothingLeftTorn
<1>1. Init => NothingLeftTorn
  BY FileAssumption DEF Init, NothingLeftTorn
<1> QED
  BY <1>1, TornStep, TypeInvCorrect, PTL DEF Spec

-----------------------------------------------------------------------------
(***************************************************************************)
(* What "zfcssh ssh" has made sure of when it comes to start ssh: there is *)
(* a certificate file, and no step of another process takes it away.       *)
(***************************************************************************)
LaunchInv ==
    \A p \in Procs :
        pc[p] = "launch" /\ cmd[p] = "ssh" => certFile # Absent

LEMMA LaunchKept ==
    ASSUME TypeInv, LaunchInv, NEW p \in Procs, UNCHANGED certFile,
           \A q \in Procs : q # p => pc'[q] = pc[q] /\ cmd'[q] = cmd[q],
           pc'[p] # "launch" \/ cmd'[p] # "ssh"
    PROVE  LaunchInv'
BY DEF LaunchInv

LEMMA LaunchStep == TypeInv /\ LaunchInv /\ [Next]_vars => LaunchInv'
<1> SUFFICES ASSUME TypeInv, LaunchInv, [Next]_vars PROVE LaunchInv'
  OBVIOUS
<1> USE DEF TypeInv
<1>1. ASSUME NEW p \in Procs, NEW c \in Commands, Start(p, c) PROVE LaunchInv'
  <2>1. c = "ssh" => FirstStage(c) # "launch"
    BY DEF FirstStage
  <2>2. pc'[p] # "launch" \/ cmd'[p] # "ssh"
    BY <1>1, <2>1 DEF TypeOK, Start, Goto
  <2> QED
    BY <1>1, <2>2, LaunchKept DEF TypeOK, Start, Goto, files
<1>2. ASSUME NEW p \in Procs,
             \/ InspectRaises(p) \/ KeygenRefuses(p) \/ VerifyReads(p)
             \/ CallFails(p) \/ LaunchSsh(p) \/ Kill(p)
      PROVE  LaunchInv'
  <2>1. Finish(p) /\ UNCHANGED certFile
    BY <1>2 DEF InspectRaises, KeygenRefuses, VerifyReads, CallFails, LaunchSsh,
       Kill, files
  <2> QED
    BY <2>1, LaunchKept DEF TypeOK, Finish
<1>3. ASSUME NEW p \in Procs, InspectSkips(p) PROVE LaunchInv'
  BY <1>3 DEF InspectSkips, needs_renewal, files, LaunchInv
<1>4. ASSUME NEW p \in Procs,
             \/ InspectRenews(p) \/ KeyPresent(p) \/ KeyMissing(p)
             \/ KeygenStarts(p) \/ KeygenPrivate(p) \/ KeygenPublic(p)
             \/ FetchHostCa(p) \/ BlankHostCa(p) \/ WriteHostCa(p)
             \/ LoadPublicKey(p) \/ RequestCertificate(p)
      PROVE  LaunchInv'
  <2>1. AfterKey(p) # "launch"
    BY DEF AfterKey
  <2>2. /\ UNCHANGED <<certFile, cmd>>
        /\ \E stage \in Stages \ {"launch"} : pc' = [pc EXCEPT ![p] = stage]
    BY <1>4, <2>1 DEF InspectRenews, KeyPresent, KeyMissing, KeygenStarts,
       KeygenPrivate, KeygenPublic, FetchHostCa, BlankHostCa, WriteHostCa,
       LoadPublicKey, RequestCertificate, Goto, files, locals, Stages, AfterKey
  <2> QED
    BY <2>2, LaunchKept DEF TypeOK
<1>5. ASSUME NEW p \in Procs, BlankCertificate(p) PROVE LaunchInv'
  BY <1>5, FileAssumption DEF LaunchInv, BlankCertificate
<1>6. ASSUME NEW p \in Procs, WriteCertificate(p) PROVE LaunchInv'
  BY <1>6, FileAssumption DEF InHand, LaunchInv, WriteCertificate
<1>7. CASE Tick
  BY <1>7, FileAssumption, OlderTyped DEF TypeOK, Tick, LaunchInv
<1>8. CASE UNCHANGED vars
  BY <1>8 DEF vars, LaunchInv
<1>9. CASE HandlersEnd \/ \E k \in Key : HandlerStores(k)
  BY <1>9 DEF HandlersEnd, HandlerStores, LaunchInv, locals, files
<1> QED
  BY <1>1, <1>2, <1>3, <1>4, <1>5, <1>6, <1>7, <1>8, <1>9 DEF Next, Step, Local

(***************************************************************************)
(* With an existing key pair, or commands that do not overlap, "zfcssh     *)
(* ssh" starts ssh with the key pair, a certificate for it that is the one *)
(* the broker answers with, and the host CA, unless another process has    *)
(* one of the files open for writing or one was killed.                    *)
(***************************************************************************)
THEOREM SshIsReady == PairPremise /\ Spec => []SshStartsReady
<1> SUFFICES ASSUME PairPremise PROVE Spec => []SshStartsReady
  OBVIOUS
<1>1. Init => LaunchInv
  BY DEF Init, LaunchInv
<1>2. TypeInv /\ LaunchInv /\ [Next]_vars => LaunchInv'
  BY LaunchStep
<1>3. TypeInv /\ FitInv /\ SameAnswer /\ LaunchInv /\ NothingLeftTorn
         => SshStartsReady
  <2> SUFFICES ASSUME TypeInv, FitInv, SameAnswer, LaunchInv, NothingLeftTorn,
                      kills = 0, NEW p \in Procs, pc[p] = "launch",
                      cmd[p] = "ssh", ~Rewriting
               PROVE  InPlace /\ certFile = issued[certFile.key]
    BY DEF SshStartsReady
  <2>1. certFile # Torn /\ trust # Torn
    BY DEF NothingLeftTorn, Rewriting
  <2>2. HasCertificate
    BY <2>1 DEF LaunchInv, HasCertificate
  <2>3. certFile.key = priv /\ priv = pub /\ trust # Absent
    BY <2>2 DEF FitInv, InstalledCertFits
  <2> QED
    BY <2>1, <2>2, <2>3 DEF SameAnswer, InPlace, TypeInv, TypeOK
<1> QED
  BY <1>1, <1>2, <1>3, InvariantsHold, NothingStaysTorn, PTL DEF Spec
=============================================================================
