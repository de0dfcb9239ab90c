--------------------------- MODULE ClientTrustProofs ---------------------------
(***************************************************************************)
(* Proofs about ClientTrust, for every set of bundles, every number of     *)
(* processes and of events.  Three arguments: types, with what a process   *)
(* has in hand at each stage (TypeInv); the four files of an import        *)
(* (ImportInv); and the shape of known_hosts, which one merge after        *)
(* another must restore (KnownInv), with who may be working on it          *)
(* (MergeInv).                                                             *)
(***************************************************************************)
EXTENDS ClientTrust, ListsProofs, Integers

USE TrustAssumption

-----------------------------------------------------------------------------
(***************************************************************************)
(* Lines.  The kind of a line says all about it that the model needs.      *)
(***************************************************************************)
LEMMA LineKinds ==
    /\ BEGIN.kind = "begin" /\ END.kind = "end" /\ Blank.kind = "blank"
    /\ \A h : Host(h).kind = "other"
    /\ \A x, k : Pinned(x, k).kind = "other"
    /\ \A x, k : Authority(x, k).kind = "ca" /\ Authority(x, k).ca = k
BY DEF BEGIN, END, Blank, Host, Pinned, Authority

\* The lines of others are all of one kind.
LEMMA OtherKind ==
    ASSUME NEW l \in Others
    PROVE  l.kind = "other"
BY LineKinds DEF Others

LEMMA LineFacts ==
    ASSUME NEW l \in Line
    PROVE  /\ l.kind \in {"begin", "end", "blank", "other", "ca"}
           /\ l.kind = "begin" <=> l = BEGIN
           /\ l.kind = "end" <=> l = END
           /\ l.kind = "blank" <=> l = Blank
<1>1. \/ l \in {BEGIN, END, Blank}
      \/ l \in Others
      \/ \E x, k : l = Authority(x, k)
  BY DEF Line
<1> QED
  BY <1>1, LineKinds, OtherKind

LEMMA LineMembers ==
    /\ BEGIN \in Line /\ END \in Line /\ Blank \in Line
    /\ Others \subseteq Line
    /\ \A b \in Bundles, k \in 1..(MaxEvents + 1) :
          \A x \in Members(b.host_patterns) : Authority(x, k) \in Line
BY DEF Line

-----------------------------------------------------------------------------
(***************************************************************************)
(* What the merge writes.                                                  *)
(***************************************************************************)
Gap(list) ==
    IF Kept(list) # <<>> /\ Last(Kept(list)) # Blank THEN <<Blank>> ELSE <<>>

LEMMA RebuildIs ==
    ASSUME NEW list, NEW patterns, NEW k
    PROVE  Rebuild(list, patterns, k) = Kept(list) \o Gap(list) \o Managed(patterns, k)
BY DEF Rebuild, Gap

LEMMA KeptType ==
    ASSUME NEW list \in Seq(Line)
    PROVE  Kept(list) \in Seq(Line)
<1> DEFINE S == {i \in DOMAIN list : list[i] \notin {BEGIN, END} /\ ~Skipped(list, i)}
<1>1. S \in SUBSET (DOMAIN list) /\ Kept(list) = Pick(list, S)
  BY DEF Kept
<1> HIDE DEF S
<1> QED
  BY <1>1, PickSeq

LEMMA ManagedType ==
    ASSUME NEW b \in Bundles, NEW k \in 1..(MaxEvents + 1)
    PROVE  /\ Managed(b.host_patterns, k) \in Seq(Line)
           /\ b.host_patterns \in Seq(Members(b.host_patterns))
<1> DEFINE P == b.host_patterns
           A == [i \in DOMAIN P |-> Authority(P[i], k)]
<1>1. P \in Seq(Members(P))
  OBVIOUS
<1>2. DOMAIN P = 1..Len(P) /\ Len(P) \in Nat /\ \A i \in DOMAIN P : P[i] \in Members(P)
  BY <1>1
<1>3. A \in [1..Len(P) -> Line]
  BY <1>2, LineMembers
<1>4. A \in Seq(Line)
  BY <1>2, <1>3
<1>5. <<BEGIN>> \in Seq(Line) /\ <<END>> \in Seq(Line)
  BY LineMembers
<1> HIDE DEF A
<1>6. <<BEGIN>> \o A \o <<END>> \in Seq(Line)
  BY <1>4, <1>5
<1> QED
  BY <1>1, <1>6 DEF Managed, A

LEMMA RebuildType ==
    ASSUME NEW list \in Seq(Line), NEW b \in Bundles, NEW k \in 1..(MaxEvents + 1)
    PROVE  Rebuild(list, b.host_patterns, k) \in Seq(Line)
<1>1. Gap(list) \in Seq(Line)
  BY LineMembers DEF Gap
<1>2. Kept(list) \in Seq(Line) /\ Managed(b.host_patterns, k) \in Seq(Line)
  BY KeptType, ManagedType
<1>3. Kept(list) \o Gap(list) \o Managed(b.host_patterns, k) \in Seq(Line)
  BY <1>1, <1>2
<1> QED
  BY <1>3, RebuildIs

LEMMA OverwriteType ==
    ASSUME NEW T, NEW old \in Seq(T), NEW new \in Seq(T)
    PROVE  Overwrite(old, new) \in Seq(T)
<1> DEFINE tail == SubSeq(old, Len(new) + 1, Len(old))
<1>1. tail \in Seq(T)
  OBVIOUS
<1> HIDE DEF tail
<1> QED
  BY <1>1 DEF Overwrite, tail

\* Into an empty file the new text goes as it is.
LEMMA OverwriteEmpty ==
    ASSUME NEW T, NEW new \in Seq(T)
    PROVE  Overwrite(<<>>, new) = new
<1> DEFINE tail == SubSeq(<<>>, Len(new) + 1, Len(<<>>))
<1>1. tail = <<>>
  OBVIOUS
<1> HIDE DEF tail
<1> QED
  BY <1>1 DEF Overwrite, tail

-----------------------------------------------------------------------------
(***************************************************************************)
(* Types, with what a process has in hand: from the moment it loads or     *)
(* imports a bundle, the bundle; from the answer of the broker on, a CA.   *)
(***************************************************************************)
Content == Bundles \cup {Absent, Torn}

Disk == [client_crt : Content, client_key : Content, ca_crt : Content,
         metadata : Content, host_ca : 1..(MaxEvents + 1) \cup {Absent, Torn}]

InHand ==
    \A p \in Procs :
        /\ pc[p] \notin {"idle", "load"} => bundle[p] \in Bundles
        /\ pc[p] \in {"hostca", "read", "truncate", "write"} =>
              ca[p] \in 1..(MaxEvents + 1)

TypeInv == TypeOK /\ disk \in Disk /\ InHand

LEMMA TypeInit == Init => TypeInv
BY DEF Init, TypeInv, TypeOK, InHand, Disk, Content, Stages, Members, Importing

LEMMA FinishTypes ==
    ASSUME TypeInv, NEW p \in Procs, Finish(p)
    PROVE  /\ pc' \in [Procs -> Stages] /\ pc'[p] = "idle"
           /\ bundle' \in [Procs -> Bundles \cup {Absent}]
           /\ ca' \in [Procs -> 1..(MaxEvents + 1) \cup {Absent}]
           /\ lines' \in [Procs -> Seq(Line)]
           /\ \A q \in Procs \ {p} : pc'[q] = pc[q] /\ bundle'[q] = bundle[q]
                                     /\ ca'[q] = ca[q] /\ lines'[q] = lines[q]
BY DEF TypeInv, TypeOK, Finish, Goto, Stages

LEMMA WriteTypes ==
    ASSUME NEW c \in Content, disk \in Disk,
           \/ Write("client_crt", c) \/ Write("client_key", c)
           \/ Write("ca_crt", c) \/ Write("metadata", c)
    PROVE  /\ disk' \in Disk
           /\ {disk'.client_crt, disk'.client_key, disk'.ca_crt, disk'.metadata}
                 \subseteq Bundles \cup {Absent, Torn}
           /\ disk'.host_ca \in 1..(MaxEvents + 1) \cup {Absent, Torn}
<1>1. disk' \in Disk
  BY DEF Write, Disk
<1> QED
  BY <1>1 DEF Disk, Content

\* Whoever adds a line, it is one of Others.
LEMMA AddedLines ==
    ASSUME TypeInv, \/ \E h \in Hosts : AddHost(h)
                    \/ \E x \in Patterns : InstallEndpoint(x)
    PROVE  \E l \in Others : AppendLine(l)
<1>1. \A h \in Hosts : AddHost(h) => Host(h) \in Others /\ AppendLine(Host(h))
  BY DEF AddHost, Others
<1>2. \A x \in Patterns, k \in 1..brokerCa : Pinned(x, k) \in Others
  <2>1. 1..brokerCa \subseteq 1..(MaxEvents + 1)
    BY DEF TypeInv, TypeOK
  <2> QED
    BY <2>1 DEF Others
<1> QED
  BY <1>1, <1>2 DEF InstallEndpoint

LEMMA TypeStep == TypeInv /\ [Next]_vars => TypeInv'
<1> SUFFICES ASSUME TypeInv, [Next]_vars PROVE TypeInv'
  OBVIOUS
<1> USE DEF TypeInv, TypeOK, InHand, Disk, Content, Importing, files, locals, bounds, flags
<1>1. ASSUME NEW p \in Procs, NEW b \in Bundles, StartImport(p, b) PROVE TypeInv'
  <2>1. Meeting(p) \subseteq Procs
    BY DEF Meeting
  <2> QED
    BY <1>1, <2>1 DEF StartImport, Goto, Stages
<1>2. ASSUME NEW p \in Procs, Import(p) PROVE TypeInv'
  <2>1. CASE RefuseBundle(p)
    BY <2>1, FinishTypes DEF RefuseBundle
  <2>2. CASE WriteClientCertificate(p)
    BY <2>2, WriteTypes DEF WriteClientCertificate, Goto, Stages
  <2>3. CASE WriteClientKey(p)
    BY <2>3, WriteTypes DEF WriteClientKey, Goto, Stages
  <2>4. CASE WriteOrUnlinkCa(p)
    BY <2>4, WriteTypes DEF WriteOrUnlinkCa, Goto, Stages
  <2>5. CASE RefuseSshSection(p)
    BY <2>5, FinishTypes DEF RefuseSshSection
  <2>6. CASE WriteMetadata(p)
    BY <2>6, FinishTypes, WriteTypes DEF WriteMetadata
  <2> QED
    BY <1>2, <2>1, <2>2, <2>3, <2>4, <2>5, <2>6 DEF Import
<1>3. ASSUME NEW p \in Procs, StartEnroll(p) PROVE TypeInv'
  BY <1>3 DEF StartEnroll, Goto, Stages
<1>4. ASSUME NEW p \in Procs, Enroll(p) PROVE TypeInv'
  <2>1. CASE LoadBundle(p)
    BY <2>1 DEF LoadBundle, Goto, Stages
  <2>2. CASE FetchHostCa(p)
    BY <2>2 DEF FetchHostCa, Goto, Stages
  <2>3. CASE EnrollFails(p)
    BY <2>3, FinishTypes DEF EnrollFails
  <2>4. CASE WriteHostCa(p)
    BY <2>4 DEF WriteHostCa, Goto, Write, Stages
  <2>5. CASE ReadKnownHosts(p)
    BY <2>5 DEF ReadKnownHosts, Goto, Stages
  <2>6. CASE TruncateKnownHosts(p)
    BY <2>6 DEF TruncateKnownHosts, Goto, Stages
  <2>7. CASE WriteKnownHosts(p)
    <3>1. bundle[p] \in Bundles /\ ca[p] \in 1..(MaxEvents + 1) /\ lines[p] \in Seq(Line)
      BY <2>7 DEF WriteKnownHosts
    <3>2. Rebuild(lines[p], bundle[p].host_patterns, ca[p]) \in Seq(Line)
      BY <3>1, RebuildType
    <3>3. known' \in Seq(Line)
      BY <2>7, <3>2, OverwriteType DEF WriteKnownHosts
    <3> QED
      BY <2>7, <3>3, FinishTypes DEF WriteKnownHosts
  <2> QED
    BY <1>4, <2>1, <2>2, <2>3, <2>4, <2>5, <2>6, <2>7 DEF Enroll
<1>5. ASSUME NEW p \in Procs, Kill(p) PROVE TypeInv'
  <2>1. kills' \in 0..MaxEvents
    <3>1. kills' = kills + 1 /\ Events < MaxEvents
      BY <1>5 DEF Kill
    <3>2. kills \in Nat /\ edits \in Nat /\ brokerCa - 1 \in Nat /\ MaxEvents \in Nat
      BY TrustAssumption
    <3>3. kills + edits + (brokerCa - 1) < MaxEvents
      BY <3>1 DEF Events
    <3> HIDE DEF TypeInv, TypeOK, InHand, Disk, Content
    <3> QED
      BY <3>1, <3>2, <3>3
  <2>2. disk' \in Disk
    <3>1. CASE UNCHANGED disk
      BY <3>1
    <3>2. CASE MayTear(p) /\ Write(OpenFile(p), Torn)
      <4>1. OpenFile(p) \in {"client_crt", "client_key", "ca_crt", "metadata", "host_ca"}
        BY <3>2 DEF MayTear, OpenFile
      <4> QED
        BY <3>2, <4>1 DEF Write
    <3> QED
      BY <1>5, <3>1, <3>2 DEF Kill
  <2> QED
    BY <1>5, <2>1, <2>2, FinishTypes DEF Kill
<1>6. ASSUME NEW l \in Others, AppendLine(l) PROVE TypeInv'
  <2>1. Append(known, l) \in Seq(Line)
    BY LineMembers
  <2> QED
    BY <1>6, <2>1 DEF AppendLine
<1>7. ASSUME NEW marker \in {BEGIN, END}, BreakBlock(marker) PROVE TypeInv'
  <2> DEFINE S == {i \in DOMAIN known : known[i] # marker}
  <2>1. Pick(known, S) \in Seq(Line)
    <3>1. S \in SUBSET (DOMAIN known)
      OBVIOUS
    <3> HIDE DEF S
    <3> QED
      BY <3>1, PickSeq
  <2>2. known' \in Seq(Line)
    BY <1>7, <2>1 DEF BreakBlock
  <2>3. edits' \in 0..MaxEvents
    BY <1>7 DEF BreakBlock, Events
  <2> QED
    BY <1>7, <2>2, <2>3 DEF BreakBlock
<1>8. CASE RotateHostCa
  BY <1>8 DEF RotateHostCa, Events
<1>9. CASE UNCHANGED vars
  BY <1>9 DEF vars
<1> QED
  BY <1>1, <1>2, <1>3, <1>4, <1>5, <1>6, <1>7, <1>8, <1>9, AddedLines DEF Next

(***************************************************************************)
(* Every variable keeps its type: in particular each line of known_hosts   *)
(* is one the client, the user's ssh or the installer can have written,    *)
(* whatever was written into what.                                         *)
(***************************************************************************)
THEOREM TypeCorrect == Spec => []TypeOK
<1>1. TypeInv => TypeOK
  BY DEF TypeInv
<1> QED
  BY <1>1, TypeInit, TypeStep, PTL DEF Spec

-----------------------------------------------------------------------------
(***************************************************************************)
(* An import writes its four files one by one: at each stage those before  *)
(* it are the bundle's already, if it has met no other import; one that    *)
(* has met none is the only one under way.                                 *)
(***************************************************************************)
FilesSoFar ==
    /\ \A p, q \in Procs : Importing(p) /\ Importing(q) /\ p \notin crossed => p = q
    /\ \A p \in Procs \ crossed :
          /\ pc[p] \in {"key", "ca", "meta"} => disk.client_crt = bundle[p]
          /\ pc[p] \in {"ca", "meta"} => disk.client_key = bundle[p]
          /\ pc[p] = "meta" =>
                disk.ca_crt = IF bundle[p].withCa THEN bundle[p] ELSE Absent

ImportInv == FilesSoFar /\ BundleFits

\* A write to one file leaves the others as they are.
LEMMA WriteFields ==
    ASSUME disk \in Disk, NEW c
    PROVE  /\ Write("client_crt", c) =>
                /\ disk'.client_crt = c /\ disk'.client_key = disk.client_key
                /\ disk'.ca_crt = disk.ca_crt /\ disk'.metadata = disk.metadata
           /\ Write("client_key", c) =>
                /\ disk'.client_key = c /\ disk'.client_crt = disk.client_crt
                /\ disk'.ca_crt = disk.ca_crt /\ disk'.metadata = disk.metadata
           /\ Write("ca_crt", c) =>
                /\ disk'.ca_crt = c /\ disk'.client_crt = disk.client_crt
                /\ disk'.client_key = disk.client_key /\ disk'.metadata = disk.metadata
           /\ Write("metadata", c) =>
                /\ disk'.metadata = c /\ disk'.client_crt = disk.client_crt
                /\ disk'.client_key = disk.client_key /\ disk'.ca_crt = disk.ca_crt
           /\ Write("host_ca", c) =>
                /\ disk'.client_crt = disk.client_crt /\ disk'.client_key = disk.client_key
                /\ disk'.ca_crt = disk.ca_crt /\ disk'.metadata = disk.metadata
BY DEF Write, Disk

LEMMA ImportInit == Init => ImportInv
BY DEF Init, ImportInv, FilesSoFar, BundleFits, MtlsFits, Importing, Writing

\* The imports of the other processes, when p is through with its own.
LEMMA RestGoesOn ==
    ASSUME ImportInv, NEW p \in Procs,
           pc'[p] = "idle" /\ crossed \ {p} \subseteq crossed',
           \A q \in Procs \ {p} : pc'[q] = pc[q] /\ bundle'[q] = bundle[q],
           /\ disk'.client_crt = disk.client_crt /\ disk'.client_key = disk.client_key
           /\ disk'.ca_crt = disk.ca_crt
    PROVE  FilesSoFar'
<1>1. ~Importing(p)' /\ pc'[p] \notin {"key", "ca", "meta"}
  BY DEF Importing
<1>2. \A q \in Procs \ {p} : /\ Importing(q)' <=> Importing(q)
                             /\ q \notin crossed' => q \notin crossed
  BY DEF Importing
<1> QED
  BY <1>1, <1>2 DEF ImportInv, FilesSoFar

LEMMA ImportStep == TypeInv /\ ImportInv /\ [Next]_vars => ImportInv'
<1> SUFFICES ASSUME TypeInv, ImportInv, [Next]_vars PROVE ImportInv'
  OBVIOUS
<1> USE DEF ImportInv, FilesSoFar, BundleFits, MtlsFits, Importing, Writing, files, locals, bounds, flags
<1>0. /\ pc \in [Procs -> Stages] /\ bundle \in [Procs -> Bundles \cup {Absent}]
      /\ disk \in Disk /\ InHand /\ crossed \subseteq Procs
  BY DEF TypeInv, TypeOK
<1>1. ASSUME NEW p \in Procs, NEW b \in Bundles, StartImport(p, b) PROVE ImportInv'
  <2>1. /\ pc[p] = "idle" /\ pc'[p] = "crt" /\ crossed' = crossed \cup Meeting(p)
        /\ \A q \in Procs \ {p} : pc'[q] = pc[q] /\ bundle'[q] = bundle[q]
        /\ disk' = disk /\ (broken' <=> broken)
    BY <1>0, <1>1 DEF StartImport, Goto
  <2>2. \A q \in Procs \ {p} : Importing(q) => p \in crossed' /\ q \in crossed'
    BY <2>1 DEF Meeting
  <2> QED
    <3>1. \A q \in Procs \ {p} : /\ Importing(q)' <=> Importing(q)
                                 /\ q \notin crossed' => q \notin crossed
      BY <2>1
    <3>2. FilesSoFar'
      BY <1>0, <2>1, <2>2, <3>1 DEF FilesSoFar
    <3>3. \A q \in Procs : Writing(q)' <=> Writing(q)
      BY <2>1
    <3>4. MtlsFits' <=> MtlsFits
      BY <2>1
    <3>5. BundleFits'
      <4> HIDE DEF MtlsFits, Writing
      <4> QED
        BY <2>1, <3>3, <3>4
    <3> QED
      BY <3>2, <3>5
<1>2. ASSUME NEW p \in Procs, Import(p) PROVE ImportInv'
  <2>1. CASE RefuseBundle(p)
    BY <1>0, <2>1, FinishTypes DEF RefuseBundle
  <2>2. CASE WriteClientCertificate(p)
    BY <1>0, <2>2, WriteFields DEF WriteClientCertificate, Goto
  <2>3. CASE WriteClientKey(p)
    BY <1>0, <2>3, WriteFields DEF WriteClientKey, Goto
  <2>4. CASE WriteOrUnlinkCa(p)
    BY <1>0, <2>4, WriteFields DEF WriteOrUnlinkCa, Goto
  <2>5. CASE RefuseSshSection(p)
    BY <1>0, <2>5, FinishTypes DEF RefuseSshSection
  <2>6. CASE WriteMetadata(p)
    <3>1. /\ pc[p] = "meta" /\ pc'[p] = "idle" /\ crossed' = crossed \ {p}
          /\ broken' = (p \in crossed)
          /\ \A q \in Procs \ {p} : pc'[q] = pc[q] /\ bundle'[q] = bundle[q]
          /\ disk'.metadata = bundle[p] /\ disk'.client_crt = disk.client_crt
          /\ disk'.client_key = disk.client_key /\ disk'.ca_crt = disk.ca_crt
      BY <1>0, <2>6, FinishTypes, WriteFields DEF WriteMetadata
    <3>2. FilesSoFar'
      BY <3>1, RestGoesOn
    <3>3. ~broken' => MtlsFits'
      BY <1>0, <3>1 DEF InHand
    <3> QED
      BY <3>2, <3>3 DEF FilesSoFar
  <2> QED
    BY <1>2, <2>1, <2>2, <2>3, <2>4, <2>5, <2>6 DEF Import
<1>3. ASSUME NEW p \in Procs, StartEnroll(p) PROVE ImportInv'
  BY <1>0, <1>3 DEF StartEnroll, Goto
<1>4. ASSUME NEW p \in Procs, Enroll(p) PROVE ImportInv'
  <2>1. CASE LoadBundle(p)
    BY <1>0, <2>1 DEF LoadBundle, Goto
  <2>2. CASE FetchHostCa(p)
    BY <1>0, <2>2 DEF FetchHostCa, Goto
  <2>3. CASE EnrollFails(p)
    <3>1. /\ pc[p] \in {"load", "fetch"} /\ pc'[p] = "idle" /\ UNCHANGED <<crossed, broken, disk>>
          /\ \A q \in Procs \ {p} : pc'[q] = pc[q] /\ bundle'[q] = bundle[q]
      BY <1>0, <2>3, FinishTypes DEF EnrollFails
    <3>2. FilesSoFar'
      BY <3>1, RestGoesOn
    <3> QED
      BY <3>1, <3>2 DEF FilesSoFar
  <2>4. CASE WriteHostCa(p)
    BY <1>0, <2>4, WriteFields DEF WriteHostCa, Goto
  <2>5. CASE ReadKnownHosts(p)
    BY <1>0, <2>5 DEF ReadKnownHosts, Goto
  <2>6. CASE TruncateKnownHosts(p)
    BY <1>0, <2>6 DEF TruncateKnownHosts, Goto
  <2>7. CASE WriteKnownHosts(p)
    <3>1. /\ pc[p] = "write" /\ pc'[p] = "idle" /\ UNCHANGED <<crossed, broken, disk>>
          /\ \A q \in Procs \ {p} : pc'[q] = pc[q] /\ bundle'[q] = bundle[q]
      BY <1>0, <2>7, FinishTypes DEF WriteKnownHosts
    <3>2. FilesSoFar'
      BY <3>1, RestGoesOn
    <3> QED
      BY <3>1, <3>2 DEF FilesSoFar
  <2> QED
    BY <1>4, <2>1, <2>2, <2>3, <2>4, <2>5, <2>6, <2>7 DEF Enroll
<1>5. ASSUME NEW p \in Procs, Kill(p) PROVE ImportInv'
  <2>0. /\ pc'[p] = "idle" /\ crossed' = crossed \ {p}
        /\ \A q \in Procs \ {p} : pc'[q] = pc[q] /\ bundle'[q] = bundle[q]
    BY <1>0, <1>5, FinishTypes DEF Kill
  <2>1. CASE Importing(p)
    <3>1. broken'
      BY <1>5, <2>1 DEF Kill
    <3> QED
      BY <1>0, <2>0, <2>1, <3>1
  <2>2. CASE ~Importing(p)
    <3>1. UNCHANGED disk \/ Write("host_ca", Torn)
      BY <1>5, <2>2 DEF Kill, MayTear, OpenFile
    <3>2. /\ disk'.client_crt = disk.client_crt /\ disk'.client_key = disk.client_key
          /\ disk'.ca_crt = disk.ca_crt /\ disk'.metadata = disk.metadata
      BY <1>0, <3>1, WriteFields
    <3>3. broken' <=> broken
      BY <1>5, <2>2 DEF Kill
    <3> QED
      BY <1>0, <2>0, <2>2, <3>2, <3>3
  <2> QED
    BY <2>1, <2>2
<1>6. ASSUME NEW l \in Others, AppendLine(l) PROVE ImportInv'
  BY <1>6 DEF AppendLine
<1>7. ASSUME NEW marker \in {BEGIN, END}, BreakBlock(marker) PROVE ImportInv'
  BY <1>7 DEF BreakBlock
<1>8. CASE RotateHostCa
  BY <1>8 DEF RotateHostCa
<1>9. CASE UNCHANGED vars
  BY <1>9 DEF vars
<1> QED
  BY <1>1, <1>2, <1>3, <1>4, <1>5, <1>6, <1>7, <1>8, <1>9, AddedLines DEF Next

(***************************************************************************)
(* Unless an import is under way, or one has ended early or met another    *)
(* one since the last complete one that ran alone, key, certificate and CA *)
(* belong to the bundle the metadata are from: however many imports there  *)
(* were, by however many processes, and whatever the enrollments did       *)
(* meanwhile.                                                              *)
(***************************************************************************)
THEOREM BundlesStayWhole == Spec => []BundleFits
<1>1. ImportInv => BundleFits
  BY DEF ImportInv
<1> QED
  BY <1>1, TypeInit, TypeStep, ImportInit, ImportStep, PTL DEF Spec

-----------------------------------------------------------------------------
(***************************************************************************)
(* The shape of known_hosts.  Sound is what every text has that the merge  *)
(* may find: the managed block is closed and holds all authorities of the  *)
(* client; the lines of others stand outside it, each once; a blank line   *)
(* has one of them above it.  Single: there is one block at most, of one   *)
(* CA.                                                                     *)
(***************************************************************************)
AuthoritiesInside(list) ==
    \A i \in DOMAIN list : list[i].kind = "ca" => Skipped(list, i)

OthersOutside(list, others) ==
    \A i \in DOMAIN list :
        list[i].kind = "other" => ~Skipped(list, i) /\ list[i] \in others

OthersOnce(list) ==
    \A i, j \in DOMAIN list :
        list[i].kind = "other" /\ list[j] = list[i] => i = j

OtherBefore(list, i) == i > 1 /\ i - 1 \in DOMAIN list /\ list[i - 1].kind = "other"

BlanksAfterOthers(list) ==
    \A i \in DOMAIN list : list[i] = Blank => OtherBefore(list, i)

Sound(list, others) ==
    /\ AuthoritiesInside(list)
    /\ OthersOutside(list, others) /\ OthersOnce(list)
    /\ BlanksAfterOthers(list)
    /\ ~Skipped(list, Len(list) + 1)

Bare(list) == \A i \in DOMAIN list : list[i].kind \notin {"begin", "end", "ca"}

BlockAt(list, b, e, k) ==
    \A i \in DOMAIN list : /\ list[i].kind = "begin" <=> i = b
                           /\ list[i].kind = "end" <=> i = e
                           /\ list[i].kind = "ca" => list[i].ca = k

Single(list) ==
    Bare(list) \/ \E b, e \in DOMAIN list : \E k : BlockAt(list, b, e, k)

LEMMA EmptySound == \A others : Sound(<<>>, others) /\ Single(<<>>)
<1>1. DOMAIN <<>> = {} /\ Len(<<>>) = 0
  OBVIOUS
<1>2. ~Skipped(<<>>, Len(<<>>) + 1)
  BY <1>1 DEF Skipped
<1> QED
  BY <1>1, <1>2 DEF Sound, Single, Bare, AuthoritiesInside, OthersOutside, OthersOnce,
                    BlanksAfterOthers

\* Whether a line is skipped depends on the lines above it.
LEMMA SkippedAbove ==
    ASSUME NEW a, NEW b, NEW i \in Nat, \A j \in 1..(i - 1) : a[j] = b[j]
    PROVE  Skipped(a, i) <=> Skipped(b, i)
<1>1. \A j \in 1..(i - 1) : \A k \in (j + 1)..(i - 1) : k \in 1..(i - 1)
  OBVIOUS
<1> QED
  BY <1>1 DEF Skipped

\* Only a line with BEGIN above it is skipped.
LEMMA SkippedBelowBegin ==
    ASSUME NEW list, NEW i, Skipped(list, i)
    PROVE  \E j \in 1..(i - 1) : list[j] = BEGIN
BY DEF Skipped

\* One line on, the flag is set or reset by a marker only.
LEMMA SkippedNext ==
    ASSUME NEW list, NEW i \in Nat \ {0}, list[i] # END, Skipped(list, i)
    PROVE  Skipped(list, i + 1)
<1>1. PICK j \in 1..(i - 1) : list[j] = BEGIN /\ \A k \in (j + 1)..(i - 1) : list[k] # END
  BY DEF Skipped
<1>2. j \in 1..((i + 1) - 1) /\ \A k \in (j + 1)..((i + 1) - 1) : k = i \/ k \in (j + 1)..(i - 1)
  OBVIOUS
<1> QED
  BY <1>1, <1>2 DEF Skipped

LEMMA SkippedBack ==
    ASSUME NEW list, NEW i \in Nat \ {0}, list[i] # BEGIN, Skipped(list, i + 1)
    PROVE  Skipped(list, i)
<1>1. PICK j \in 1..((i + 1) - 1) :
          list[j] = BEGIN /\ \A k \in (j + 1)..((i + 1) - 1) : list[k] # END
  BY DEF Skipped
<1>2. j \in 1..(i - 1) /\ \A k \in (j + 1)..(i - 1) : k \in (j + 1)..((i + 1) - 1)
  BY <1>1
<1> QED
  BY <1>1, <1>2 DEF Skipped

(***************************************************************************)
(* The user's ssh or the installer adds a line.                            *)
(***************************************************************************)
LEMMA AppendSound ==
    ASSUME NEW list \in Seq(Line), NEW others, NEW l \in Others, l \notin others,
           Sound(list, others), Single(list)
    PROVE  /\ Sound(Append(list, l), others \cup {l})
           /\ Single(Append(list, l))
           /\ \A line \in Members(list) \cup {l} : line \in Members(Append(list, l))
<1> DEFINE n == Len(list)
           new == Append(list, l)
<1>1. /\ n \in Nat /\ DOMAIN list = 1..n /\ DOMAIN new = 1..(n + 1) /\ Len(new) = n + 1
      /\ new[n + 1] = l
      /\ \A i \in 1..n : new[i] = list[i] /\ list[i] \in Line
  BY LineMembers
<1>2. l.kind = "other"
  BY OtherKind
<1>3. new[n + 1].kind = "other" /\ new[n + 1] = l
  BY <1>1, <1>2
<1> HIDE DEF new
<1>4. \A i \in 1..(n + 1) : Skipped(new, i) <=> Skipped(list, i)
  <2> TAKE i \in 1..(n + 1)
  <2>1. i \in Nat /\ \A j \in 1..(i - 1) : new[j] = list[j]
    BY <1>1
  <2> QED
    BY <2>1, SkippedAbove
<1>5. ~Skipped(new, n + 1)
  BY <1>1, <1>4 DEF Sound
<1>6. ~Skipped(new, Len(new) + 1)
  BY <1>1, <1>2, <1>5, SkippedBack, LineKinds
<1>7. AuthoritiesInside(new)
  BY <1>1, <1>3, <1>4 DEF AuthoritiesInside, Sound
<1>8. OthersOutside(new, others \cup {l})
  BY <1>1, <1>3, <1>4, <1>5 DEF OthersOutside, Sound
<1>9. OthersOnce(new)
  <2>1. \A i \in 1..n : new[i].kind = "other" => new[i] # l
    BY <1>1 DEF OthersOutside, Sound
  <2>2. \A i, j \in 1..n : new[i].kind = "other" /\ new[j] = new[i] => i = j
    BY <1>1 DEF OthersOnce, Sound
  <2>3. \A i \in 1..(n + 1) : i \in 1..n \/ i = n + 1
    BY <1>1
  <2> QED
    BY <1>1, <1>3, <2>1, <2>2, <2>3 DEF OthersOnce
<1>10. BlanksAfterOthers(new)
  <2>1. \A i \in 1..(n + 1) : new[i] = Blank => i \in 1..n /\ list[i] = Blank
    BY <1>1, <1>3, LineKinds
  <2>2. \A i \in 1..n : list[i] = Blank =>
            i > 1 /\ i - 1 \in 1..n /\ new[i - 1].kind = "other"
    <3> SUFFICES ASSUME NEW i \in 1..n, list[i] = Blank
                 PROVE  i > 1 /\ i - 1 \in 1..n /\ new[i - 1].kind = "other"
      OBVIOUS
    <3>1. i > 1 /\ i - 1 \in 1..n /\ list[i - 1].kind = "other"
      BY <1>1 DEF BlanksAfterOthers, OtherBefore, Sound
    <3>2. new[i - 1] = list[i - 1]
      BY <1>1, <3>1
    <3> QED
      BY <3>1, <3>2
  <2> QED
    BY <1>1, <2>1, <2>2 DEF BlanksAfterOthers, OtherBefore
<1>11. Single(new)
  <2>1. \A i \in 1..(n + 1) : i \in 1..n \/ i = n + 1
    BY <1>1
  <2>2. CASE Bare(list)
    BY <1>1, <1>3, <2>1, <2>2 DEF Single, Bare
  <2>3. CASE \E b, e \in DOMAIN list : \E k : BlockAt(list, b, e, k)
    <3>1. PICK b, e \in DOMAIN list : \E k : BlockAt(list, b, e, k)
      BY <2>3
    <3>2. PICK k : BlockAt(list, b, e, k)
      BY <3>1
    <3>3. b \in DOMAIN new /\ e \in DOMAIN new /\ b # n + 1 /\ e # n + 1
      BY <1>1
    <3>4. BlockAt(new, b, e, k)
      BY <1>1, <1>3, <2>1, <3>2, <3>3 DEF BlockAt
    <3> QED
      BY <3>3, <3>4 DEF Single
  <2> QED
    BY <2>2, <2>3 DEF Single
<1>12. \A line \in Members(list) \cup {l} : line \in Members(new)
  BY <1>1 DEF Members
<1> QED
  BY <1>6, <1>7, <1>8, <1>9, <1>10, <1>11, <1>12 DEF new, Sound

(***************************************************************************)
(* What the loop of install_host_ca keeps of a sound text: the lines of    *)
(* others, all of them, and blank lines, each with the line above it.      *)
(***************************************************************************)
LEMMA KeptFacts ==
    ASSUME NEW list \in Seq(Line), NEW others, Sound(list, others)
    PROVE  LET kept == Kept(list) IN
           /\ \A i \in 1..Len(kept) :
                 /\ kept[i].kind \in {"other", "blank"}
                 /\ kept[i].kind = "other" => kept[i] \in others
           /\ OthersOnce(kept)
           /\ BlanksAfterOthers(kept)
           /\ \A l \in Members(list) : l.kind = "other" => l \in Members(kept)
<1> DEFINE S == {i \in DOMAIN list : list[i] \notin {BEGIN, END} /\ ~Skipped(list, i)}
           kept == Kept(list)
<1>1. /\ Len(list) \in Nat /\ DOMAIN list = 1..Len(list)
      /\ \A i \in DOMAIN list : list[i] \in Line
  OBVIOUS
<1>2. S \in SUBSET (DOMAIN list) /\ S \in SUBSET (1..Len(list)) /\ kept = Pick(list, S)
  BY <1>1 DEF Kept
<1>3. \A i \in DOMAIN list :
          i \in S <=> list[i] # BEGIN /\ list[i] # END /\ ~Skipped(list, i)
  OBVIOUS
<1> HIDE DEF S, kept
<1>4. /\ Len(kept) = Cardinality(S) /\ Cardinality(S) \in Nat
      /\ DOMAIN kept = 1..Cardinality(S)
  BY <1>2, PickSeq
<1>5. \A i \in DOMAIN list : list[i].kind = "other" => i \in S
  BY <1>1, <1>3, LineKinds DEF Sound, OthersOutside
<1>6. \A i \in S : /\ list[i].kind \in {"other", "blank"}
                   /\ list[i].kind = "other" => list[i] \in others
  <2> SUFFICES ASSUME NEW i \in S
               PROVE  /\ list[i].kind \in {"other", "blank"}
                      /\ list[i].kind = "other" => list[i] \in others
    OBVIOUS
  <2>1. i \in DOMAIN list /\ list[i] \in Line
    BY <1>1, <1>2
  <2>2. list[i].kind # "begin" /\ list[i].kind # "end" /\ list[i].kind # "ca"
    BY <1>3, <2>1, LineFacts DEF Sound, AuthoritiesInside
  <2>3. list[i].kind \in {"begin", "end", "blank", "other", "ca"}
    BY <2>1, LineFacts
  <2> QED
    BY <2>1, <2>2, <2>3 DEF Sound, OthersOutside
<1>7. ASSUME NEW k \in DOMAIN kept
      PROVE  \E i \in S : Rank(S, i) = k /\ kept[k] = list[i]
  <2>1. k \in 1..Cardinality(S)
    BY <1>4
  <2> QED
    BY <1>1, <1>2, <2>1, PickOrigin DEF Taken
<1>8. ASSUME NEW i \in S
      PROVE  Rank(S, i) \in DOMAIN kept /\ kept[Rank(S, i)] = list[i]
  BY <1>1, <1>2, <1>4, PickElement, RankType
<1>9. \A k \in 1..Len(kept) : /\ kept[k].kind \in {"other", "blank"}
                              /\ kept[k].kind = "other" => kept[k] \in others
  BY <1>4, <1>6, <1>7
<1>10. OthersOnce(kept)
  <2> SUFFICES ASSUME NEW k \in DOMAIN kept, NEW l \in DOMAIN kept,
                      kept[k].kind = "other", kept[l] = kept[k]
               PROVE  k = l
    BY DEF OthersOnce
  <2>1. PICK i \in S : Rank(S, i) = k /\ kept[k] = list[i]
    BY <1>7
  <2>2. PICK j \in S : Rank(S, j) = l /\ kept[l] = list[j]
    BY <1>7
  <2>3. i = j
    BY <1>2, <2>1, <2>2 DEF Sound, OthersOnce
  <2> QED
    BY <2>1, <2>2, <2>3
<1>11. BlanksAfterOthers(kept)
  <2> SUFFICES ASSUME NEW k \in DOMAIN kept, kept[k] = Blank
               PROVE  OtherBefore(kept, k)
    BY DEF BlanksAfterOthers
  <2>1. PICK i \in S : Rank(S, i) = k /\ kept[k] = list[i]
    BY <1>7
  <2>2. i > 1 /\ i - 1 \in DOMAIN list /\ list[i - 1].kind = "other"
    BY <1>2, <2>1 DEF Sound, BlanksAfterOthers, OtherBefore
  <2>3. i - 1 \in S /\ (i - 1) + 1 = i
    BY <1>1, <1>2, <1>5, <2>2
  <2>4. Rank(S, i) = Rank(S, i - 1) + 1
    BY <1>1, <1>2, <2>3, RankNext
  <2>5. Rank(S, i - 1) \in 1..Cardinality(S)
    BY <1>1, <1>2, <2>3, RankType
  <2>6. k > 1 /\ k - 1 = Rank(S, i - 1)
    BY <1>4, <2>1, <2>4, <2>5
  <2>7. k - 1 \in DOMAIN kept /\ kept[k - 1] = list[i - 1]
    BY <1>8, <2>3, <2>6
  <2> QED
    BY <2>2, <2>6, <2>7 DEF OtherBefore
<1>12. \A l \in Members(list) : l.kind = "other" => l \in Members(kept)
  BY <1>1, <1>5, <1>8 DEF Members
<1> QED
  BY <1>9, <1>10, <1>11, <1>12 DEF kept

LEMMA ConcatFacts ==
    ASSUME NEW T, NEW a \in Seq(T), NEW b \in Seq(T)
    PROVE  /\ \A i \in 1..Len(a) : (a \o b)[i] = a[i]
           /\ \A i \in 1..Len(b) : (a \o b)[Len(a) + i] = b[i]
OBVIOUS

(***************************************************************************)
(* Where the lines of the new text are: first of any text built that way,  *)
(* then of the merge's.                                                    *)
(***************************************************************************)
Parts(a, gap, c) == a \o gap \o (<<BEGIN>> \o c \o <<END>>)

Placed(new, a, gap, c, n, g, m) ==
    /\ n \in Nat /\ g \in Nat /\ m \in Nat
    /\ new \in Seq(Line) /\ Len(new) = n + g + m + 2
    /\ DOMAIN new = 1..(n + g + m + 2)
    /\ \A i \in 1..n : new[i] = a[i]
    /\ \A i \in 1..g : new[n + i] = gap[i]
    /\ new[n + g + 1] = BEGIN
    /\ \A i \in 1..m : new[n + g + 1 + i] = c[i]
    /\ new[n + g + m + 2] = END

LEMMA PartsShape ==
    ASSUME NEW a \in Seq(Line), NEW gap \in Seq(Line), NEW c \in Seq(Line)
    PROVE  Placed(Parts(a, gap, c), a, gap, c, Len(a), Len(gap), Len(c))
<1>0. PICK n, g, m, new :
          /\ n = Len(a) /\ g = Len(gap) /\ m = Len(c)
          /\ new = Parts(a, gap, c)
          /\ new = a \o gap \o (<<BEGIN>> \o c \o <<END>>)
  BY DEF Parts
<1>1. n \in Nat /\ g \in Nat /\ m \in Nat
  BY <1>0
<1>2. PICK M : M = <<BEGIN>> \o c \o <<END>>
  OBVIOUS
<1>3. /\ M \in Seq(Line) /\ Len(M) = m + 2 /\ M[1] = BEGIN /\ M[m + 2] = END
      /\ \A i \in 1..m : M[1 + i] = c[i]
  <2>1. PICK M1 : M1 = <<BEGIN>> \o c
    OBVIOUS
  <2>2. /\ M1 \in Seq(Line) /\ Len(M1) = m + 1 /\ M1[1] = BEGIN
        /\ \A i \in 1..m : M1[1 + i] = c[i]
    BY <1>0, <1>1, <2>1, LineMembers
  <2>3. M = M1 \o <<END>>
    BY <1>2, <2>1
  <2>4. M \in Seq(Line) /\ Len(M) = m + 2
    BY <1>1, <2>2, <2>3, LineMembers
  <2>5. M[m + 2] = END
    BY <1>1, <2>2, <2>3, LineMembers
  <2>6. \A i \in 1..(m + 1) : M[i] = M1[i]
    BY <1>1, <2>2, <2>3, LineMembers
  <2> QED
    BY <1>1, <2>2, <2>4, <2>5, <2>6
<1>4. PICK L : L = a \o gap
  OBVIOUS
<1>5. /\ L \in Seq(Line) /\ Len(L) = n + g
      /\ \A i \in 1..n : L[i] = a[i]
      /\ \A i \in 1..g : L[n + i] = gap[i]
  BY <1>0, <1>1, <1>4
<1>6. /\ new \in Seq(Line) /\ Len(new) = (n + g) + (m + 2)
      /\ \A i \in 1..(n + g) : new[i] = L[i]
      /\ \A i \in 1..(m + 2) : new[n + g + i] = M[i]
  <2>1. new = L \o M
    BY <1>0, <1>2, <1>4
  <2>2. L \in Seq(Line) /\ M \in Seq(Line)
    BY <1>3, <1>5
  <2>3. (L \o M) \in Seq(Line) /\ Len(L \o M) = Len(L) + Len(M)
    BY <2>2
  <2>4. /\ \A i \in 1..Len(L) : (L \o M)[i] = L[i]
        /\ \A i \in 1..Len(M) : (L \o M)[Len(L) + i] = M[i]
    BY <2>2, ConcatFacts
  <2>5. Len(L) = n + g /\ Len(M) = m + 2
    BY <1>3, <1>5
  <2> QED
    BY <2>1, <2>3, <2>4, <2>5
<1>7. DOMAIN new = 1..(n + g + m + 2) /\ Len(new) = n + g + m + 2
  BY <1>1, <1>6
<1>8. /\ \A i \in 1..n : new[i] = a[i]
      /\ \A i \in 1..g : new[n + i] = gap[i]
  BY <1>1, <1>5, <1>6
<1>9. new[n + g + 1] = BEGIN /\ new[n + g + m + 2] = END
  <2>1. 1 \in 1..(m + 2) /\ m + 2 \in 1..(m + 2) /\ n + g + (m + 2) = n + g + m + 2
    BY <1>1
  <2> QED
    BY <1>3, <1>6, <2>1
<1>10. \A i \in 1..m : new[n + g + 1 + i] = c[i]
  <2> TAKE i \in 1..m
  <2>1. 1 + i \in 1..(m + 2) /\ n + g + (1 + i) = n + g + 1 + i
    BY <1>1
  <2> QED
    BY <1>3, <1>6, <2>1
<1> QED
  BY <1>0, <1>1, <1>6, <1>7, <1>8, <1>9, <1>10 DEF Placed

LEMMA GapFacts ==
    ASSUME NEW list \in Seq(Line)
    PROVE  LET n == Len(Kept(list)) IN
           /\ Gap(list) \in Seq(Line)
           /\ \/ Len(Gap(list)) = 0
              \/ /\ Len(Gap(list)) = 1 /\ Gap(list)[1] = Blank
                 /\ n > 0 /\ Kept(list)[n] # Blank
<1>1. Kept(list) \in Seq(Line)
  BY KeptType
<1>2. Kept(list) # <<>> => Len(Kept(list)) > 0
  BY <1>1
<1>3. CASE Kept(list) # <<>> /\ Last(Kept(list)) # Blank
  <2>1. Gap(list) = <<Blank>>
    BY <1>3 DEF Gap
  <2>2. <<Blank>> \in Seq(Line) /\ Len(<<Blank>>) = 1 /\ <<Blank>>[1] = Blank
    BY LineMembers
  <2> QED
    BY <1>2, <1>3, <2>1, <2>2 DEF Last
<1>4. CASE ~(Kept(list) # <<>> /\ Last(Kept(list)) # Blank)
  <2>1. Gap(list) = <<>>
    BY <1>4 DEF Gap
  <2> QED
    BY <2>1
<1> QED
  BY <1>3, <1>4

\* The authorities of the managed block, as in Managed.
Authorities(patterns, k) == [i \in DOMAIN patterns |-> Authority(patterns[i], k)]

Merged(new, kept, k, n, g, m) ==
    /\ \/ g = 0
       \/ g = 1 /\ new[n + 1] = Blank /\ n > 0 /\ kept[n] # Blank
    /\ n = Len(kept) /\ DOMAIN kept = 1..n
    /\ Len(new) = n + g + m + 2 /\ DOMAIN new = 1..(n + g + m + 2)
    /\ \A i \in 1..n : new[i] = kept[i]
    /\ new[n + g + 1] = BEGIN
    /\ \A i \in 1..m : new[n + g + 1 + i].kind = "ca" /\ new[n + g + 1 + i].ca = k
    /\ new[n + g + m + 2] = END

LEMMA RebuildShape ==
    ASSUME NEW list \in Seq(Line), NEW b \in Bundles, NEW k \in 1..(MaxEvents + 1)
    PROVE  \E n, g, m \in Nat :
               Merged(Rebuild(list, b.host_patterns, k), Kept(list), k, n, g, m)
<1> DEFINE P == b.host_patterns
           c == Authorities(P, k)
<1>1. PICK n, g, m, new : /\ n = Len(Kept(list)) /\ g = Len(Gap(list)) /\ m = Len(c)
                          /\ new = Rebuild(list, P, k)
  OBVIOUS
<1>2. Kept(list) \in Seq(Line) /\ Gap(list) \in Seq(Line) /\ P \in Seq(Members(P))
  BY KeptType, ManagedType, GapFacts
<1>3. c \in Seq(Line) /\ \A i \in 1..Len(c) : c[i] = Authority(P[i], k)
  <2>1. DOMAIN P = 1..Len(P) /\ Len(P) \in Nat /\ \A i \in 1..Len(P) : P[i] \in Members(P)
    BY <1>2
  <2>2. c \in [1..Len(P) -> Line]
    BY <2>1, LineMembers DEF Authorities
  <2>3. Len(c) = Len(P)
    BY <2>1, <2>2
  <2> QED
    BY <2>1, <2>2, <2>3 DEF Authorities
<1>4. new = Parts(Kept(list), Gap(list), c)
  BY <1>1, RebuildIs DEF Managed, Authorities, Parts
<1> HIDE DEF c
<1>5. /\ n \in Nat /\ g \in Nat /\ m \in Nat
      /\ new \in Seq(Line) /\ Len(new) = n + g + m + 2
      /\ DOMAIN new = 1..(n + g + m + 2)
      /\ \A i \in 1..n : new[i] = Kept(list)[i]
      /\ \A i \in 1..g : new[n + i] = Gap(list)[i]
      /\ new[n + g + 1] = BEGIN
      /\ \A i \in 1..m : new[n + g + 1 + i] = c[i]
      /\ new[n + g + m + 2] = END
  <2>1. Placed(new, Kept(list), Gap(list), c, n, g, m)
    BY <1>1, <1>2, <1>3, <1>4, PartsShape
  <2> QED
    BY <2>1 DEF Placed
<1>6. \/ g = 0
      \/ g = 1 /\ new[n + 1] = Blank /\ n > 0 /\ Kept(list)[n] # Blank
  <2>1. \/ g = 0
        \/ g = 1 /\ Gap(list)[1] = Blank /\ n > 0 /\ Kept(list)[n] # Blank
    BY <1>1, GapFacts
  <2> QED
    BY <1>5, <2>1
<1>7. \A i \in 1..m : new[n + g + 1 + i].kind = "ca" /\ new[n + g + 1 + i].ca = k
  <2>1. \A i \in 1..m : new[n + g + 1 + i] = Authority(P[i], k)
    BY <1>1, <1>3, <1>5
  <2> QED
    BY <2>1, LineKinds
<1>8. DOMAIN Kept(list) = 1..n
  BY <1>1, <1>2
<1>9. Merged(new, Kept(list), k, n, g, m)
  BY <1>1, <1>5, <1>6, <1>7, <1>8 DEF Merged
<1> QED
  BY <1>1, <1>5, <1>9

(***************************************************************************)
(* The merge keeps a text sound, whatever patterns and CA it is for, makes *)
(* its own block the only one, and keeps every line of others.             *)
(***************************************************************************)
LEMMA RebuildSound ==
    ASSUME NEW list \in Seq(Line), NEW b \in Bundles, NEW k \in 1..(MaxEvents + 1),
           NEW others, Sound(list, others)
    PROVE  LET new == Rebuild(list, b.host_patterns, k) IN
           /\ Sound(new, others) /\ Single(new)
           /\ \A l \in Members(list) : l.kind = "other" => l \in Members(new)
<1> DEFINE kept == Kept(list)
<1>0. PICK new : new = Rebuild(list, b.host_patterns, k)
  OBVIOUS
<1>a. PICK n, g, m \in Nat : Merged(new, kept, k, n, g, m)
  BY <1>0, RebuildShape
<1>1. /\ \/ g = 0
         \/ g = 1 /\ new[n + 1] = Blank /\ n > 0 /\ kept[n] # Blank
      /\ n = Len(kept) /\ DOMAIN kept = 1..n
      /\ Len(new) = n + g + m + 2 /\ DOMAIN new = 1..(n + g + m + 2)
      /\ \A i \in 1..n : new[i] = kept[i]
      /\ new[n + g + 1] = BEGIN
      /\ \A i \in 1..m : new[n + g + 1 + i].kind = "ca" /\ new[n + g + 1 + i].ca = k
      /\ new[n + g + m + 2] = END
  BY <1>a DEF Merged
<1>2. PICK B, N : B = n + g + 1 /\ N = n + g + m + 2
  OBVIOUS
<1>3. /\ \A i \in 1..Len(kept) : /\ kept[i].kind \in {"other", "blank"}
                                 /\ kept[i].kind = "other" => kept[i] \in others
      /\ OthersOnce(kept) /\ BlanksAfterOthers(kept)
      /\ \A l \in Members(list) : l.kind = "other" => l \in Members(kept)
  BY KeptFacts
<1> HIDE DEF kept
<1>4. B \in Nat \ {0} /\ N \in Nat /\ B < N /\ DOMAIN new = 1..N /\ Len(new) = N
  BY <1>1, <1>2
<1>5. \A i \in 1..N : \/ i \in 1..n
                      \/ g = 1 /\ i = n + 1
                      \/ i = B
                      \/ i \in (B + 1)..(N - 1)
                      \/ i = N
  BY <1>1, <1>2
<1>6. \A i \in 1..n : /\ new[i] = kept[i] /\ new[i].kind \in {"other", "blank"}
                      /\ new[i].kind = "other" => new[i] \in others
  BY <1>1, <1>3
<1>7. g = 1 => new[n + 1] = Blank /\ new[n + 1].kind = "blank" /\ n > 0 /\ kept[n] # Blank
  BY <1>1, LineKinds
<1>8. new[B].kind = "begin" /\ new[N].kind = "end" /\ new[B] = BEGIN /\ new[N] = END
  BY <1>1, <1>2, LineKinds
<1>9. \A i \in (B + 1)..(N - 1) : new[i].kind = "ca" /\ new[i].ca = k
  <2> TAKE i \in (B + 1)..(N - 1)
  <2>1. i - B \in 1..m /\ n + g + 1 + (i - B) = i
    BY <1>1, <1>2
  <2> QED
    BY <1>1, <2>1
<1>10. BlockAt(new, B, N, k)
  <2> SUFFICES ASSUME NEW i \in 1..N
               PROVE  /\ new[i].kind = "begin" <=> i = B
                      /\ new[i].kind = "end" <=> i = N
                      /\ new[i].kind = "ca" => new[i].ca = k
    BY <1>4 DEF BlockAt
  <2>1. CASE i \in 1..n
    BY <1>1, <1>2, <1>6, <2>1
  <2>2. CASE g = 1 /\ i = n + 1
    BY <1>1, <1>2, <1>7, <2>2
  <2>3. CASE i = B \/ i = N
    BY <1>4, <1>8, <2>3
  <2>4. CASE i \in (B + 1)..(N - 1)
    BY <1>4, <1>9, <2>4
  <2> QED
    BY <1>5, <2>1, <2>2, <2>3, <2>4
<1>11. \A i \in 1..N : new[i].kind = "other" => i \in 1..n
  BY <1>5, <1>7, <1>8, <1>9
<1>12. \A i \in 1..N : new[i] = BEGIN => i = B
  BY <1>4, <1>10, LineKinds DEF BlockAt
<1>13. \A i \in 1..B : ~Skipped(new, i)
  <2> SUFFICES ASSUME NEW i \in 1..B, Skipped(new, i) PROVE FALSE
    OBVIOUS
  <2>1. PICK j \in 1..(i - 1) : new[j] = BEGIN
    BY SkippedBelowBegin
  <2>2. j \in 1..N /\ j < B
    BY <1>4
  <2> QED
    BY <1>12, <2>1, <2>2
<1>14. \A i \in (B + 1)..(N - 1) : Skipped(new, i)
  <2> TAKE i \in (B + 1)..(N - 1)
  <2>1. B \in 1..(i - 1) /\ \A j \in (B + 1)..(i - 1) : j \in (B + 1)..(N - 1)
    BY <1>4
  <2>2. \A j \in (B + 1)..(i - 1) : new[j] # END
    BY <1>9, <2>1, LineKinds
  <2> QED
    BY <1>8, <2>1, <2>2 DEF Skipped
<1>15. ~Skipped(new, N + 1)
  <2> SUFFICES ASSUME Skipped(new, N + 1) PROVE FALSE
    OBVIOUS
  <2>1. PICK j \in 1..((N + 1) - 1) :
            new[j] = BEGIN /\ \A i \in (j + 1)..((N + 1) - 1) : new[i] # END
    BY DEF Skipped
  <2>2. j = B /\ N \in (j + 1)..((N + 1) - 1)
    BY <1>4, <1>12, <2>1
  <2> QED
    BY <1>8, <2>1, <2>2
<1>16. AuthoritiesInside(new)
  <2> SUFFICES ASSUME NEW i \in 1..N, new[i].kind = "ca" PROVE Skipped(new, i)
    BY <1>4 DEF AuthoritiesInside
  <2> QED
    BY <1>5, <1>6, <1>7, <1>8, <1>14
<1>17. OthersOutside(new, others)
  <2>1. \A i \in 1..n : i \in 1..B
    BY <1>1, <1>2
  <2> QED
    BY <1>4, <1>6, <1>11, <1>13, <2>1 DEF OthersOutside
<1>18. OthersOnce(new)
  <2> SUFFICES ASSUME NEW i \in 1..N, NEW j \in 1..N, new[i].kind = "other",
                      new[j] = new[i]
               PROVE  i = j
    BY <1>4 DEF OthersOnce
  <2>1. i \in 1..n /\ j \in 1..n
    BY <1>11
  <2>2. i \in DOMAIN kept /\ j \in DOMAIN kept /\ new[i] = kept[i] /\ new[j] = kept[j]
    BY <1>1, <1>6, <2>1
  <2> QED
    BY <1>3, <2>2 DEF OthersOnce
<1>19. BlanksAfterOthers(new)
  <2> SUFFICES ASSUME NEW i \in 1..N, new[i] = Blank PROVE OtherBefore(new, i)
    BY <1>4 DEF BlanksAfterOthers
  <2>1. i \in 1..n \/ (g = 1 /\ i = n + 1)
    BY <1>5, <1>8, <1>9, LineKinds
  <2>2. CASE i \in 1..n
    <3>1. kept[i] = Blank /\ i \in DOMAIN kept
      BY <1>1, <1>6, <2>2
    <3>2. i > 1 /\ i - 1 \in 1..n /\ kept[i - 1].kind = "other"
      BY <1>1, <1>3, <3>1 DEF BlanksAfterOthers, OtherBefore
    <3> QED
      BY <1>4, <1>6, <3>2 DEF OtherBefore
  <2>3. CASE g = 1 /\ i = n + 1
    <3>1. n \in 1..n /\ n \in 1..N /\ i > 1 /\ i - 1 = n
      BY <1>1, <1>2, <1>7, <2>3
    <3>2. kept[n] \in Line /\ kept[n] # Blank /\ kept[n].kind \in {"other", "blank"}
      <4>1. kept \in Seq(Line)
        BY KeptType DEF kept
      <4>2. n \in DOMAIN kept
        BY <1>1, <3>1
      <4> QED
        BY <1>3, <1>7, <2>3, <4>1, <4>2, <1>1, <3>1
    <3>3. new[n].kind = "other"
      BY <1>6, <3>1, <3>2, LineFacts
    <3> QED
      BY <1>4, <3>1, <3>3 DEF OtherBefore
  <2> QED
    BY <2>1, <2>2, <2>3
<1>20. \A l \in Members(list) : l.kind = "other" => l \in Members(new)
  <2>1. \A i \in 1..n : i \in 1..N
    BY <1>1, <1>2
  <2>2. \A l \in Members(kept) : l \in Members(new)
    BY <1>1, <1>4, <1>6, <2>1 DEF Members
  <2> QED
    BY <1>3, <2>2
<1>21. Single(new)
  <2>1. B \in DOMAIN new /\ N \in DOMAIN new
    BY <1>4
  <2> QED
    BY <1>10, <2>1 DEF Single
<1>22. Sound(new, others)
  BY <1>4, <1>15, <1>16, <1>17, <1>18, <1>19 DEF Sound
<1> QED
  BY <1>0, <1>20, <1>21, <1>22

-----------------------------------------------------------------------------
(***************************************************************************)
(* known_hosts as the processes leave it.  KnownInv: what is in the file,  *)
(* and what a process has read from it, is sound, as long as no process    *)
(* has written into another's text and no marker was deleted.  MergeInv:   *)
(* as long as nobody has disturbed anybody, one process at most is at it,  *)
(* what it has read is still what the file holds or held, and the lines of  *)
(* others are in the file or, while it is empty, in that process's hands.  *)
(***************************************************************************)
KnownInv ==
    /\ IsFiniteSet(added)
    /\ ~mixed /\ edits = 0 =>
          /\ Sound(known, added) /\ Single(known)
          /\ \A p \in Procs : InMerge(p) => Sound(lines[p], added)

OthersIn(list) == added \subseteq Members(list)

MergeInv ==
    ~spoiled /\ edits = 0 =>
        /\ ~mixed
        /\ \A p, q \in Procs : InMerge(p) /\ InMerge(q) => p = q
        /\ \A p \in Procs : pc[p] = "truncate" => lines[p] = known
        /\ \A p \in Procs : pc[p] = "write" => known = <<>> /\ OthersIn(lines[p])
        /\ (\A p \in Procs : pc[p] # "write") => OthersIn(known)

TrustInv == TypeInv /\ KnownInv /\ MergeInv

LEMMA TrustInit == Init => KnownInv /\ MergeInv
<1>1. IsFiniteSet({})
  BY FS_EmptySet
<1> QED
  BY <1>1, EmptySound
     DEF Init, KnownInv, MergeInv, InMerge, OthersIn

LEMMA SoundGrows ==
    ASSUME NEW list, NEW others, NEW more, others \subseteq more, Sound(list, others)
    PROVE  Sound(list, more)
BY DEF Sound, OthersOutside

\* Steps that leave known_hosts alone and begin no merge; a process may leave
\* one, but if it was killed while the file was empty, spoiled tells.
Calm ==
    /\ UNCHANGED <<known, added, edits>>
    /\ mixed' <=> mixed
    /\ \A q \in Procs : pc'[q] \in {"truncate", "write"} =>
                            pc'[q] = pc[q] /\ lines'[q] = lines[q]
    /\ spoiled => spoiled'
    /\ ~spoiled' => \A q \in Procs : pc[q] = "write" => pc'[q] = "write"

LEMMA CalmStep == KnownInv /\ MergeInv /\ Calm => KnownInv' /\ MergeInv'
<1> SUFFICES ASSUME KnownInv, MergeInv, Calm PROVE KnownInv' /\ MergeInv'
  OBVIOUS
<1>1. KnownInv'
  BY DEF KnownInv, Calm, InMerge
<1>2. MergeInv'
  BY DEF MergeInv, Calm, InMerge, OthersIn
<1> QED
  BY <1>1, <1>2

LEMMA TrustStep == TrustInv /\ [Next]_vars => KnownInv' /\ MergeInv'
<1> SUFFICES ASSUME TrustInv, [Next]_vars PROVE KnownInv' /\ MergeInv'
  OBVIOUS
<1> USE DEF files, locals, bounds, flags
<1>0. /\ TypeInv /\ KnownInv /\ MergeInv
      /\ pc \in [Procs -> Stages] /\ lines \in [Procs -> Seq(Line)]
      /\ known \in Seq(Line) /\ edits \in 0..MaxEvents /\ InHand
      /\ added \subseteq Others
  BY DEF TrustInv, TypeInv, TypeOK
<1>1. ASSUME NEW p \in Procs, NEW b \in Bundles, StartImport(p, b)
      PROVE  KnownInv' /\ MergeInv'
  <2>1. Calm
    BY <1>0, <1>1 DEF StartImport, Goto, Calm
  <2> QED
    BY <1>0, <2>1, CalmStep
<1>2. ASSUME NEW p \in Procs, Import(p) PROVE KnownInv' /\ MergeInv'
  <2>1. CASE RefuseBundle(p)
    BY <1>0, <2>1, FinishTypes, CalmStep DEF RefuseBundle, Calm
  <2>2. CASE WriteClientCertificate(p)
    BY <1>0, <2>2, CalmStep DEF WriteClientCertificate, Goto, Calm
  <2>3. CASE WriteClientKey(p)
    BY <1>0, <2>3, CalmStep DEF WriteClientKey, Goto, Calm
  <2>4. CASE WriteOrUnlinkCa(p)
    BY <1>0, <2>4, CalmStep DEF WriteOrUnlinkCa, Goto, Calm
  <2>5. CASE RefuseSshSection(p)
    BY <1>0, <2>5, FinishTypes, CalmStep DEF RefuseSshSection, Calm
  <2>6. CASE WriteMetadata(p)
    BY <1>0, <2>6, FinishTypes, CalmStep DEF WriteMetadata, Calm
  <2> QED
    BY <1>2, <2>1, <2>2, <2>3, <2>4, <2>5, <2>6 DEF Import
<1>3. ASSUME NEW p \in Procs, StartEnroll(p) PROVE KnownInv' /\ MergeInv'
  BY <1>0, <1>3, CalmStep DEF StartEnroll, Goto, Calm
<1>4. ASSUME NEW p \in Procs, Enroll(p) PROVE KnownInv' /\ MergeInv'
  <2>1. CASE LoadBundle(p)
    BY <1>0, <2>1, CalmStep DEF LoadBundle, Goto, Calm
  <2>2. CASE FetchHostCa(p)
    BY <1>0, <2>2, CalmStep DEF FetchHostCa, Goto, Calm
  <2>3. CASE EnrollFails(p)
    BY <1>0, <2>3, FinishTypes, CalmStep DEF EnrollFails, Calm
  <2>4. CASE WriteHostCa(p)
    BY <1>0, <2>4, CalmStep DEF WriteHostCa, Goto, Calm
  <2>5. CASE ReadKnownHosts(p)
    <3>1. /\ pc[p] = "read" /\ pc'[p] = "truncate" /\ lines'[p] = known
          /\ \A q \in Procs \ {p} : pc'[q] = pc[q] /\ lines'[q] = lines[q]
          /\ UNCHANGED <<known, added, edits, mixed>>
          /\ spoiled' = (spoiled \/ ~Alone(p))
      BY <1>0, <2>5 DEF ReadKnownHosts, Goto
    <3>2. KnownInv'
      BY <1>0, <3>1 DEF KnownInv, InMerge
    <3>3. MergeInv'
      BY <1>0, <3>1 DEF MergeInv, InMerge, Alone, OthersIn
    <3> QED
      BY <3>2, <3>3
  <2>6. CASE TruncateKnownHosts(p)
    <3>1. /\ pc[p] = "truncate" /\ pc'[p] = "write" /\ known' = <<>>
          /\ \A q \in Procs \ {p} : pc'[q] = pc[q]
          /\ UNCHANGED <<lines, added, edits, mixed, spoiled>>
      BY <1>0, <2>6 DEF TruncateKnownHosts, Goto
    <3>2. KnownInv'
      BY <1>0, <3>1, EmptySound DEF KnownInv, InMerge
    <3>3. MergeInv'
      BY <1>0, <3>1 DEF MergeInv, InMerge, OthersIn
    <3> QED
      BY <3>2, <3>3
  <2>7. CASE WriteKnownHosts(p)
    <3> DEFINE new == Rebuild(lines[p], bundle[p].host_patterns, ca[p])
    <3>1. /\ pc[p] = "write" /\ known' = Overwrite(known, new)
          /\ mixed' = (mixed \/ known # <<>>) /\ Finish(p)
          /\ UNCHANGED <<added, edits, spoiled>>
      BY <2>7 DEF WriteKnownHosts
    <3>2. /\ pc'[p] = "idle"
          /\ \A q \in Procs \ {p} : pc'[q] = pc[q] /\ lines'[q] = lines[q]
      BY <1>0, <3>1, FinishTypes
    <3>3. bundle[p] \in Bundles /\ ca[p] \in 1..(MaxEvents + 1) /\ lines[p] \in Seq(Line)
      BY <1>0, <3>1 DEF InHand
    <3>4. new \in Seq(Line)
      BY <3>3, RebuildType
    <3>5. ASSUME ~mixed', edits = 0
          PROVE  /\ known' = new /\ Sound(new, added) /\ Single(new)
                 /\ \A l \in Members(lines[p]) : l.kind = "other" => l \in Members(new)
      <4>1. known = <<>> /\ Sound(lines[p], added)
        BY <1>0, <3>1, <3>5 DEF KnownInv, InMerge
      <4>2. known' = new
        BY <3>1, <3>4, <4>1, OverwriteEmpty
      <4> QED
        BY <3>3, <4>1, <4>2, RebuildSound
    <3>6. KnownInv'
      BY <1>0, <3>1, <3>2, <3>5 DEF KnownInv, InMerge
    <3>7. ASSUME ~spoiled, edits = 0
          PROVE  ~mixed' /\ OthersIn(known)' /\ \A q \in Procs : ~InMerge(q)'
      <4>1. /\ ~mixed /\ known = <<>> /\ OthersIn(lines[p])
            /\ \A q \in Procs : InMerge(q) => q = p
        BY <1>0, <3>1, <3>7 DEF MergeInv, InMerge
      <4>2. ~mixed'
        BY <3>1, <4>1
      <4>3. known' = new /\ \A l \in Members(lines[p]) : l.kind = "other" => l \in Members(new)
        BY <3>5, <3>7, <4>2
      <4>4. added \subseteq Members(new)
        <5>1. \A l \in added : l.kind = "other"
          BY <1>0, OtherKind
        <5> QED
          BY <4>1, <4>3, <5>1 DEF OthersIn
      <4>5. OthersIn(known)'
        BY <3>1, <4>3, <4>4 DEF OthersIn
      <4> QED
        BY <3>2, <4>1, <4>2, <4>5 DEF InMerge
    <3>8. MergeInv'
      BY <3>1, <3>7 DEF MergeInv, InMerge
    <3> QED
      BY <3>6, <3>8
  <2> QED
    BY <1>4, <2>1, <2>2, <2>3, <2>4, <2>5, <2>6, <2>7 DEF Enroll
<1>5. ASSUME NEW p \in Procs, Kill(p) PROVE KnownInv' /\ MergeInv'
  <2>1. Finish(p) /\ spoiled' = (spoiled \/ pc[p] = "write")
        /\ UNCHANGED <<known, edits, added, mixed>>
    BY <1>5 DEF Kill
  <2>2. Calm
    BY <1>0, <2>1, FinishTypes DEF Calm
  <2> QED
    BY <1>0, <2>2, CalmStep
<1>6. ASSUME NEW l \in Others, AppendLine(l) PROVE KnownInv' /\ MergeInv'
  <2>1. /\ l \notin added /\ added' = added \cup {l} /\ known' = Append(known, l)
        /\ spoiled' = (spoiled \/ \E p \in Procs : InMerge(p))
        /\ UNCHANGED <<pc, lines, edits, mixed>>
    BY <1>6 DEF AppendLine
  <2>2. ASSUME ~mixed, edits = 0
        PROVE  /\ Sound(known', added') /\ Single(known')
               /\ \A line \in Members(known) \cup {l} : line \in Members(known')
    BY <1>0, <2>1, <2>2, AppendSound DEF KnownInv
  <2>3. KnownInv'
    <3>1. IsFiniteSet(added')
      BY <1>0, <2>1, FS_AddElement DEF KnownInv
    <3>2. \A p \in Procs : ~mixed /\ edits = 0 /\ InMerge(p) => Sound(lines[p], added')
      BY <1>0, <2>1, SoundGrows DEF KnownInv
    <3> QED
      BY <2>1, <2>2, <3>1, <3>2 DEF KnownInv, InMerge
  <2>4. MergeInv'
    <3>1. ASSUME ~spoiled', edits = 0
          PROVE  ~mixed /\ OthersIn(known)' /\ \A p \in Procs : ~InMerge(p)
      <4>1. ~spoiled /\ ~mixed /\ \A p \in Procs : ~InMerge(p)
        BY <1>0, <2>1, <3>1 DEF MergeInv
      <4>2. OthersIn(known)
        BY <1>0, <3>1, <4>1 DEF MergeInv, InMerge
      <4>3. OthersIn(known)'
        BY <2>1, <2>2, <3>1, <4>1, <4>2 DEF OthersIn
      <4> QED
        BY <4>1, <4>3
    <3> QED
      BY <2>1, <3>1 DEF MergeInv, InMerge
  <2> QED
    BY <2>3, <2>4
<1>7. ASSUME NEW marker \in {BEGIN, END}, BreakBlock(marker)
      PROVE  KnownInv' /\ MergeInv'
  <2>1. edits' # 0 /\ UNCHANGED added
    BY <1>0, <1>7 DEF BreakBlock
  <2> QED
    BY <1>0, <2>1 DEF KnownInv, MergeInv
<1>8. CASE RotateHostCa
  BY <1>0, <1>8, CalmStep DEF RotateHostCa, Calm
<1>9. CASE UNCHANGED vars
  BY <1>0, <1>9, CalmStep DEF vars, Calm
<1> QED
  BY <1>0, <1>1, <1>2, <1>3, <1>4, <1>5, <1>6, <1>7, <1>8, <1>9, AddedLines DEF Next

LEMMA TrustHolds == Spec => []TrustInv
<1>1. Init => TrustInv
  BY TypeInit, TrustInit DEF TrustInv
<1>2. TrustInv /\ [Next]_vars => TrustInv'
  BY TypeStep, TrustStep DEF TrustInv
<1> QED
  BY <1>1, <1>2, PTL DEF Spec

(***************************************************************************)
(* Whatever has been merged and however often, every line the user's ssh   *)
(* or the installer has added is in known_hosts, once: unless two programs *)
(* worked on the file at the same time, one was killed over the truncated  *)
(* file, or a marker was deleted.                                          *)
(***************************************************************************)
THEOREM LinesSurvive == Spec => []LinesKept
<1>1. TrustInv => LinesKept
  <2> SUFFICES ASSUME TrustInv, ~spoiled, edits = 0,
                      \A p \in Procs : pc[p] # "write", NEW l \in added
               PROVE  Cardinality(Occurrences(l)) = 1
    BY DEF LinesKept
  <2>1. Sound(known, added) /\ OthersIn(known)
    BY DEF TrustInv, KnownInv, MergeInv
  <2>2. PICK i \in DOMAIN known : known[i] = l
    BY <2>1 DEF OthersIn, Members
  <2>3. l.kind = "other"
    BY OtherKind DEF TrustInv, TypeInv, TypeOK
  <2>4. \A j \in DOMAIN known : known[j] = l => j = i
    BY <2>1, <2>2, <2>3 DEF Sound, OthersOnce
  <2>5. Occurrences(l) = {i}
    BY <2>2, <2>4 DEF Occurrences
  <2> QED
    BY <2>5, FS_Singleton
<1> QED
  BY <1>1, TrustHolds, PTL

(***************************************************************************)
(* However installs overlap or are killed, as long as no process writes    *)
(* into another's text and no marker is deleted, known_hosts has one       *)
(* managed block at most, with all authorities of the client in it, of one *)
(* CA: an old CA is gone from the block once one with a new CA has         *)
(* replaced it.  The lines of others, the installer's authorities among    *)
(* them, stand outside the block, where no install touches them.           *)
(***************************************************************************)
THEOREM BlockStaysSingle == Spec => []OneBlock
<1>1. TrustInv => OneBlock
  <2> SUFFICES ASSUME TrustInv, ~mixed, edits = 0
               PROVE  /\ Cardinality(Occurrences(BEGIN)) = Cardinality(Occurrences(END))
                      /\ Cardinality(Occurrences(BEGIN)) <= 1
                      /\ \A i, j \in DOMAIN known :
                            known[i].kind = "ca" /\ known[j].kind = "ca" =>
                                Skipped(known, i) /\ known[i].ca = known[j].ca
                      /\ \A i \in DOMAIN known :
                            known[i].kind = "other" => known[i] \in added /\ ~Skipped(known, i)
    BY DEF OneBlock
  <2>1. AuthoritiesInside(known) /\ OthersOutside(known, added) /\ Single(known)
    BY DEF TrustInv, KnownInv, Sound
  <2>2. \A i \in DOMAIN known : /\ known[i] = BEGIN <=> known[i].kind = "begin"
                                /\ known[i] = END <=> known[i].kind = "end"
    <3>1. \A i \in DOMAIN known : known[i] \in Line
      BY DEF TrustInv, TypeInv, TypeOK
    <3> QED
      BY <3>1, LineFacts
  <2>3. CASE Bare(known)
    <3>1. Occurrences(BEGIN) = {} /\ Occurrences(END) = {}
      BY <2>2, <2>3 DEF Bare, Occurrences
    <3>2. Cardinality(Occurrences(BEGIN)) = 0 /\ Cardinality(Occurrences(END)) = 0
      BY <3>1, FS_EmptySet
    <3> QED
      BY <2>1, <2>3, <3>2 DEF Bare, OthersOutside
  <2>4. ASSUME NEW b \in DOMAIN known, NEW e \in DOMAIN known, NEW k, BlockAt(known, b, e, k)
        PROVE  /\ Cardinality(Occurrences(BEGIN)) = 1 /\ Cardinality(Occurrences(END)) = 1
               /\ \A i \in DOMAIN known : known[i].kind = "ca" => known[i].ca = k
    <3>1. Occurrences(BEGIN) = {b} /\ Occurrences(END) = {e}
      BY <2>2, <2>4 DEF BlockAt, Occurrences
    <3>2. Cardinality(Occurrences(BEGIN)) = 1 /\ Cardinality(Occurrences(END)) = 1
      BY <3>1, FS_Singleton
    <3> QED
      BY <2>4, <3>2 DEF BlockAt
  <2>5. CASE \E b, e \in DOMAIN known : \E k : BlockAt(known, b, e, k)
    <3>1. PICK b, e \in DOMAIN known : \E k : BlockAt(known, b, e, k)
      BY <2>5
    <3>2. PICK k : BlockAt(known, b, e, k)
      BY <3>1
    <3>3. /\ Cardinality(Occurrences(BEGIN)) = 1 /\ Cardinality(Occurrences(END)) = 1
          /\ \A i \in DOMAIN known : known[i].kind = "ca" => known[i].ca = k
      BY <2>4, <3>2
    <3> QED
      BY <2>1, <3>3 DEF AuthoritiesInside, OthersOutside
  <2> QED
    BY <2>1, <2>3, <2>5 DEF Single
<1> QED
  BY <1>1, TrustHolds, PTL

(***************************************************************************)
(* known_hosts does not grow with the number of merges: a blank line       *)
(* stands under a line of others, another one under each, so there are no  *)
(* more blank lines than lines of others, as long as nobody writes into    *)
(* another's text and no marker is deleted.                                *)
(***************************************************************************)
THEOREM FileStaysSmall == Spec => []StaysSmall
<1>1. TrustInv => StaysSmall
  <2> SUFFICES ASSUME TrustInv, ~mixed, edits = 0
               PROVE  Cardinality(Occurrences(Blank)) <= Cardinality(added)
    BY DEF StaysSmall
  <2> DEFINE B == Occurrences(Blank)
             above == [i \in B |-> known[i - 1]]
  <2>1. /\ OthersOutside(known, added) /\ OthersOnce(known) /\ BlanksAfterOthers(known)
        /\ IsFiniteSet(added)
        /\ known \in Seq(Line)
    BY DEF TrustInv, TypeInv, TypeOK, KnownInv, Sound
  <2>2. \A i \in B : /\ i \in Nat /\ i - 1 \in DOMAIN known
                     /\ known[i - 1].kind = "other" /\ known[i - 1] \in added
    BY <2>1 DEF Occurrences, BlanksAfterOthers, OtherBefore, OthersOutside
  <2>3. \A i, j \in B : known[i - 1] = known[j - 1] => i = j
    <3> SUFFICES ASSUME NEW i \in B, NEW j \in B, known[i - 1] = known[j - 1]
                 PROVE  i = j
      OBVIOUS
    <3>1. i - 1 = j - 1
      BY <2>1, <2>2 DEF OthersOnce
    <3> QED
      BY <2>2, <3>1
  <2>4. above \in Injection(B, added)
    <3>1. above \in [B -> added]
      BY <2>2
    <3>2. \A i, j \in B : above[i] = above[j] => i = j
      BY <2>3
    <3> QED
      BY <3>1, <3>2 DEF Injection, IsInjective
  <2> QED
    BY <2>1, <2>4, FS_Injection
<1> QED
  BY <1>1, TrustHolds, PTL

-----------------------------------------------------------------------------
(***************************************************************************)
(* What an install is for, and the step that TrustFollowsCa rests on: when *)
(* a merge is through, the CA it has fetched is trusted for every pattern  *)
(* of its bundle, whatever it found in known_hosts, be it mixed, broken or *)
(* without a marker, and whatever others have written meanwhile.           *)
(***************************************************************************)
MergeInstalls ==
    [][\A p \in Procs : WriteKnownHosts(p) =>
          \A x \in Members(bundle[p].host_patterns) :
              Authority(x, ca[p]) \in Members(known')]_vars

LEMMA RebuildInstalls ==
    ASSUME NEW list \in Seq(Line), NEW b \in Bundles, NEW k \in 1..(MaxEvents + 1),
           NEW x \in Members(b.host_patterns)
    PROVE  Authority(x, k) \in Members(Rebuild(list, b.host_patterns, k))
<1> DEFINE P == b.host_patterns
           c == Authorities(P, k)
<1>1. PICK n, g, m, new : /\ n = Len(Kept(list)) /\ g = Len(Gap(list)) /\ m = Len(c)
                          /\ new = Rebuild(list, P, k)
  OBVIOUS
<1>2. P \in Seq(Members(P)) /\ DOMAIN P = 1..Len(P) /\ Len(P) \in Nat
  OBVIOUS
<1>3. c \in Seq(Line) /\ Len(c) = Len(P)
  <2>1. \A i \in 1..Len(P) : P[i] \in Members(P)
    BY <1>2
  <2>2. c \in [1..Len(P) -> Line]
    BY <1>2, <2>1, LineMembers DEF Authorities
  <2> QED
    BY <1>2, <2>2
<1>4. Placed(new, Kept(list), Gap(list), c, n, g, m)
  <2>1. new = Parts(Kept(list), Gap(list), c)
    BY <1>1, RebuildIs DEF Managed, Authorities, Parts
  <2> HIDE DEF c
  <2> QED
    BY <1>1, <1>3, <2>1, KeptType, GapFacts, PartsShape
<1>5. PICK i \in 1..Len(P) : P[i] = x
  BY <1>2 DEF Members
<1>6. c[i] = Authority(x, k) /\ i \in 1..m
  BY <1>1, <1>2, <1>3, <1>5 DEF Authorities
<1> HIDE DEF c
<1>7. /\ n \in Nat /\ g \in Nat /\ m \in Nat /\ DOMAIN new = 1..(n + g + m + 2)
      /\ new[n + g + 1 + i] = c[i]
  BY <1>4, <1>6 DEF Placed
<1>8. n + g + 1 + i \in DOMAIN new
  BY <1>6, <1>7
<1> QED
  BY <1>1, <1>6, <1>7, <1>8 DEF Members

LEMMA OverwriteMembers ==
    ASSUME NEW T, NEW old \in Seq(T), NEW new \in Seq(T)
    PROVE  Members(new) \subseteq Members(Overwrite(old, new))
<1> DEFINE tail == SubSeq(old, Len(new) + 1, Len(old))
<1>1. tail \in Seq(T)
  OBVIOUS
<1> HIDE DEF tail
<1>2. /\ new \o tail \in Seq(T) /\ DOMAIN new = 1..Len(new)
      /\ \A i \in DOMAIN new : i \in DOMAIN (new \o tail) /\ (new \o tail)[i] = new[i]
  BY <1>1
<1>3. Members(new) \subseteq Members(new \o tail)
  BY <1>2 DEF Members
<1> QED
  BY <1>3 DEF Overwrite, tail

(***************************************************************************)
(* Every merge that comes to its end installs the CA it has fetched, from  *)
(* any state the file can be in: needs the types only.                     *)
(***************************************************************************)
THEOREM EveryMergeInstalls == Spec => MergeInstalls
<1>1. TypeInv /\ [Next]_vars =>
        [\A p \in Procs : WriteKnownHosts(p) =>
            \A x \in Members(bundle[p].host_patterns) :
                Authority(x, ca[p]) \in Members(known')]_vars
  <2> SUFFICES ASSUME TypeInv, NEW p \in Procs, WriteKnownHosts(p),
                      NEW x \in Members(bundle[p].host_patterns)
               PROVE  Authority(x, ca[p]) \in Members(known')
    OBVIOUS
  <2> DEFINE new == Rebuild(lines[p], bundle[p].host_patterns, ca[p])
  <2>1. /\ bundle[p] \in Bundles /\ ca[p] \in 1..(MaxEvents + 1)
        /\ lines[p] \in Seq(Line) /\ known \in Seq(Line)
    BY DEF WriteKnownHosts, TypeInv, TypeOK, InHand
  <2>2. Authority(x, ca[p]) \in Members(new)
    BY <2>1, RebuildInstalls
  <2>3. new \in Seq(Line)
    BY <2>1, RebuildType
  <2>4. known' = Overwrite(known, new)
    BY DEF WriteKnownHosts
  <2> HIDE DEF new
  <2> QED
    BY <2>1, <2>2, <2>3, <2>4, OverwriteMembers
<1> QED
  BY <1>1, TypeInit, TypeStep, PTL DEF Spec, MergeInstalls
=============================================================================
