----------------------------- MODULE ClientTrust -----------------------------
(***************************************************************************)
(* What the zfcssh client trusts and is known by: the bundle that          *)
(* "zfcssh bundle import" takes apart into the files of ~/.config/zfcssh,  *)
(* and the host CA that every enrollment writes to zfcssh_host_ca.pub and  *)
(* merges into ~/.ssh/known_hosts (bundle.py, certificates.py:66-95).      *)
(* known_hosts is shared with other enrollments, with the user's own ssh   *)
(* and scripts/install_client_endpoint.sh, which append lines, and with    *)
(* the user's editor; nothing locks it.                                    *)
(***************************************************************************)
EXTENDS Lists

CONSTANTS
    Bundles,    \* bundles: [id, withCa, sshValid, host_patterns]
    Procs,      \* processes of the client that enroll
    Importers,  \* those of them that import bundles as well
    Hosts,      \* host keys the user's own ssh adds to known_hosts
    Patterns,   \* values of HOST_PATTERN install_client_endpoint.sh is run with
    MaxAdded,   \* bound: lines others add to known_hosts
    MaxEvents,  \* bound: rotations of the broker's host CA, killed processes
                \* and markers deleted by hand, taken together
    Absent,     \* the file does not exist
    Torn        \* the file is there but truncated

ASSUME TrustAssumption ==
    /\ Importers \subseteq Procs
    /\ MaxAdded \in Nat /\ MaxEvents \in Nat
    /\ \A b \in Bundles : /\ b.host_patterns # <<>>
                          /\ b.host_patterns \in Seq(Members(b.host_patterns))
    /\ Absent \notin Bundles \cup {Torn} /\ Torn \notin Bundles

VARIABLES
    pc,         \* [Procs -> stage of the command]
    bundle,     \* [Procs -> the bundle being imported, or loaded]
    ca,         \* [Procs -> the host CA it has fetched]
    lines,      \* [Procs -> existing_lines of install_host_ca]
    disk,       \* [client_crt, client_key, ca_crt, metadata, host_ca]
    known,      \* the lines of known_hosts; none if it does not exist
    brokerCa,   \* the broker's host CA
    added,      \* lines others have added: the user's ssh, the installer
    kills, edits,
    crossed,    \* processes whose import has met another one
    broken,     \* an import has ended early, or has met another one, since
                \* the last complete one that ran alone
    spoiled,    \* two programs have worked on known_hosts at the same time,
                \* or one was killed while the file was truncated
    mixed       \* a process wrote into what another had just written

files == <<disk, known>>
locals == <<bundle, ca, lines>>
bounds == <<kills, edits, added, brokerCa>>
flags == <<crossed, broken, spoiled, mixed>>
vars == <<pc, locals, files, bounds, flags>>

-----------------------------------------------------------------------------
(***************************************************************************)
(* known_hosts as lines.                                                   *)
(***************************************************************************)
BEGIN == [kind |-> "begin"]
END == [kind |-> "end"]
Blank == [kind |-> "blank"]
Authority(pattern, k) == [kind |-> "ca", pattern |-> pattern, ca |-> k]

\* Lines of others.  Pinned is what the installer writes: an authority as well,
\* but not one of the client's; nothing in the code tells the two texts apart
\* but the block they stand in.
Host(h) == [kind |-> "other", host |-> h]
Pinned(pattern, k) == [kind |-> "other", pattern |-> pattern, ca |-> k]

Last(list) == list[Len(list)]

\* The flag skip of install_host_ca, when it comes to line i.
Skipped(list, i) ==
    \E j \in 1..(i - 1) : /\ list[j] = BEGIN
                          /\ \A k \in (j + 1)..(i - 1) : list[k] # END

\* Mutant: only the markers go, the authorities between them stay.
Kept_Authorities(list) ==
    Pick(list, {i \in DOMAIN list : list[i] \notin {BEGIN, END}})

Kept(list) ==
    Pick(list, {i \in DOMAIN list : list[i] \notin {BEGIN, END}
                                    /\ ~Skipped(list, i)})

Managed(patterns, k) ==
    <<BEGIN>> \o [i \in DOMAIN patterns |-> Authority(patterns[i], k)] \o <<END>>

\* Mutant: a blank line is put before the managed block every time.
Rebuild_Blank(list, patterns, k) == Kept(list) \o <<Blank>> \o Managed(patterns, k)

\* Mutant: what stands behind the managed block is dropped with it.
Rebuild_Tail(list, patterns, k) ==
    Pick(list, {i \in DOMAIN list : ~Skipped(list, i) /\
                   \A j \in DOMAIN list : list[j] = BEGIN => i < j})
        \o Managed(patterns, k)

Rebuild(list, patterns, k) ==
    LET kept == Kept(list)
        gap == IF kept # <<>> /\ Last(kept) # Blank THEN <<Blank>> ELSE <<>>
    IN  kept \o gap \o Managed(patterns, k)

\* write_text starts at the top of what is in the file by then.
Overwrite(old, new) ==
    new \o SubSeq(old, Len(new) + 1, Len(old))

-----------------------------------------------------------------------------
Init ==
    /\ pc = [p \in Procs |-> "idle"]
    /\ bundle = [p \in Procs |-> Absent]
    /\ ca = [p \in Procs |-> Absent]
    /\ lines = [p \in Procs |-> <<>>]
    /\ disk = [client_crt |-> Absent, client_key |-> Absent, ca_crt |-> Absent,
               metadata |-> Absent, host_ca |-> Absent]
    /\ known = <<>>
    /\ brokerCa = 1 /\ added = {} /\ kills = 0 /\ edits = 0
    /\ crossed = {} /\ broken = FALSE /\ spoiled = FALSE /\ mixed = FALSE

Goto(p, stage) == pc' = [pc EXCEPT ![p] = stage]

\* The command returns, or an exception ends it.
Finish(p) ==
    /\ Goto(p, "idle")
    /\ bundle' = [bundle EXCEPT ![p] = Absent]
    /\ ca' = [ca EXCEPT ![p] = Absent]
    /\ lines' = [lines EXCEPT ![p] = <<>>]

Write(file, content) == disk' = [disk EXCEPT ![file] = content]

-----------------------------------------------------------------------------
(***************************************************************************)
(* import_bundle.                                                          *)
(***************************************************************************)
Importing(p) == pc[p] \in {"crt", "key", "ca", "meta"}

\* p and the imports it meets, if it meets any.
Meeting(p) ==
    LET others == {q \in Procs \ {p} : Importing(q)}
    IN  IF others = {} THEN {} ELSE others \cup {p}

StartImport(p, b) ==
    /\ pc[p] = "idle" /\ p \in Importers
    /\ bundle' = [bundle EXCEPT ![p] = b]
    /\ crossed' = crossed \cup Meeting(p)
    /\ Goto(p, "crt")
    /\ UNCHANGED <<ca, lines, files, bounds, broken, spoiled, mixed>>

\* BundleError, or a file the bundle names cannot be read: nothing is written.
RefuseBundle(p) ==
    /\ pc[p] = "crt"
    /\ crossed' = crossed \ {p}
    /\ Finish(p)
    /\ UNCHANGED <<files, bounds, broken, spoiled, mixed>>

WriteClientCertificate(p) ==
    /\ pc[p] = "crt"
    /\ Write("client_crt", bundle[p])
    /\ Goto(p, "key")
    /\ UNCHANGED <<locals, known, bounds, flags>>

\* Mutant: a key that is already there is left alone.
WriteClientKey_Once(p) ==
    /\ pc[p] = "key"
    /\ IF disk.client_key = Absent THEN Write("client_key", bundle[p])
                                   ELSE UNCHANGED disk
    /\ Goto(p, "ca")
    /\ UNCHANGED <<locals, known, bounds, flags>>

WriteClientKey(p) ==
    /\ pc[p] = "key"
    /\ Write("client_key", bundle[p])
    /\ Goto(p, "ca")
    /\ UNCHANGED <<locals, known, bounds, flags>>

WriteOrUnlinkCa(p) ==
    /\ pc[p] = "ca"
    /\ Write("ca_crt", IF bundle[p].withCa THEN bundle[p] ELSE Absent)
    /\ Goto(p, "meta")
    /\ UNCHANGED <<locals, known, bounds, flags>>

\* The sections ssh and identity are only looked at now.
RefuseSshSection(p) ==
    /\ pc[p] = "meta" /\ ~bundle[p].sshValid
    /\ broken' = TRUE
    /\ crossed' = crossed \ {p}
    /\ Finish(p)
    /\ UNCHANGED <<files, bounds, spoiled, mixed>>

\* Mutant: metadata that are already there are left alone.
WriteMetadata_Once(p) ==
    /\ pc[p] = "meta" /\ bundle[p].sshValid
    /\ IF disk.metadata = Absent THEN Write("metadata", bundle[p])
                                 ELSE UNCHANGED disk
    /\ broken' = (p \in crossed)
    /\ crossed' = crossed \ {p}
    /\ Finish(p)
    /\ UNCHANGED <<known, bounds, spoiled, mixed>>

WriteMetadata(p) ==
    /\ pc[p] = "meta" /\ bundle[p].sshValid
    /\ Write("metadata", bundle[p])
    /\ broken' = (p \in crossed)
    /\ crossed' = crossed \ {p}
    /\ Finish(p)
    /\ UNCHANGED <<known, bounds, spoiled, mixed>>

-----------------------------------------------------------------------------
(***************************************************************************)
(* _enroll up to the installed host CA.  load_installed_bundle and the TLS *)
(* context need readable files, and a client key that fits.                *)
(***************************************************************************)
StartEnroll(p) ==
    /\ pc[p] = "idle"
    /\ Goto(p, "load")
    /\ UNCHANGED <<locals, files, bounds, flags>>

\* Mutant: a file that is there is taken for metadata, whatever it holds.
LoadBundle_Unchecked(p) ==
    /\ pc[p] = "load" /\ disk.metadata # Absent
    /\ bundle' = [bundle EXCEPT ![p] = disk.metadata]
    /\ Goto(p, "fetch")
    /\ UNCHANGED <<ca, lines, files, bounds, flags>>

LoadBundle(p) ==
    /\ pc[p] = "load" /\ disk.metadata \in Bundles
    /\ bundle' = [bundle EXCEPT ![p] = disk.metadata]
    /\ Goto(p, "fetch")
    /\ UNCHANGED <<ca, lines, files, bounds, flags>>

ContextOK(p) ==
    /\ disk.client_crt \in Bundles /\ disk.client_key = disk.client_crt
    /\ bundle[p].withCa => disk.ca_crt # Torn

FetchHostCa(p) ==
    /\ pc[p] = "fetch" /\ ContextOK(p)
    /\ ca' = [ca EXCEPT ![p] = brokerCa]
    /\ Goto(p, "hostca")
    /\ UNCHANGED <<bundle, lines, files, bounds, flags>>

\* No or torn metadata, no TLS context, or the broker does not answer.
EnrollFails(p) ==
    /\ \/ pc[p] = "load" /\ disk.metadata \notin Bundles
       \/ pc[p] = "fetch"
    /\ Finish(p)
    /\ UNCHANGED <<files, bounds, flags>>

WriteHostCa(p) ==
    /\ pc[p] = "hostca"
    /\ Write("host_ca", ca[p])
    /\ Goto(p, "read")
    /\ UNCHANGED <<locals, known, bounds, flags>>

(***************************************************************************)
(* The merge: read, then truncate, then write.                             *)
(***************************************************************************)
InMerge(p) == pc[p] \in {"truncate", "write"}
Alone(p) == \A q \in Procs \ {p} : ~InMerge(q)

\* Mutant: a file that has a managed block already is left alone.
ReadKnownHosts_Once(p) ==
    /\ pc[p] = "read"
    /\ IF BEGIN \in Members(known)
       THEN Finish(p) /\ UNCHANGED spoiled
       ELSE /\ lines' = [lines EXCEPT ![p] = known]
            /\ spoiled' = (spoiled \/ ~Alone(p))
            /\ Goto(p, "truncate")
            /\ UNCHANGED <<bundle, ca>>
    /\ UNCHANGED <<files, bounds, crossed, broken, mixed>>

\* Bound: after one write into another's no more programs work on the file
\* at the same time, or it would grow with each of them.
ReadKnownHosts(p) ==
    /\ pc[p] = "read"
    /\ mixed => Alone(p)
    /\ lines' = [lines EXCEPT ![p] = known]
    /\ spoiled' = (spoiled \/ ~Alone(p))
    /\ Goto(p, "truncate")
    /\ UNCHANGED <<bundle, ca, files, bounds, crossed, broken, mixed>>

TruncateKnownHosts(p) ==
    /\ pc[p] = "truncate"
    /\ known' = <<>>
    /\ Goto(p, "write")
    /\ UNCHANGED <<locals, disk, bounds, flags>>

WriteKnownHosts(p) ==
    /\ pc[p] = "write"
    /\ known' = Overwrite(known, Rebuild(lines[p], bundle[p].host_patterns, ca[p]))
    /\ mixed' = (mixed \/ known # <<>>)
    /\ Finish(p)
    /\ UNCHANGED <<disk, bounds, crossed, broken, spoiled>>

-----------------------------------------------------------------------------
(***************************************************************************)
(* The environment.                                                        *)
(***************************************************************************)
Events == kills + edits + (brokerCa - 1)

RotateHostCa ==
    /\ Events < MaxEvents
    /\ brokerCa' = brokerCa + 1
    /\ UNCHANGED <<pc, locals, files, kills, edits, added, flags>>

\* A line is appended at the end of the file.  Bound: each line only once.
AppendLine(l) ==
    /\ Cardinality(added) < MaxAdded /\ l \notin added
    /\ mixed => \A p \in Procs : ~InMerge(p)
    /\ known' = Append(known, l)
    /\ added' = added \cup {l}
    /\ spoiled' = (spoiled \/ \E p \in Procs : InMerge(p))
    /\ UNCHANGED <<pc, locals, disk, kills, edits, brokerCa, crossed, broken, mixed>>

\* The user's own ssh meets a new host.
AddHost(h) ==
    AppendLine(Host(h))

\* install_client_endpoint.sh appends the host CA it has fetched before.  Its
\* grep reads the pattern as a regular expression and does not find "*.plant"
\* in a line that has it; with a pattern it finds, the script does nothing.
InstallEndpoint(x) ==
    \E k \in 1..brokerCa : AppendLine(Pinned(x, k))

\* The user deletes one of the two markers.
BreakBlock(marker) ==
    /\ Events < MaxEvents
    /\ marker \in Members(known)
    /\ known' = Pick(known, {i \in DOMAIN known : known[i] # marker})
    /\ edits' = edits + 1
    /\ spoiled' = (spoiled \/ \E p \in Procs : InMerge(p))
    /\ UNCHANGED <<pc, locals, disk, kills, added, brokerCa, crossed, broken, mixed>>

\* The file a killed process may leave truncated.
OpenFile(p) ==
    CASE pc[p] = "crt" -> "client_crt"
      [] pc[p] = "key" -> "client_key"
      [] pc[p] = "ca" -> "ca_crt"
      [] pc[p] = "meta" -> "metadata"
      [] pc[p] = "hostca" -> "host_ca"

MayTear(p) ==
    \/ pc[p] \in {"crt", "key", "hostca"}
    \/ pc[p] = "ca" /\ bundle[p].withCa
    \/ pc[p] = "meta" /\ bundle[p].sshValid

Kill(p) ==
    /\ Events < MaxEvents /\ pc[p] # "idle"
    /\ kills' = kills + 1
    /\ \/ UNCHANGED disk
       \/ MayTear(p) /\ Write(OpenFile(p), Torn)
    /\ broken' = (broken \/ Importing(p))
    /\ crossed' = crossed \ {p}
    /\ spoiled' = (spoiled \/ pc[p] = "write")
    /\ Finish(p)
    /\ UNCHANGED <<known, edits, added, brokerCa, mixed>>

Import(p) ==
    \/ RefuseBundle(p) \/ WriteClientCertificate(p) \/ WriteClientKey(p)
    \/ WriteOrUnlinkCa(p) \/ RefuseSshSection(p) \/ WriteMetadata(p)

Enroll(p) ==
    \/ LoadBundle(p) \/ FetchHostCa(p) \/ EnrollFails(p) \/ WriteHostCa(p)
    \/ ReadKnownHosts(p) \/ TruncateKnownHosts(p) \/ WriteKnownHosts(p)

Next ==
    \/ \E p \in Procs :
          \/ \E b \in Bundles : StartImport(p, b)
          \/ Import(p) \/ StartEnroll(p) \/ Enroll(p) \/ Kill(p)
    \/ \E h \in Hosts : AddHost(h)
    \/ \E x \in Patterns : InstallEndpoint(x)
    \/ \E marker \in {BEGIN, END} : BreakBlock(marker)
    \/ RotateHostCa

Spec == Init /\ [][Next]_vars

(***************************************************************************)
(* Fairness: a started command runs on; a call made again and again is     *)
(* answered in the end, and the files a bundle names can be read in the    *)
(* end; every process enrolls again and again, as the timer's renewals do. *)
(***************************************************************************)
FairSpec ==
    /\ Spec
    /\ \A p \in Procs : /\ WF_vars(Import(p) \/ Enroll(p))
                        /\ SF_vars(FetchHostCa(p))
                        /\ SF_vars(StartEnroll(p))
    /\ \A p \in Importers : SF_vars(WriteClientCertificate(p))

-----------------------------------------------------------------------------
Stages == {"idle", "crt", "key", "ca", "meta", "load", "fetch", "hostca", "read",
           "truncate", "write"}

Others == {Host(h) : h \in Hosts}
             \cup {Pinned(x, k) : x \in Patterns, k \in 1..(MaxEvents + 1)}

Line ==
    {BEGIN, END, Blank} \cup Others
    \cup {Authority(x, k) : x \in UNION {Members(b.host_patterns) : b \in Bundles},
                            k \in 1..(MaxEvents + 1)}

TypeOK ==
    /\ pc \in [Procs -> Stages]
    /\ bundle \in [Procs -> Bundles \cup {Absent}]
    /\ ca \in [Procs -> 1..(MaxEvents + 1) \cup {Absent}]
    /\ \A p \in Procs : Importing(p) => p \in Importers
    /\ {disk.client_crt, disk.client_key, disk.ca_crt, disk.metadata}
          \subseteq Bundles \cup {Absent, Torn}
    /\ disk.host_ca \in 1..(MaxEvents + 1) \cup {Absent, Torn}
    /\ brokerCa \in 1..(MaxEvents + 1) /\ added \subseteq Others /\ crossed \subseteq Procs
    /\ known \in Seq(Line) /\ lines \in [Procs -> Seq(Line)]
    /\ kills \in 0..MaxEvents /\ edits \in 0..MaxEvents

Writing(p) == pc[p] \in {"key", "ca", "meta"}

\* The files in the mtls directory are those of the bundle in the metadata.
MtlsFits ==
    /\ disk.metadata \in Bundles
    /\ disk.client_crt = disk.metadata /\ disk.client_key = disk.metadata
    /\ disk.ca_crt = IF disk.metadata.withCa THEN disk.metadata ELSE Absent

(***************************************************************************)
(* One bundle after another is imported, by one process or by several,     *)
(* some refused at once, some half way, some killed: unless an import is   *)
(* under way, or one has ended early or has met another one since the last *)
(* complete one that ran alone, what the client shows the broker, key,     *)
(* certificate and CA, belongs to the bundle its metadata are from.        *)
(***************************************************************************)
BundleFits ==
    ~broken /\ (\A p \in Procs : ~Writing(p)) => MtlsFits \/ disk.metadata = Absent

(***************************************************************************)
(* Enrollments come and go every quarter of an hour, lines are added, the  *)
(* CA and the bundle change: unless two programs worked on known_hosts at  *)
(* the same time, one was killed over it, or the block was edited, every   *)
(* line the user's ssh or the installer has added is still there once.     *)
(***************************************************************************)
Occurrences(l) == {i \in DOMAIN known : known[i] = l}

LinesKept ==
    ~spoiled /\ edits = 0 /\ (\A p \in Procs : pc[p] # "write") =>
        \A l \in added : Cardinality(Occurrences(l)) = 1

(***************************************************************************)
(* However installs overlap or are killed, as long as no two write at the  *)
(* same time and no marker is deleted: there is one managed block at most, *)
(* with all authorities the client has installed in it, and of one CA, so  *)
(* that an old CA goes out of the block as a whole.  What others have      *)
(* added stands outside, the authorities of install_client_endpoint.sh     *)
(* among it: the CA they name stays trusted when the block has a new one.  *)
(***************************************************************************)
OneBlock ==
    ~mixed /\ edits = 0 =>
        /\ Cardinality(Occurrences(BEGIN)) = Cardinality(Occurrences(END))
        /\ Cardinality(Occurrences(BEGIN)) <= 1
        /\ \A i, j \in DOMAIN known :
              known[i].kind = "ca" /\ known[j].kind = "ca" =>
                  Skipped(known, i) /\ known[i].ca = known[j].ca
        /\ \A i \in DOMAIN known :
              known[i].kind = "other" => known[i] \in added /\ ~Skipped(known, i)

(***************************************************************************)
(* The file does not grow with the number of renewals: there are no more   *)
(* blank lines than lines others have added.                               *)
(***************************************************************************)
StaysSmall ==
    ~mixed /\ edits = 0 =>
        Cardinality(Occurrences(Blank)) <= Cardinality(added)

(***************************************************************************)
(* The broker's CA is rotated, a slower process installs the old one over  *)
(* the new one, files are torn or mixed, markers deleted: as long as the   *)
(* imported bundle is whole, the client comes back to trusting the current *)
(* CA, in the managed block, for every pattern of the bundle.              *)
(***************************************************************************)
TrustsCurrent ==
    /\ disk.host_ca = brokerCa
    /\ disk.metadata \in Bundles
    /\ \A pattern \in Members(disk.metadata.host_patterns) :
          Authority(pattern, brokerCa) \in Members(known)

TrustFollowsCa == <>[]MtlsFits => []<>TrustsCurrent

(***************************************************************************)
(* If in the end one valid bundle is the only one that is imported, and is *)
(* again and again, the client has the files of that bundle, whatever      *)
(* refused, killed and overlapping imports have left behind.               *)
(***************************************************************************)
ImportRecovers ==
    \A b \in {c \in Bundles : c.sshValid} :
        (\E p \in Procs : []<>(pc[p] = "crt"))
          /\ <>[](\A p \in Procs : Importing(p) => bundle[p] = b)
            => []<>(MtlsFits /\ disk.metadata = b)
=============================================================================
