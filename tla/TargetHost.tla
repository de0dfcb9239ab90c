----------------------------- MODULE TargetHost -----------------------------
(***************************************************************************)
(* A target host: sshd admits logins through AuthorizedPrincipalsCommand,  *)
(* and ssh_session_enforcer.sh, started by its timer, terminates sessions  *)
(* whose certificate has expired.                                          *)
(*                                                                         *)
(* A tick is the 5 seconds the script sleeps between HUP and TERM; what it *)
(* does besides takes no time on that scale.  Time is relative: a session  *)
(* carries the ticks its certificate is still valid, below zero the ticks  *)
(* it is overdue.                                                          *)
(***************************************************************************)
EXTENDS AuthorizedPrincipals, Integers

CONSTANTS
    Pids,           \* process numbers the sessions use
    Users, Keys,    \* who logs in with what
    Lives,          \* ticks a certificate may still be valid at login
    StageFiles,     \* contents of allowed_lifecycle_stages, or NoFile
    Period,         \* OnBootSec, OnUnitActiveSec, in ticks
    Accuracy,       \* AccuracySec, in ticks
    MaxFailed,      \* bound: passes in a row that end early
    MaxOverdue,     \* bound: overdue ticks are counted up to here
    None            \* no process, no target

ASSUME HostAssumption ==
    /\ Pids \subseteq Nat /\ IsFiniteSet(Pids) /\ None \notin Pids
    /\ Lives \subseteq Nat \ {0}
    /\ Period \in Nat \ {0} /\ Accuracy \in Nat
    /\ MaxFailed \in Nat /\ MaxOverdue \in Nat

ASSUME KeyAssumption == \A key \in Keys : IsNameList(key.principals)

\* A process under a pid: a session by certificate, with or without an
\* expiry; a session without a readable certificate; anything but a session.
Kinds == {"cert", "forever", "plain", "other"}

ASSUME ProcessAssumption == None \notin [kind : Kinds, left : Int]

VARIABLES
    proc,       \* [Pids -> the process that has the number, or None]
    stages,     \* the allowed_lifecycle_stages file
    stage,      \* the enforcer: "idle", "loop", "hup", "sleep", "term"
    todo,       \* pids of find_session_pids it has not come to yet
    target,     \* the pid that is to get HUP and TERM
    handedOn,   \* the target's pid has gone to a new process since the
                \* target's certificate was read
    since,      \* ticks since the timer last started the enforcer (or boot)
    failed      \* passes in a row that ended early

host == <<proc, stages>>
pass == <<stage, todo, target>>
vars == <<host, pass, handedOn, since, failed>>

Init ==
    /\ proc = [p \in Pids |-> None]
    /\ stages \in StageFiles
    /\ stage = "idle" /\ todo = {} /\ target = None /\ handedOn = FALSE
    /\ since = 0 /\ failed = 0

-----------------------------------------------------------------------------
(***************************************************************************)
(* sshd and the rest of the host.                                          *)
(***************************************************************************)
Begin(p, kind, left) ==
    /\ proc[p] = None
    /\ proc' = [proc EXCEPT ![p] = [kind |-> kind, left |-> left]]
    /\ handedOn' = (handedOn \/ p = target)
    /\ UNCHANGED <<stages, pass, since, failed>>

\* The stages files under which some key logs in.
OpenFiles ==
    {file \in StageFiles :
        \E user \in Users, key \in Keys : Admits(user, key, file)}

LogIn(p) ==
    /\ stages \in OpenFiles
    /\ \/ \E left \in Lives : Begin(p, "cert", left)
       \/ Begin(p, "forever", 0)

\* By a key of authorized_keys, which the command is not asked about.
PlainLogIn(p) == Begin(p, "plain", 0)

OtherProcess(p) == Begin(p, "other", 0)

Exit(p) ==
    /\ proc[p] # None
    /\ proc' = [proc EXCEPT ![p] = None]
    /\ UNCHANGED <<stages, pass, handedOn, since, failed>>

EditStages ==
    /\ stages' \in StageFiles \ {stages}
    /\ UNCHANGED <<proc, pass, handedOn, since, failed>>

Reboot ==
    /\ proc' = [p \in Pids |-> None]
    /\ stage' = "idle" /\ todo' = {} /\ target' = None /\ handedOn' = FALSE
    /\ since' = 0 /\ failed' = 0
    /\ UNCHANGED stages

-----------------------------------------------------------------------------
(***************************************************************************)
(* The enforcer.  main takes now once, when the pass starts, and compares  *)
(* every expiry with it: expiry <= now is left + since <= 0.               *)
(***************************************************************************)
HasAuthInfo(p) == proc[p] # None /\ proc[p].kind # "other"

\* The timer fires; require_prerequisites passes; find_session_pids.
StartPass ==
    /\ stage = "idle" /\ Period <= since
    /\ stage' = "loop"
    /\ todo' = {p \in Pids : HasAuthInfo(p)}
    /\ since' = 0
    /\ UNCHANGED <<host, target, handedOn, failed>>

\* Mutant: epoch 0, which stands for "forever", is not left out.
ExpiredAtStart_Forever(p) ==
    /\ proc[p] # None /\ proc[p].kind \in {"cert", "forever"}
    /\ proc[p].left + since <= 0

ExpiredAtStart(p) ==
    /\ proc[p] # None /\ proc[p].kind = "cert"
    /\ proc[p].left + since <= 0

\* pgrep lists processes by number.
Current == CHOOSE p \in todo : \A q \in todo : p <= q

\* Mutant: a session without a certificate ends the pass, not its turn.
PassOver_Exits ==
    /\ stage = "loop" /\ todo # {}
    /\ ~ExpiredAtStart(Current)
    /\ todo' = {}
    /\ UNCHANGED <<host, stage, target, handedOn, since, failed>>

\* Gone, no session any more, no certificate, no expiry, or not yet expired.
PassOver ==
    /\ stage = "loop" /\ todo # {}
    /\ ~ExpiredAtStart(Current)
    /\ todo' = todo \ {Current}
    /\ UNCHANGED <<host, stage, target, handedOn, since, failed>>

\* get_cert_from_auth_info to logger: the certificate is read, and expired.
Judge ==
    /\ stage = "loop" /\ todo # {}
    /\ ExpiredAtStart(Current)
    /\ todo' = todo \ {Current}
    /\ target' = Current /\ handedOn' = FALSE
    /\ stage' = "hup"
    /\ UNCHANGED <<host, since, failed>>

\* Mutant: the loop goes on after the HUP without the sleep.
Hup_NoSleep ==
    /\ stage = "hup"
    /\ proc' \in {proc, [proc EXCEPT ![target] = None]}
    /\ stage' = "loop"
    /\ UNCHANGED <<stages, todo, target, handedOn, since, failed>>

\* kill -HUP, which ends what has the pid now or not; then sleep 5.
Hup ==
    /\ stage = "hup"
    /\ proc' \in {proc, [proc EXCEPT ![target] = None]}
    /\ stage' = "sleep"
    /\ UNCHANGED <<stages, todo, target, handedOn, since, failed>>

\* Mutant: TERM is not sent; a session that ignores HUP goes on.
Term_Missing ==
    /\ stage = "term"
    /\ target' = None /\ handedOn' = FALSE
    /\ stage' = "loop"
    /\ UNCHANGED <<host, todo, since, failed>>

\* kill -TERM, to whatever process has the pid now.
Term ==
    /\ stage = "term"
    /\ proc' = [proc EXCEPT ![target] = None]
    /\ target' = None /\ handedOn' = FALSE
    /\ stage' = "loop"
    /\ UNCHANGED <<stages, todo, since, failed>>

EndPass ==
    /\ stage = "loop" /\ todo = {}
    /\ stage' = "idle"
    /\ failed' = 0
    /\ UNCHANGED <<host, todo, target, handedOn, since>>

\* exit 1 of require_prerequisites, before the first session; or set -e when
\* logger fails, on the EXPIRED line, before the HUP, or on the last one.
FailPass ==
    /\ stage \in {"loop", "hup"} /\ failed < MaxFailed
    /\ stage' = "idle" /\ todo' = {}
    /\ target' = None /\ handedOn' = FALSE
    /\ failed' = failed + 1
    /\ UNCHANGED <<host, since>>

Enforcer == StartPass \/ PassOver \/ Judge \/ Hup \/ Term \/ EndPass

(***************************************************************************)
(* Five seconds pass: the timer is at most Accuracy late, and the enforcer *)
(* spends time only in sleep.                                              *)
(***************************************************************************)
Older(q) ==
    IF q # None /\ q.kind = "cert" /\ -MaxOverdue < q.left
    THEN [q EXCEPT !.left = @ - 1] ELSE q

Tick ==
    /\ \/ stage = "idle" /\ since < Period + Accuracy /\ stage' = stage
       \/ stage = "sleep" /\ stage' = "term"
    /\ since' = since + 1
    /\ proc' = [p \in Pids |-> Older(proc[p])]
    /\ UNCHANGED <<stages, todo, target, handedOn, failed>>

Next ==
    \/ \E p \in Pids : LogIn(p) \/ PlainLogIn(p) \/ OtherProcess(p) \/ Exit(p)
    \/ EditStages \/ Reboot
    \/ Enforcer \/ FailPass
    \/ Tick

Spec == Init /\ [][Next]_vars

(***************************************************************************)
(* Fairness: time passes, systemd starts the unit when its timer is due,   *)
(* and the script runs on.                                                 *)
(***************************************************************************)
FairSpec == Spec /\ WF_vars(Tick) /\ WF_vars(Enforcer)

-----------------------------------------------------------------------------
TypeOK ==
    /\ proc \in [Pids -> [kind : Kinds, left : Int] \cup {None}]
    /\ stages \in StageFiles
    /\ stage \in {"idle", "loop", "hup", "sleep", "term"}
    /\ todo \subseteq Pids
    /\ target \in Pids \cup {None}
    /\ target # None <=> stage \in {"hup", "sleep", "term"}
    /\ handedOn \in BOOLEAN
    /\ since \in Nat
    /\ failed \in 0..MaxFailed

\* The longest time from the start of one pass to the start of the next.
LongestGap ==
    IF Period + Accuracy < Cardinality(Pids) THEN Cardinality(Pids)
                                             ELSE Period + Accuracy

Bound == (MaxFailed + 1) * LongestGap + Cardinality(Pids)

(***************************************************************************)
(* docs/specification.md:443: a session is terminated after its            *)
(* certificate has expired.  Although now is taken once per pass, each     *)
(* termination delays the others by 5 s and the timer is late: no session  *)
(* by certificate is ever overdue by the longest gap between passes (one   *)
(* more for each pass that fails) and 5 s for every session there is.      *)
(***************************************************************************)
OverdueBounded ==
    \A p \in Pids :
        proc[p] # None /\ proc[p].kind = "cert" => -proc[p].left < Bound

(***************************************************************************)
(* The enforcer never ends a process that is not a session by an expired   *)
(* certificate, unless the process was given the pid of one after the      *)
(* certificate was read: before its HUP, or in the five seconds between    *)
(* HUP and TERM.                                                           *)
(***************************************************************************)
OnlyExpiredEnded ==
    [][Enforcer =>
         \A p \in Pids :
            proc[p] # None /\ proc'[p] = None =>
                \/ proc[p].kind = "cert" /\ proc[p].left <= 0
                \/ p = target /\ handedOn]_vars

(***************************************************************************)
(* Every session whose certificate expires comes to an end, also when      *)
(* other sessions keep coming and going under the numbers before it.       *)
(***************************************************************************)
Overdue(p) == proc[p] # None /\ proc[p].kind = "cert" /\ proc[p].left <= 0

ExpiredSessionsEnd == \A p \in Pids : Overdue(p) ~> ~Overdue(p)

(***************************************************************************)
(* Whatever the administrator makes of the stages file, the command lets   *)
(* no user log in without a principal and an allowed stage, and departs    *)
(* from G-02 of docs/specification.md only where a capital name hides a    *)
(* principal that G-02 asks about.  A missing file refuses everybody, as   *)
(* G-07 has it; docs/allowed_lifecycle_stages.example:10 says the opposite.*)
(* (The decision reads nothing but the file, so it is looked at on a quiet *)
(* host.)                                                                  *)
(***************************************************************************)
LoginDecision ==
    (\A p \in Pids : proc[p] = None) /\ stage = "idle" =>
        \A user \in Users, key \in Keys : DecidesRightly(user, key, stages)
=============================================================================
