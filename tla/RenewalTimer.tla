---------------------------- MODULE RenewalTimer ----------------------------
(***************************************************************************)
(* Whether renewal is asked for ahead of expiry:                           *)
(* systemd/user/zfcssh-renew.timer runs "zfcssh renew --if-needed", which  *)
(* asks needs_renewal and, when the certificate is inside its window,      *)
(* sends the request that it was issued for again.  The broker answers it  *)
(* out of its table as long as it has the row; then nothing is renewed.    *)
(* Files and interleavings are in ClientAgent; here is only time, minute   *)
(* by minute.                                                              *)
(***************************************************************************)
EXTENDS Integers

CONSTANTS
    Ttls,         \* lifetimes in minutes (PROFILE_TTLS of profiles.py)
    Period,       \* OnUnitActiveSec, in minutes
    Accuracy,     \* AccuracySec, in minutes
    MinWindow,    \* the timedelta(minutes=15) of needs_renewal
    LocalOffset,  \* local time minus UTC of the machine, in minutes
    MaxTries,     \* bound: renewals in a row that bring nothing new
    Floor         \* bound: an expired certificate ages no further than this

ASSUME ConstantsAssumption ==
    /\ Ttls \subseteq Nat
    /\ Period \in Nat \ {0} /\ Accuracy \in Nat /\ MinWindow \in Nat
    /\ LocalOffset \in Int
    /\ MaxTries \in Nat
    /\ Floor \in Int /\ Floor < 0

VARIABLES
    ttl,       \* lifetime of the profile the certificate is issued for
    left,      \* minutes until the installed certificate expires
    gap,       \* minutes since the timer last started the service
    tries,     \* renewals by the timer since the certificate was installed
    kept       \* the broker still has the installed certificate as its row

vars == <<ttl, left, gap, tries, kept>>

MaxGap == Period + Accuracy

(***************************************************************************)
(* needs_renewal.  ssh-keygen -L prints validity in local time and         *)
(* _parse_ssh_time takes it for UTC, so the remaining time it computes is  *)
(* off by LocalOffset.  The window is max(15 minutes, lifetime / 4).       *)
(***************************************************************************)
InWindow(remaining) == remaining <= MinWindow \/ 4 * remaining <= ttl

\* Mutant: the window is 15 minutes for every lifetime.
needs_renewal_Fixed == left + LocalOffset <= MinWindow

needs_renewal == InWindow(left + LocalOffset)

\* A certificate has just been enrolled, at any point of the timer's period.
Init ==
    /\ ttl \in Ttls
    /\ left = ttl
    /\ gap \in 0..MaxGap
    /\ tries = 0
    /\ kept = TRUE

\* systemd starts the service between Period and Period + Accuracy.
Minute ==
    /\ gap < MaxGap
    /\ gap' = gap + 1
    /\ left' = IF left > Floor THEN left - 1 ELSE left
    /\ UNCHANGED <<ttl, tries, kept>>

TimerFires == gap >= Period /\ gap' = 0

OutsideWindow ==
    /\ TimerFires
    /\ ~needs_renewal
    /\ UNCHANGED <<ttl, left, tries, kept>>

\* A certificate signed now is installed, and the broker keeps it.
NewCertificate ==
    /\ ~kept
    /\ left' = ttl
    /\ tries' = 0
    /\ kept' = TRUE

\* Mutant: a renewal extends the certificate instead of starting a new one.
Renewed_Extends ==
    /\ TimerFires
    /\ needs_renewal
    /\ ~kept
    /\ left' = left + ttl
    /\ tries' = 0
    /\ kept' = TRUE
    /\ UNCHANGED ttl

Renewed ==
    /\ TimerFires
    /\ needs_renewal
    /\ NewCertificate
    /\ UNCHANGED ttl

\* The row is the answer: the installed certificate is written once more.
AnsweredFromStore ==
    /\ TimerFires
    /\ needs_renewal
    /\ kept
    /\ tries < MaxTries
    /\ tries' = tries + 1
    /\ UNCHANGED <<ttl, left, kept>>

\* Broker unreachable or refusing: the old certificate stays.
RenewalFails ==
    /\ TimerFires
    /\ needs_renewal
    /\ tries < MaxTries
    /\ tries' = tries + 1
    /\ UNCHANGED <<ttl, left, kept>>

\* The user runs zfcssh enroll, or renew --force, between two timer runs.
EnrolledByHand ==
    /\ NewCertificate
    /\ UNCHANGED <<ttl, gap>>

(***************************************************************************)
(* The broker has no row for the request any more: the table was emptied   *)
(* by hand, or a restart brought settings that are part of the hash and    *)
(* that it never had before.                                               *)
(***************************************************************************)
RowIsGone ==
    /\ kept
    /\ kept' = FALSE
    /\ UNCHANGED <<ttl, left, gap, tries>>

Next ==
    \/ Minute \/ OutsideWindow \/ Renewed \/ AnsweredFromStore \/ RenewalFails
    \/ EnrolledByHand \/ RowIsGone

Spec == Init /\ [][Next]_vars
-----------------------------------------------------------------------------
TypeOK ==
    /\ ttl \in Ttls
    /\ left \in Int /\ left <= ttl
    /\ gap \in 0..MaxGap
    /\ tries \in 0..MaxTries
    /\ kept \in BOOLEAN

(***************************************************************************)
(* A lifetime has room for more than n tries when n + 1 periods of the     *)
(* timer fit into it, and into the window that the clock error leaves.     *)
(***************************************************************************)
RoomFor(n) ==
    /\ (n + 1) * MaxGap < ttl
    /\ InWindow((n + 1) * MaxGap + LocalOffset)

(***************************************************************************)
(* The client asks for the next certificate often enough before this one   *)
(* expires: whoever finds it expired, the timer has tried to renew it more *)
(* times than the lifetime has room for.  What the tries bring is up to    *)
(* the broker; one that is answered with a new certificate, by a broker    *)
(* without the row, would have been in time.                               *)
(***************************************************************************)
AsksBeforeExpiry == RoomFor(tries) => left > 0

(***************************************************************************)
(* README.md:11: certificates are renewed before they expire.  At the very *)
(* least, one that has expired is one that the timer has tried to renew.   *)
(***************************************************************************)
RenewedBeforeExpiry == tries = 0 => left > 0
=============================================================================
