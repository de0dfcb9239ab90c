------------------------- MODULE RenewalTimerProofs -------------------------
(***************************************************************************)
(* Proofs about RenewalTimer, for every set of lifetimes, timer period,    *)
(* accuracy, window and local time.                                        *)
(***************************************************************************)
EXTENDS RenewalTimer, TLAPS

LEMMA GapTyped == MaxGap \in Nat \ {0}
BY ConstantsAssumption DEF MaxGap

-----------------------------------------------------------------------------
(***************************************************************************)
(* The counters keep their ranges; in particular the timer is never later  *)
(* than Period + Accuracy.                                                 *)
(***************************************************************************)
THEOREM TypeCorrect == Spec => []TypeOK
<1>1. Init => TypeOK
  BY ConstantsAssumption DEF Init, TypeOK
<1>2. TypeOK /\ [Next]_vars => TypeOK'
  <2> SUFFICES ASSUME TypeOK, [Next]_vars PROVE TypeOK'
    OBVIOUS
  <2> USE ConstantsAssumption, GapTyped DEF TypeOK
  <2>1. CASE Minute
    BY <2>1 DEF Minute
  <2>2. CASE OutsideWindow
    BY <2>2 DEF OutsideWindow, TimerFires
  <2>3. CASE Renewed
    BY <2>3 DEF Renewed, NewCertificate, TimerFires
  <2>4. CASE AnsweredFromStore \/ RenewalFails
    BY <2>4 DEF AnsweredFromStore, RenewalFails, TimerFires
  <2>5. CASE EnrolledByHand
    BY <2>5 DEF EnrolledByHand, NewCertificate
  <2>6. CASE RowIsGone \/ UNCHANGED vars
    BY <2>6 DEF RowIsGone, vars
  <2> QED
    BY <2>1, <2>2, <2>3, <2>4, <2>5, <2>6 DEF Next
<1> QED
  BY <1>1, <1>2, PTL DEF Spec

-----------------------------------------------------------------------------
(***************************************************************************)
(* The inductive invariant.  Credit is what was left of the certificate    *)
(* when it was last outside its window or just installed: each try can     *)
(* have cost one MaxGap, and gap minutes have passed since the last run.   *)
(* A run that brings nothing new moves its gap into the tries, so Credit   *)
(* never sinks into the window.                                            *)
(***************************************************************************)
Credit == left + gap + tries * MaxGap

CreditKept == Credit >= ttl \/ ~InWindow(Credit + LocalOffset)

LEMMA WindowIsDownwardClosed ==
    ASSUME ttl \in Int, NEW x \in Int, NEW y \in Int, x <= y, InWindow(y)
    PROVE  InWindow(x)
BY ConstantsAssumption DEF InWindow

LEMMA CreditKeptInit == Init => CreditKept
<1> SUFFICES ASSUME Init PROVE Credit >= ttl
  BY DEF CreditKept
<1>1. tries * MaxGap = 0
  BY GapTyped DEF Init
<1> QED
  BY <1>1, ConstantsAssumption, GapTyped DEF Init, Credit

LEMMA CreditKeptStep == TypeOK /\ TypeOK' /\ CreditKept /\ [Next]_vars => CreditKept'
<1> SUFFICES ASSUME TypeOK, TypeOK', CreditKept, [Next]_vars PROVE CreditKept'
  OBVIOUS
<1>0. tries * MaxGap \in Nat /\ tries' * MaxGap \in Nat
  BY GapTyped DEF TypeOK, MaxGap
<1>1. PICK lost \in Nat, next \in Nat :
        lost = tries * MaxGap /\ next = tries' * MaxGap
  BY <1>0
<1>2. /\ ttl \in Nat /\ left \in Int /\ gap \in Nat /\ gap <= MaxGap
      /\ left' \in Int /\ gap' \in Nat /\ ttl' = ttl
  BY ConstantsAssumption, GapTyped
  DEF TypeOK, Next, Minute, OutsideWindow, Renewed, NewCertificate,
      AnsweredFromStore, RenewalFails, EnrolledByHand, RowIsGone, vars
<1>3. Credit = left + gap + lost /\ Credit' = left' + gap' + next
  BY <1>1 DEF Credit, MaxGap
<1>4. Credit \in Int /\ Credit' \in Int
  BY <1>1, <1>2, <1>3
<1>5. ASSUME Credit' >= Credit PROVE CreditKept'
  <2>1. ASSUME ~InWindow(Credit + LocalOffset), InWindow(Credit' + LocalOffset)
        PROVE  FALSE
    BY <1>2, <1>4, <1>5, <2>1, ConstantsAssumption, WindowIsDownwardClosed
  <2> QED
    BY <1>2, <1>4, <1>5, <2>1 DEF CreditKept, InWindow
<1>6. CASE Minute
  <2>1. left' >= left - 1 /\ gap' = gap + 1 /\ next = lost
    BY <1>1, <1>2, <1>6 DEF Minute, MaxGap
  <2> QED
    BY <1>1, <1>2, <1>3, <1>5, <2>1
<1>7. CASE OutsideWindow
  <2>1. left' = left /\ gap' = 0 /\ ~InWindow(left + LocalOffset)
    BY <1>7 DEF OutsideWindow, TimerFires, needs_renewal
  <2>2. left + LocalOffset <= Credit' + LocalOffset
    BY <1>1, <1>2, <1>3, <2>1, ConstantsAssumption
  <2>3. ASSUME InWindow(Credit' + LocalOffset) PROVE FALSE
    <3>1. left + LocalOffset \in Int /\ Credit' + LocalOffset \in Int
      BY <1>2, <1>4, ConstantsAssumption
    <3>2. InWindow(left + LocalOffset)
      BY <1>2, <2>2, <2>3, <3>1, WindowIsDownwardClosed
    <3> QED
      BY <2>1, <3>2
  <2> QED
    BY <1>2, <2>3 DEF CreditKept, InWindow
<1>8. CASE Renewed \/ EnrolledByHand
  <2>1. left' = ttl
    BY <1>8 DEF Renewed, EnrolledByHand, NewCertificate
  <2>2. Credit' >= ttl'
    BY <1>1, <1>2, <1>3, <2>1
  <2> QED
    BY <2>2 DEF CreditKept
<1>9. CASE AnsweredFromStore \/ RenewalFails
  <2>1. left' = left /\ gap' = 0 /\ tries' = tries + 1
    BY <1>9 DEF AnsweredFromStore, RenewalFails, TimerFires
  <2>2. next = lost + MaxGap
    BY <1>1, <2>1, GapTyped DEF TypeOK, MaxGap
  <2> QED
    BY <1>1, <1>2, <1>3, <1>5, <2>1, <2>2, GapTyped
<1>10. CASE RowIsGone \/ UNCHANGED vars
  BY <1>4, <1>5, <1>10 DEF RowIsGone, vars, Credit, MaxGap
<1> QED
  BY <1>6, <1>7, <1>8, <1>9, <1>10 DEF Next

(***************************************************************************)
(* For every lifetime, timer and clock error, and whatever the broker      *)
(* answers: a certificate that has expired is one the timer has tried to   *)
(* renew more times than its lifetime has room for.  For the timer of the  *)
(* repository and a correct clock that is at least 1 try for 2h, 3 for 4h, *)
(* 7 for 8h and 11 for 12h, and no promise at all for 1h, whose window of  *)
(* 15 minutes is shorter than the timer's gap.                             *)
(***************************************************************************)
THEOREM RenewalIsAskedForInTime == Spec => []AsksBeforeExpiry
<1>1. TypeOK /\ CreditKept => AsksBeforeExpiry
  <2> SUFFICES ASSUME TypeOK, CreditKept, RoomFor(tries), left <= 0
               PROVE  FALSE
    BY DEF AsksBeforeExpiry, TypeOK
  <2> DEFINE all == (tries + 1) * MaxGap
  <2>1. all = tries * MaxGap + MaxGap
    BY GapTyped DEF TypeOK
  <2>2. tries * MaxGap \in Nat
    BY GapTyped DEF TypeOK
  <2>3. ttl \in Nat /\ left \in Int /\ gap \in Nat /\ gap <= MaxGap
    BY ConstantsAssumption, GapTyped DEF TypeOK
  <2>4. all < ttl /\ InWindow(all + LocalOffset)
    BY DEF RoomFor
  <2> HIDE DEF all
  <2>5. Credit \in Int /\ all \in Int /\ Credit <= all
    BY <2>1, <2>2, <2>3, GapTyped DEF Credit
  <2>6. InWindow(Credit + LocalOffset)
    BY <2>3, <2>4, <2>5, ConstantsAssumption, WindowIsDownwardClosed
  <2> QED
    BY <2>3, <2>4, <2>5, <2>6 DEF CreditKept
<1>2. TypeOK /\ TypeOK' /\ CreditKept /\ [Next]_vars => CreditKept'
  BY CreditKeptStep
<1> QED
  BY <1>1, <1>2, CreditKeptInit, TypeCorrect, PTL DEF Spec
=============================================================================
