-------------------------- MODULE TargetHostProofs --------------------------
(***************************************************************************)
(* Proofs about TargetHost, for any number of pids, any timer and any      *)
(* number of failed passes.                                                *)
(*                                                                         *)
(* The bound on overdue sessions is not inductive.  What is: a session     *)
(* that the running pass has done with, or that the enforcer at rest left  *)
(* behind, had not expired when the last pass began (InTime); one that is  *)
(* still to come may have waited for every failed pass before this one;    *)
(* and a pass has as many ticks left as it has sessions left (PassShort).  *)
(***************************************************************************)
EXTENDS TargetHost, FiniteSetTheorems, SequenceTheorems, WellFoundedInduction,
        TLAPS

Gap == LongestGap
N == Cardinality(Pids)

\* What f failed passes may add to the time a session is overdue.
Slack(f) == f * Gap

Pending(p) == p \in todo \/ p = target

\* Ticks p can be overdue if it is still to be examined, or has been.
Allowance(p) ==
    IF stage = "idle" THEN Slack(failed) + since
    ELSE IF Pending(p) THEN Slack(failed + 1) + since ELSE since

InTime ==
    \A p \in Pids :
        proc[p] # None /\ proc[p].kind = "cert" => -proc[p].left < Allowance(p)

PassShort ==
    /\ stage = "idle" => todo = {} /\ since <= Gap
    /\ stage \in {"loop", "term"} => since + Cardinality(todo) <= N
    /\ stage \in {"hup", "sleep"} => since + 1 + Cardinality(todo) <= N

IInv == TypeOK /\ PassShort /\ InTime

-----------------------------------------------------------------------------
(***************************************************************************)
(* Facts about the numbers involved.                                       *)
(***************************************************************************)
LEMMA GapFacts ==
    /\ N \in Nat /\ Gap \in Nat
    /\ N <= Gap /\ Period + Accuracy <= Gap
BY HostAssumption, FS_CardinalityType DEF N, Gap, LongestGap

LEMMA FailedSlack ==
    ASSUME NEW f \in Nat
    PROVE  /\ Slack(f) \in Nat /\ Slack(f + 1) \in Nat
           /\ Slack(f + 1) = Slack(f) + Gap
<1>1. \A g \in Nat : f * g \in Nat /\ (f + 1) * g = f * g + g
  BY SMT
<1>2. Slack(f) \in Nat /\ Slack(f + 1) = Slack(f) + Gap
  BY <1>1, GapFacts DEF Slack
<1> QED BY <1>2, GapFacts

LEMMA SlackGrows ==
    ASSUME NEW f \in Nat, NEW g \in Nat, f <= g
    PROVE  Slack(f) <= Slack(g)
<1>1. \A n \in Nat : f * n <= g * n
  BY SMT
<1> QED BY <1>1, GapFacts DEF Slack

LEMMA LeastMember ==
    ASSUME NEW S, S \subseteq Nat, IsFiniteSet(S), S # {}
    PROVE  \E x \in S : \A y \in S : x <= y
<1> DEFINE UpTo(x) == {y \in S : y <= x}
           R == StrictSubsetOrdering(S)
           T == {U \in FiniteSubsetsOf(S) : \E x \in S : U = UpTo(x)}
<1>1. \A x \in S : UpTo(x) \in T
  <2>1. \A x \in S : IsFiniteSet(UpTo(x))
    BY FS_Subset
  <2> QED BY <2>1 DEF FiniteSubsetsOf
<1>2. PICK U \in T : \A V \in T : <<V, U>> \notin R
  <2>1. IsWellFoundedOn(R, FiniteSubsetsOf(S))
    BY FS_StrictSubsetOrderingWellFounded
  <2>2. T # {} /\ T \subseteq FiniteSubsetsOf(S)
    BY <1>1
  <2> HIDE DEF R, T
  <2> QED BY <2>1, <2>2, WFMin
<1>3. PICK x \in S : U = UpTo(x)
  OBVIOUS
<1>4. ASSUME NEW y \in S, y < x PROVE FALSE
  <2>1. x \in UpTo(x) /\ x \notin UpTo(y)
    BY <1>4
  <2>2. \A z \in UpTo(y) : z \in S /\ z <= x
    BY <1>4
  <2>3. UpTo(y) \subseteq U /\ UpTo(y) # U
    BY <1>3, <2>1, <2>2
  <2>4. UpTo(y) \in SUBSET S /\ U \in SUBSET S
    BY <1>3
  <2>5. <<UpTo(y), U>> \in R
    BY <2>3, <2>4 DEF StrictSubsetOrdering
  <2> QED BY <1>1, <1>2, <2>5
<1>5. \A y \in S : x <= y
  BY <1>4
<1> QED BY <1>5

LEMMA CurrentFacts ==
    ASSUME todo \subseteq Pids, todo # {}
    PROVE  /\ Current \in todo
           /\ Cardinality(todo \ {Current}) = Cardinality(todo) - 1
<1>1. IsFiniteSet(todo) /\ todo \subseteq Nat
  BY HostAssumption, FS_Subset
<1>2. Current \in todo
  BY <1>1, LeastMember DEF Current
<1> QED BY <1>1, <1>2, FS_RemoveElement

LEMMA TodoFacts ==
    ASSUME NEW S \in SUBSET Pids
    PROVE  Cardinality(S) \in Nat /\ Cardinality(S) <= N
BY HostAssumption, FS_Subset, FS_CardinalityType DEF N

-----------------------------------------------------------------------------
LEMMA IInvInit == Init => IInv
<1> SUFFICES ASSUME Init PROVE IInv
  OBVIOUS
<1>1. TypeOK
  <2>1. proc \in [Pids -> [kind : Kinds, left : Int] \cup {None}]
    BY Zenon DEF Init
  <2>2. /\ stages \in StageFiles /\ stage = "idle" /\ todo = {} /\ target = None
        /\ handedOn = FALSE /\ since = 0 /\ failed = 0
    BY DEF Init
  <2>3. 0 \in 0..MaxFailed
    BY HostAssumption
  <2> QED BY <2>1, <2>2, <2>3 DEF TypeOK
<1>2. PassShort /\ InTime
  BY GapFacts DEF Init, PassShort, InTime
<1> QED BY <1>1, <1>2 DEF IInv

(***************************************************************************)
(* A process that begins or ends leaves the enforcer where it is; a new    *)
(* session has its lifetime before it.                                     *)
(***************************************************************************)
LEMMA AllowanceTyped ==
    ASSUME TypeOK, NEW p \in Pids
    PROVE  Allowance(p) \in Nat
<1>1. failed \in Nat /\ since \in Nat
  BY HostAssumption DEF TypeOK
<1>2. Slack(failed) \in Nat /\ Slack(failed + 1) \in Nat
  BY <1>1, FailedSlack
<1> QED BY <1>1, <1>2 DEF Allowance

LEMMA BeginKeeps ==
    ASSUME IInv, NEW p \in Pids, NEW kind \in Kinds, NEW left \in Nat,
           kind = "cert" => 0 < left, Begin(p, kind, left)
    PROVE  IInv'
<1> USE DEF IInv
<1>1. TypeOK'
  BY DEF Begin, TypeOK, pass
<1>2. PassShort'
  BY DEF Begin, PassShort, pass
<1>3. InTime'
  <2>1. \A q \in Pids : Allowance(q)' = Allowance(q)
    BY DEF Begin, Allowance, Pending, pass
  <2>2. proc'[p] = [kind |-> kind, left |-> left]
        /\ \A q \in Pids : q # p => proc'[q] = proc[q]
    BY DEF Begin, TypeOK
  <2>3. Allowance(p) \in Nat
    BY AllowanceTyped
  <2> QED BY <2>1, <2>2, <2>3 DEF InTime
<1> QED BY <1>1, <1>2, <1>3

(***************************************************************************)
(* Ending processes while the enforcer's place stays, or moves on so that  *)
(* no session loses time.                                                  *)
(***************************************************************************)
LEMMA EndingKeeps ==
    ASSUME InTime,
           \A q \in Pids :
              \/ proc'[q] = None
              \/ proc'[q] = proc[q] /\ Allowance(q)' = Allowance(q)
    PROVE  InTime'
BY DEF InTime

LEMMA IInvStep == IInv /\ [Next]_vars => IInv'
<1> SUFFICES ASSUME IInv, [Next]_vars PROVE IInv'
  OBVIOUS
<1> USE DEF IInv
<1>0. /\ failed \in Nat /\ since \in Nat
      /\ \A p \in Pids : Allowance(p) \in Nat
  BY HostAssumption, AllowanceTyped DEF TypeOK
<1>1. ASSUME NEW p \in Pids, LogIn(p) PROVE IInv'
  BY <1>1, BeginKeeps, HostAssumption DEF LogIn, Kinds
<1>2. ASSUME NEW p \in Pids, PlainLogIn(p) \/ OtherProcess(p) PROVE IInv'
  BY <1>2, BeginKeeps DEF PlainLogIn, OtherProcess, Kinds
<1>3. ASSUME NEW p \in Pids, Exit(p) PROVE IInv'
  <2>1. TypeOK' /\ PassShort'
    BY <1>3 DEF Exit, TypeOK, PassShort, pass
  <2>2. \A q \in Pids : Allowance(q)' = Allowance(q)
    BY <1>3 DEF Exit, Allowance, Pending, pass
  <2>3. \A q \in Pids : proc'[q] = None \/ proc'[q] = proc[q]
    BY <1>3 DEF Exit, TypeOK
  <2> QED BY <2>1, <2>2, <2>3, EndingKeeps
<1>4. CASE EditStages
  <2>1. \A q \in Pids : Allowance(q)' = Allowance(q)
    BY <1>4 DEF EditStages, Allowance, Pending, pass
  <2>2. TypeOK' /\ PassShort'
    BY <1>4 DEF EditStages, TypeOK, PassShort, pass
  <2> QED BY <1>4, <2>1, <2>2, EndingKeeps DEF EditStages
<1>5. CASE Reboot
  <2>1. TypeOK'
    <3>1. proc' \in [Pids -> [kind : Kinds, left : Int] \cup {None}]
      BY <1>5, Zenon DEF Reboot
    <3>2. /\ stages' \in StageFiles /\ stage' = "idle" /\ todo' = {}
          /\ target' = None /\ handedOn' = FALSE /\ since' = 0 /\ failed' = 0
      BY <1>5 DEF Reboot, TypeOK
    <3>3. 0 \in 0..MaxFailed
      BY HostAssumption
    <3> QED BY <3>1, <3>2, <3>3 DEF TypeOK
  <2>2. PassShort' /\ InTime'
    BY <1>5, GapFacts DEF Reboot, PassShort, InTime
  <2> QED BY <2>1, <2>2
<1>6. CASE StartPass
  <2>1. TypeOK'
    BY <1>6 DEF StartPass, TypeOK, host
  <2>2. PassShort'
    BY <1>6, TodoFacts DEF StartPass, PassShort
  <2>3. ASSUME NEW q \in Pids, proc[q] # None, proc[q].kind = "cert"
        PROVE  -proc[q].left < Slack(failed + 1)
    <3>1. -proc[q].left < Slack(failed) + since /\ since <= Gap
      BY <1>6, <2>3 DEF StartPass, InTime, Allowance, PassShort
    <3>2. proc[q].left \in Int
      BY <2>3 DEF TypeOK
    <3> QED BY <1>0, <3>1, <3>2, FailedSlack, GapFacts
  <2>4. \A q \in Pids : proc[q] # None /\ proc[q].kind = "cert" =>
            Allowance(q)' = Slack(failed + 1)
    <3>1. \A q \in Pids : proc[q] # None /\ proc[q].kind = "cert" => q \in todo'
      BY <1>6 DEF StartPass, HasAuthInfo
    <3>2. Slack(failed + 1) + 0 = Slack(failed + 1)
      BY <1>0, FailedSlack, GapFacts
    <3> QED BY <1>6, <3>1, <3>2 DEF StartPass, Allowance, Pending
  <2> QED BY <1>6, <2>1, <2>2, <2>3, <2>4 DEF StartPass, InTime, host
<1>7. CASE PassOver
  <2>0. PICK c \in Pids : /\ c = Current /\ c \in todo /\ todo' = todo \ {c}
                          /\ Cardinality(todo') = Cardinality(todo) - 1
    BY <1>7, CurrentFacts DEF PassOver, TypeOK
  <2>1. TypeOK'
    BY <1>7, <2>0 DEF PassOver, TypeOK, host
  <2>2. PassShort'
    BY <1>0, <1>7, <2>0, TodoFacts, GapFacts DEF PassOver, PassShort, TypeOK
  <2>3. ASSUME NEW q \in Pids, q # c PROVE Allowance(q)' = Allowance(q)
    BY <1>7, <2>0, <2>3 DEF PassOver, Allowance, Pending
  <2>4. Allowance(c)' = since
    <3>1. c \notin todo' /\ c # target
      BY <1>7, <2>0, HostAssumption DEF PassOver, TypeOK
    <3> QED BY <1>7, <3>1 DEF PassOver, Allowance, Pending
  <2>5. proc[c] # None /\ proc[c].kind = "cert" => -proc[c].left < since
    <3>1. proc[c] # None => proc[c].left \in Int
      BY DEF TypeOK
    <3> QED BY <1>0, <1>7, <2>0, <3>1 DEF PassOver, ExpiredAtStart
  <2> QED BY <1>7, <2>1, <2>2, <2>3, <2>4, <2>5 DEF PassOver, InTime, host
<1>8. CASE Judge
  <2>0. /\ Current \in todo /\ Cardinality(todo') = Cardinality(todo) - 1
        /\ todo \subseteq Pids
    BY <1>8, CurrentFacts DEF Judge, TypeOK
  <2>1. TypeOK'
    <3>1. Current \in Pids /\ Current # None
      BY <2>0, HostAssumption
    <3> QED BY <1>8, <2>0, <3>1 DEF Judge, TypeOK, host
  <2>2. PassShort'
    BY <1>0, <1>8, <2>0, TodoFacts, GapFacts DEF Judge, PassShort
  <2>3. \A q \in Pids : Allowance(q)' = Allowance(q)
    <3>1. target = None
      BY <1>8 DEF Judge, TypeOK
    <3> QED BY <1>8, <2>0, <3>1, HostAssumption DEF Judge, Allowance, Pending
  <2> QED BY <1>8, <2>1, <2>2, <2>3, EndingKeeps DEF Judge, host
<1>14. CASE Hup
  <2>0. target \in Pids
    BY <1>14 DEF Hup, TypeOK
  <2>1. TypeOK'
    <3>1. proc' \in [Pids -> [kind : Kinds, left : Int] \cup {None}]
      BY <1>14 DEF Hup, TypeOK
    <3> QED BY <1>14, <3>1 DEF Hup, TypeOK
  <2>2. PassShort'
    BY <1>14 DEF Hup, PassShort
  <2>3. \A q \in Pids : Allowance(q)' = Allowance(q)
    BY <1>14 DEF Hup, Allowance, Pending
  <2>4. \A q \in Pids : proc'[q] = None \/ proc'[q] = proc[q]
    BY <1>14, <2>0 DEF Hup, TypeOK
  <2> QED BY <2>1, <2>2, <2>3, <2>4, EndingKeeps
<1>9. CASE Term
  <2>0. target \in Pids
    BY <1>9 DEF Term, TypeOK
  <2>1. TypeOK' /\ PassShort'
    BY <1>9 DEF Term, TypeOK, PassShort
  <2>2. proc'[target] = None
    BY <1>9, <2>0 DEF Term, TypeOK
  <2>3. \A q \in Pids : q # target => /\ proc'[q] = proc[q]
                                      /\ Allowance(q)' = Allowance(q)
    BY <1>9, HostAssumption DEF Term, TypeOK, Allowance, Pending
  <2>4. \A q \in Pids : proc'[q] = None \/ /\ proc'[q] = proc[q]
                                           /\ Allowance(q)' = Allowance(q)
    BY <2>2, <2>3
  <2>5. InTime'
    BY <2>4 DEF InTime
  <2> QED BY <2>1, <2>5
<1>10. CASE EndPass
  <2>1. TypeOK'
    BY <1>10, HostAssumption DEF EndPass, TypeOK, host
  <2>2. PassShort'
    BY <1>0, <1>10, TodoFacts, GapFacts DEF EndPass, PassShort, TypeOK
  <2>3. \A q \in Pids : Allowance(q)' = Allowance(q)
    <3>1. Slack(0) + since = since
      BY <1>0, GapFacts DEF Slack
    <3> QED BY <1>10, <3>1, HostAssumption
            DEF EndPass, Allowance, Pending, TypeOK, host
  <2> QED BY <1>10, <2>1, <2>2, <2>3, EndingKeeps DEF EndPass, host
<1>11. CASE FailPass
  <2>1. TypeOK'
    <3>1. failed' \in 0..MaxFailed
      BY <1>0, <1>11, HostAssumption DEF FailPass
    <3> QED BY <1>11, <3>1 DEF FailPass, TypeOK, host
  <2>2. PassShort'
    <3>1. Cardinality(todo) \in Nat
      BY TodoFacts DEF TypeOK
    <3>2. since <= N
      BY <1>0, <1>11, <3>1, GapFacts DEF FailPass, PassShort
    <3> QED BY <1>0, <1>11, <3>2, GapFacts DEF FailPass, PassShort
  <2>3. \A q \in Pids : Allowance(q)' \in Nat /\ Allowance(q) <= Allowance(q)'
    <3>1. Slack(failed + 1) \in Nat
      BY <1>0, FailedSlack, GapFacts
    <3> QED BY <1>0, <1>11, <3>1 DEF FailPass, Allowance, Pending, host
  <2>4. \A q \in Pids : proc[q] # None => proc[q].left \in Int
    BY DEF TypeOK
  <2> QED BY <1>0, <1>11, <2>1, <2>2, <2>3, <2>4 DEF FailPass, InTime, host
<1>12. CASE Tick
  <2>1. TypeOK'
    BY <1>12, HostAssumption DEF Tick, TypeOK, Older
  <2>2. PassShort'
    BY <1>0, <1>12, TodoFacts, GapFacts, HostAssumption
       DEF Tick, PassShort, TypeOK
  <2>3. ASSUME NEW q \in Pids, proc'[q] # None, proc'[q].kind = "cert"
        PROVE  -proc'[q].left < Allowance(q)'
    <3>1. Allowance(q)' = Allowance(q) + 1
      <4>1. Slack(failed) \in Nat /\ Slack(failed + 1) \in Nat
        BY <1>0, FailedSlack, GapFacts
      <4> QED BY <1>0, <1>12, <4>1 DEF Tick, Allowance, Pending
    <3>2. proc[q] # None /\ proc[q].kind = "cert"
      BY <1>12, <2>3 DEF Tick, Older, TypeOK
    <3>3. /\ proc[q].left \in Int
          /\ proc'[q].left = proc[q].left \/ proc'[q].left = proc[q].left - 1
      BY <1>12, <2>3, <3>2 DEF Tick, Older, TypeOK
    <3>4. -proc[q].left < Allowance(q)
      BY <3>2 DEF InTime
    <3> QED BY <1>0, <3>1, <3>3, <3>4
  <2> QED BY <2>1, <2>2, <2>3 DEF InTime
<1>13. CASE UNCHANGED vars
  <2>1. \A q \in Pids : Allowance(q)' = Allowance(q) /\ proc' = proc
    BY <1>13 DEF vars, host, pass, Allowance, Pending
  <2> QED BY <1>13, <2>1, EndingKeeps
          DEF vars, host, pass, TypeOK, PassShort, InTime
<1> QED BY <1>1, <1>2, <1>3, <1>4, <1>5, <1>6, <1>7, <1>8, <1>9, <1>10, <1>11,
           <1>12, <1>13, <1>14 DEF Next, Enforcer

LEMMA IInvImplies == IInv => OverdueBounded
<1> SUFFICES ASSUME IInv, NEW p \in Pids, proc[p] # None, proc[p].kind = "cert"
             PROVE  -proc[p].left < Bound
  BY DEF OverdueBounded
<1>1. /\ failed \in Nat /\ MaxFailed \in Nat /\ failed <= MaxFailed
      /\ since \in Nat /\ proc[p].left \in Int
  BY HostAssumption DEF IInv, TypeOK
<1>2. -proc[p].left < Slack(failed + 1) + N
  <2>1. -proc[p].left < Allowance(p)
    BY DEF IInv, InTime
  <2>2. CASE stage = "idle"
    <3>1. since <= Gap
      BY <2>2 DEF IInv, PassShort
    <3>2. -proc[p].left < Slack(failed) + since
      BY <2>1, <2>2 DEF Allowance
    <3>3. Slack(failed) \in Nat /\ Slack(failed + 1) = Slack(failed) + Gap
      BY <1>1, FailedSlack
    <3>4. ASSUME NEW slack \in Nat, -proc[p].left < slack + since
          PROVE  -proc[p].left < slack + Gap + N
      BY <1>1, <3>1, <3>4, GapFacts
    <3> QED BY <3>2, <3>3, <3>4
  <2>3. CASE stage # "idle"
    <3>1. since <= N
      BY <1>1, <2>3, TodoFacts, GapFacts DEF IInv, PassShort, TypeOK
    <3>2. Slack(failed + 1) \in Nat
      BY <1>1, FailedSlack
    <3> QED BY <1>1, <2>1, <2>3, <3>1, <3>2, GapFacts DEF Allowance
  <2> QED BY <2>2, <2>3
<1>3. Slack(failed + 1) <= Slack(MaxFailed + 1)
  <2>1. failed + 1 \in Nat /\ MaxFailed + 1 \in Nat /\ failed + 1 <= MaxFailed + 1
    BY <1>1
  <2> QED BY <2>1, SlackGrows
<1>4. Bound = Slack(MaxFailed + 1) + N
  BY DEF Bound, Gap, N, Slack
<1>5. Slack(failed + 1) \in Nat /\ Slack(MaxFailed + 1) \in Nat
  <2>1. \A f \in Nat : Slack(f + 1) \in Nat
    BY FailedSlack
  <2> QED BY <1>1, <2>1
<1> HIDE DEF Bound
<1> QED BY <1>1, <1>2, <1>3, <1>4, <1>5, GapFacts

(***************************************************************************)
(* Type correctness of the target host, for any pids and timer.            *)
(***************************************************************************)
THEOREM TypeCorrect == Spec => []TypeOK
<1>1. IInv => TypeOK
  BY DEF IInv
<1> QED BY <1>1, IInvInit, IInvStep, PTL DEF Spec

(***************************************************************************)
(* However many sessions come, go and expire, in whatever order, however   *)
(* late the timer and after up to MaxFailed failed passes: no session by   *)
(* certificate outlives its certificate by Bound.                          *)
(***************************************************************************)
THEOREM SessionsEndInTime == Spec => []OverdueBounded
BY IInvInit, IInvStep, IInvImplies, PTL DEF Spec

-----------------------------------------------------------------------------
(***************************************************************************)
(* The process that is to get HUP and TERM is an expired session until its *)
(* pid is given to another.                                                *)
(***************************************************************************)
TargetExpired ==
    target # None /\ ~handedOn /\ proc[target] # None =>
        proc[target].kind = "cert" /\ proc[target].left <= 0

LEMMA TargetExpiredInit == Init => TargetExpired
BY DEF Init, TargetExpired

LEMMA TargetExpiredStep ==
    TypeOK /\ TargetExpired /\ [Next]_vars => TargetExpired'
<1> SUFFICES ASSUME TypeOK, TargetExpired, [Next]_vars PROVE TargetExpired'
  OBVIOUS
<1> USE DEF TargetExpired
<1>1. ASSUME NEW p \in Pids, NEW kind, NEW left, Begin(p, kind, left)
      PROVE  TargetExpired'
  BY <1>1 DEF Begin, pass, TypeOK
<1>2. ASSUME NEW p \in Pids, LogIn(p) \/ PlainLogIn(p) \/ OtherProcess(p)
      PROVE  TargetExpired'
  BY <1>1, <1>2 DEF LogIn, PlainLogIn, OtherProcess
<1>3. ASSUME NEW p \in Pids, Exit(p) PROVE TargetExpired'
  BY <1>3 DEF Exit, pass, TypeOK
<1>4. CASE EditStages \/ Reboot
  BY <1>4 DEF EditStages, Reboot, pass
<1>5. CASE StartPass \/ PassOver \/ EndPass \/ FailPass
  BY <1>5 DEF StartPass, PassOver, EndPass, FailPass, host
<1>6. CASE Judge
  <2>1. PICK c \in Pids : c = Current /\ target' = c
    BY <1>6, CurrentFacts DEF Judge, TypeOK
  <2>2. /\ proc[c] # None /\ proc[c].kind = "cert"
        /\ proc[c].left + since <= 0 /\ proc[c].left \in Int /\ since \in Nat
    BY <1>6, <2>1 DEF Judge, ExpiredAtStart, TypeOK
  <2>3. proc[c].left <= 0
    BY <2>2
  <2> QED BY <1>6, <2>1, <2>2, <2>3 DEF Judge, host
<1>10. CASE Hup
  BY <1>10 DEF Hup, TypeOK
<1>7. CASE Term
  BY <1>7 DEF Term
<1>8. CASE Tick
  <2>1. SUFFICES ASSUME target # None, ~handedOn, proc'[target] # None
                 PROVE  proc'[target].kind = "cert" /\ proc'[target].left <= 0
    BY <1>8 DEF Tick
  <2>2. target \in Pids /\ proc[target] # None
    BY <1>8, <2>1 DEF Tick, Older, TypeOK
  <2>3. proc[target].kind = "cert" /\ proc[target].left <= 0
        /\ proc[target] \in [kind : Kinds, left : Int]
    BY <2>1, <2>2 DEF TypeOK
  <2> QED BY <1>8, <2>1, <2>2, <2>3 DEF Tick, Older
<1>9. CASE UNCHANGED vars
  BY <1>9 DEF vars, host, pass
<1> QED BY <1>2, <1>3, <1>4, <1>5, <1>6, <1>7, <1>8, <1>9, <1>10 DEF Next, Enforcer

LEMMA Endings ==
    TypeOK /\ TargetExpired /\ Enforcer =>
        \A p \in Pids :
            proc[p] # None /\ proc'[p] = None =>
                \/ proc[p].kind = "cert" /\ proc[p].left <= 0
                \/ p = target /\ handedOn
<1> SUFFICES ASSUME TypeOK, TargetExpired, Enforcer, NEW p \in Pids,
                    proc[p] # None, proc'[p] = None
             PROVE  \/ proc[p].kind = "cert" /\ proc[p].left <= 0
                    \/ p = target /\ handedOn
  OBVIOUS
<1>1. CASE Hup \/ Term
  <2>1. p = target /\ p # None
    BY <1>1, HostAssumption DEF Hup, Term, TypeOK
  <2> QED BY <2>1 DEF TargetExpired
<1>2. CASE StartPass \/ PassOver \/ Judge \/ EndPass
  BY <1>2 DEF StartPass, PassOver, Judge, EndPass, host
<1> QED BY <1>1, <1>2 DEF Enforcer

(***************************************************************************)
(* For any number of sessions and pids that are reused in any order: the   *)
(* enforcer ends nothing but sessions by expired certificates, and what    *)
(* was given the pid of one after its certificate was read.                *)
(***************************************************************************)
THEOREM OthersAreSpared == Spec => OnlyExpiredEnded
<1>1. TypeOK /\ TargetExpired /\ [Next]_vars =>
        [Enforcer => \A p \in Pids :
            proc[p] # None /\ proc'[p] = None =>
                \/ proc[p].kind = "cert" /\ proc[p].left <= 0
                \/ p = target /\ handedOn]_vars
  BY Endings
<1>2. Spec => [](TypeOK /\ TargetExpired)
  BY TypeCorrect, TargetExpiredInit, TargetExpiredStep, PTL DEF Spec
<1> QED BY <1>1, <1>2, PTL DEF Spec, OnlyExpiredEnded

-----------------------------------------------------------------------------
(***************************************************************************)
(* The decision of AuthorizedPrincipalsCommand.                            *)
(***************************************************************************)
LEMMA FirstCapitalFacts ==
    ASSUME NEW list, Len(list) \in Nat
    PROVE  /\ FirstCapital(list) \in 1..(Len(list) + 1)
           /\ FirstCapital(list) <= Len(list) => list[FirstCapital(list)] \in Capital
<1> DEFINE n == Len(list)
           Cut(i) == /\ i <= n => list[i] \in Capital
                     /\ \A j \in 1..(i - 1) : list[j] \notin Capital
           C == {i \in 1..n : list[i] \in Capital}
<1>1. \E i \in 1..(n + 1) : Cut(i)
  <2>1. CASE C = {}
    <3>1. Cut(n + 1)
      BY <2>1
    <3> QED BY <3>1
  <2>2. CASE C # {}
    <3>1. IsFiniteSet(C) /\ C \subseteq Nat
      <4>1. IsFiniteSet(1..n) /\ C \in SUBSET (1..n)
        BY FS_Interval
      <4> QED BY <4>1, FS_Subset
    <3>2. PICK i \in C : \A j \in C : i <= j
      BY <2>2, <3>1, LeastMember
    <3>3. Cut(i)
      BY <3>2
    <3> QED BY <3>3
  <2> QED BY <2>1, <2>2
<1> QED BY <1>1 DEF FirstCapital

\* The list the command reads has the names before the first capital one.
LEMMA ListedFacts ==
    ASSUME NEW key, IsNameList(key.principals)
    PROVE  /\ IsNameList(Listed(key))
           /\ Names(Listed(key)) \subseteq Names(key.principals)
           /\ Names(key.principals) \subseteq Names(Listed(key)) \cup Hidden(key)
<1> DEFINE list == key.principals
           n == FirstCapital(list) - 1
<1>1. list \in Seq(Names(list)) /\ Len(list) \in Nat
  BY DEF IsNameList
<1>2. n \in 0..Len(list)
  BY <1>1, FirstCapitalFacts
<1>3. /\ Listed(key) = [i \in 1..n |-> list[i]]
      /\ DOMAIN list = 1..Len(list)
  BY <1>1, <1>2 DEF Listed
<1>4. /\ DOMAIN Listed(key) = 1..n /\ 1..n \subseteq DOMAIN list
      /\ \A i \in 1..n : Listed(key)[i] = list[i]
  BY <1>2, <1>3
<1>5. IsNameList(Listed(key))
  <2>1. Listed(key) \in [1..n -> Names(Listed(key))] /\ n \in Nat
    BY <1>2, <1>3, <1>4 DEF Names
  <2>2. Listed(key) \in Seq(Names(Listed(key)))
    BY <2>1
  <2>3. \A i, j \in DOMAIN Listed(key) : Listed(key)[i] = Listed(key)[j] => i = j
    BY <1>4 DEF IsNameList
  <2> QED BY <2>2, <2>3 DEF IsNameList
<1>6. Names(Listed(key)) \subseteq Names(list)
  BY <1>4 DEF Names
<1>7. ASSUME NEW i \in DOMAIN list
      PROVE  list[i] \in Names(Listed(key)) \cup Hidden(key)
  <2>1. CASE i \in 1..n
    BY <1>4, <2>1 DEF Names
  <2>2. CASE i \notin 1..n
    <3>1. i \in FirstCapital(list)..Len(list)
      BY <1>1, <1>2, <1>3, <2>2, FirstCapitalFacts
    <3> QED BY <3>1 DEF Hidden
  <2> QED BY <2>1, <2>2
<1>8. Names(list) \subseteq Names(Listed(key)) \cup Hidden(key)
  BY <1>7 DEF Names
<1> QED BY <1>5, <1>6, <1>8

LEMMA OneStage ==
    ASSUME NEW list, IsNameList(list)
    PROVE  Cardinality(Stages(list)) = 1
              <=> \E i \in Stages(list) :
                     Names(list) \cap Lifecycle = {list[i]}
<1>1. IsFiniteSet(Stages(list)) /\ Stages(list) \subseteq DOMAIN list
  <2>1. DOMAIN list = 1..Len(list) /\ Len(list) \in Nat
    BY DEF IsNameList
  <2>2. IsFiniteSet(1..Len(list))
    BY <2>1, FS_Interval
  <2>3. Stages(list) \in SUBSET (1..Len(list))
    BY <2>1 DEF Stages
  <2> QED BY <2>1, <2>2, <2>3, FS_Subset
<1>2. Cardinality(Stages(list)) = 1 <=> \E i : Stages(list) = {i}
  BY <1>1, FS_Singleton
<1>3. ASSUME NEW i, Stages(list) = {i}
      PROVE  i \in Stages(list) /\ Names(list) \cap Lifecycle = {list[i]}
  BY <1>3 DEF Stages, Names
<1>4. ASSUME NEW i \in Stages(list), Names(list) \cap Lifecycle = {list[i]}
      PROVE  Stages(list) = {i}
  <2>1. \A j \in Stages(list) : list[j] = list[i]
    BY <1>4 DEF Stages, Names
  <2> QED BY <1>1, <2>1 DEF IsNameList
<1> QED BY <1>2, <1>3, <1>4

LEMMA CommandDecidesRightly ==
    ASSUME NEW user, NEW key, NEW file, IsNameList(key.principals)
    PROVE  DecidesRightly(user, key, file)
<1>1. ASSUME Admits(user, key, file)
      PROVE  /\ user \in Names(key.principals)
             /\ Names(key.principals) \cap Lifecycle \cap file # {}
  <2>1. PICK i \in Stages(Listed(key)) : Listed(key)[i] \in file \ Ignored
    BY <1>1 DEF Admits
  <2>2. Listed(key)[i] \in Names(Listed(key)) /\ Listed(key)[i] \in Lifecycle
    BY DEF Stages, Names
  <2> QED BY <1>1, <2>1, <2>2, ListedFacts DEF Admits
<1>2. ASSUME Admits(user, key, file), Hidden(key) \cap Lifecycle = {}
      PROVE  MayLogIn(user, key, file)
  <2>1. PICK i \in Stages(Listed(key)) :
            Names(Listed(key)) \cap Lifecycle = {Listed(key)[i]}
    BY <1>2, ListedFacts, OneStage DEF Admits
  <2>2. \A j \in Stages(Listed(key)) : Listed(key)[j] = Listed(key)[i]
    BY <2>1 DEF Stages, Names
  <2>3. Listed(key)[i] \in Lifecycle \cap file
    BY <1>2, <2>2 DEF Admits, Stages
  <2>4. Names(key.principals) \cap Lifecycle = {Listed(key)[i]}
    BY <1>2, <2>1, ListedFacts
  <2>5. user \in Names(key.principals)
    BY <1>2, ListedFacts DEF Admits
  <2> QED BY <1>2, <2>3, <2>4, <2>5 DEF Admits, MayLogIn
<1>3. ASSUME MayLogIn(user, key, file), Hidden(key) \cap (Lifecycle \cup {user}) = {}
      PROVE  Admits(user, key, file)
  <2>1. PICK stage_ \in Lifecycle \cap file :
            Names(key.principals) \cap Lifecycle = {stage_}
    BY <1>3 DEF MayLogIn
  <2>2. stage_ \notin Hidden(key) /\ user \notin Hidden(key)
    BY <1>3
  <2>3. user \in Names(Listed(key)) /\ Names(Listed(key)) \cap Lifecycle = {stage_}
    BY <1>3, <2>1, <2>2, ListedFacts DEF MayLogIn
  <2>4. PICK i \in Stages(Listed(key)) : Listed(key)[i] = stage_
    BY <2>3 DEF Stages, Names
  <2>5. Cardinality(Stages(Listed(key))) = 1
    BY <2>3, <2>4, ListedFacts, OneStage
  <2>6. Listed(key)[i] \in file \ Ignored
    BY <2>1, <2>4, NameAssumption
  <2> QED BY <1>3, <2>3, <2>4, <2>5, <2>6 DEF Admits, MayLogIn
<1> QED BY <1>1, <1>2, <1>3 DEF DecidesRightly

(***************************************************************************)
(* For every user, key and stages file: the command lets no login in       *)
(* without its user and an allowed stage in the certificate, and departs   *)
(* from G-02 only where a capital name hides a stage or the user.          *)
(***************************************************************************)
THEOREM LoginsAreDecidedRightly == Spec => []LoginDecision
<1>1. LoginDecision
  BY KeyAssumption, CommandDecidesRightly DEF LoginDecision
<1> QED BY <1>1, PTL
=============================================================================
