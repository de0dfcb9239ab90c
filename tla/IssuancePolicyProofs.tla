------------------------ MODULE IssuancePolicyProofs ------------------------
(***************************************************************************)
(* Proofs about IssuancePolicy, for all settings and requests, with lists  *)
(* of any length, and over any number of restarts.                         *)
(*                                                                         *)
(* The properties speak of what is served now; rows signed long ago under  *)
(* other settings are served too.  The invariant is that a row is the      *)
(* certificate that its own hash input determines (RowsTell), whoever      *)
(* asked for it and under whatever settings: then a row found for a        *)
(* request is the certificate that would be signed for it now, except for  *)
(* the CA key, which the hash leaves out: that is one of the settings the  *)
(* row was signed under.                                                   *)
(***************************************************************************)
EXTENDS IssuancePolicy, ListsProofs

\* The certificate ssh-keygen signs with a CA key, given what is hashed.
CertificateOf(h, ca) ==
    [ca |-> ca, subject |-> h.subject, principals |-> Members(h.principals),
     minutes |-> Minutes(h.ttl), extensions |-> Members(h.permissions.extensions),
     options |-> h.permissions.options]

Fits(cert, h) == \E ca \in CaKeys(h.type) : cert = CertificateOf(h, ca)

RowsTell == \A h \in DOMAIN rows : Fits(rows[h], h)

ReplyFits ==
    reply # None =>
        /\ reply.status = 200 =>
              /\ Granted(config, reply.request)
              /\ Fits(reply.cert, HashInput(config, reply.request))
        /\ reply.status \notin {200, 500} => ~Granted(config, reply.request)

IInv == TypeOK /\ RowsTell /\ ReplyFits

(***************************************************************************)
(* The hash input leaves out nothing that ssh-keygen is told but the CA    *)
(* key, which is one that settings of a running broker have.               *)
(***************************************************************************)
LEMMA HashDetermines ==
    ASSUME NEW c \in Settings, startup_validation(c), NEW r
    PROVE  /\ Certificate(c, r) = CertificateOf(HashInput(c, r), c.ca[r.type])
           /\ Fits(Certificate(c, r), HashInput(c, r))
           /\ HashInput(c, r).type = r.type
BY DEF Certificate, CertificateOf, HashInput, Fits, CaKeys

LEMMA IInvInit == Init => IInv
BY DEF Init, IInv, TypeOK, RowsTell, ReplyFits

LEMMA ReplyTyped ==
    ASSUME TypeOK, config # None, NEW r \in Requests, NEW cert,
           NEW status \in {200, 401, 403, 422, 500},
           Reply(r, status, cert),
           status = 200 => Granted(config, r) /\ Fits(cert, HashInput(config, r)),
           status \notin {200, 500} => ~Granted(config, r),
           UNCHANGED rows, RowsTell
    PROVE  IInv'
BY DEF IInv, TypeOK, RowsTell, ReplyFits, Reply

LEMMA IInvStep == IInv /\ [Next]_vars => IInv'
<1> SUFFICES ASSUME IInv, [Next]_vars PROVE IInv'
  OBVIOUS
<1>1. ASSUME NEW c \in Settings, Boot(c) PROVE IInv'
  BY <1>1 DEF IInv, TypeOK, RowsTell, ReplyFits, Boot
<1>2. CASE Stop
  BY <1>2 DEF IInv, TypeOK, RowsTell, ReplyFits, Stop
<1>3. CASE Sent
  BY <1>3 DEF IInv, TypeOK, RowsTell, ReplyFits, Sent
<1>4. ASSUME NEW r \in Requests, Handle(r) PROVE IInv'
  <2>0. /\ TypeOK /\ RowsTell /\ config # None
        /\ config \in Settings /\ startup_validation(config)
    BY <1>4 DEF IInv, TypeOK, Handle
  <2>1. CASE Unauthenticated(r)
    <3> DEFINE status == IF r.bearer \in {None, ""} THEN 401 ELSE 403
    <3>0. ~Granted(config, r)
      BY <2>1 DEF Unauthenticated, Granted
    <3>1. Reply(r, status, None) /\ UNCHANGED rows
      BY <2>1 DEF Unauthenticated
    <3>2. status = 401 \/ status = 403
      OBVIOUS
    <3> HIDE DEF status
    <3>3. CASE status = 401
      BY <2>0, <3>1, <3>0, <3>3, ReplyTyped
    <3>4. CASE status = 403
      BY <2>0, <3>1, <3>0, <3>4, ReplyTyped
    <3> QED
      BY <3>2, <3>3, <3>4
  <2>2. CASE WrongRole(r)
    <3>1. Reply(r, 403, None) /\ UNCHANGED rows /\ ~Granted(config, r)
      BY <2>2 DEF WrongRole, Granted
    <3> QED
      BY <2>0, <3>1, ReplyTyped
  <2>3. CASE Invalid(r)
    <3>1. Reply(r, 422, None) /\ UNCHANGED rows /\ ~Granted(config, r)
      BY <2>3 DEF Invalid, Granted
    <3> QED
      BY <2>0, <3>1, ReplyTyped
  <2>4. CASE ProfileForbidden(r)
    <3>1. Reply(r, 403, None) /\ UNCHANGED rows /\ ~Granted(config, r)
      BY <2>4 DEF ProfileForbidden, Granted
    <3> QED
      BY <2>0, <3>1, ReplyTyped
  <2>5. CASE Reused(r)
    <3>1. Fits(rows[HashInput(config, r)], HashInput(config, r))
      BY <2>0, <2>5 DEF RowsTell, Reused
    <3>2. /\ Reply(r, 200, rows[HashInput(config, r)])
          /\ UNCHANGED rows /\ Granted(config, r)
      BY <2>5 DEF Reused
    <3> QED
      BY <2>0, <3>1, <3>2, ReplyTyped
  <2>6. CASE Signed(r)
    <3> DEFINE h == HashInput(config, r)
               cert == Certificate(config, r)
    <3>1. /\ DOMAIN rows' = DOMAIN rows \cup {h}
          /\ rows'[h] = cert
          /\ \A g \in DOMAIN rows : rows'[g] = rows[g]
      BY <2>6 DEF Signed, Updated
    <3>2. RowsTell'
      BY <2>0, <3>1, HashDetermines DEF RowsTell
    <3>3. cert.ca \in CaKeys("user") \cup CaKeys("host") /\ Fits(cert, h)
      BY <2>0, HashDetermines, PolicyAssumption DEF Certificate, CaKeys
    <3>4. Reply(r, 200, cert) /\ Granted(config, r)
      BY <2>6 DEF Signed
    <3> HIDE DEF h, cert
    <3>5. TypeOK'
      BY <2>0, <3>1, <3>3, <3>4 DEF TypeOK, Reply
    <3>6. ReplyFits'
      BY <3>3, <3>4 DEF ReplyFits, Reply, h
    <3> QED
      BY <3>2, <3>5, <3>6 DEF IInv
  <2>7. CASE SigningFails(r)
    <3>1. Reply(r, 500, None) /\ UNCHANGED rows
      BY <2>7 DEF SigningFails
    <3> QED
      BY <2>0, <3>1, ReplyTyped
  <2> QED
    BY <1>4, <2>1, <2>2, <2>3, <2>4, <2>5, <2>6, <2>7 DEF Handle
<1>5. CASE UNCHANGED vars
  BY <1>5 DEF IInv, TypeOK, RowsTell, ReplyFits, vars
<1> QED
  BY <1>1, <1>2, <1>3, <1>4, <1>5 DEF Next

LEMMA IInvCorrect == Spec => []IInv
BY IInvInit, IInvStep, PTL DEF Spec

(***************************************************************************)
(* Every row is of a user or host CA that settings name, the settings in   *)
(* force have passed startup validation, and every reply is to a request.  *)
(***************************************************************************)
THEOREM TypeCorrect == Spec => []TypeOK
<1>1. IInv => TypeOK
  BY DEF IInv
<1> QED
  BY <1>1, IInvCorrect, PTL

-----------------------------------------------------------------------------
(***************************************************************************)
(* What is known of whoever is served.                                     *)
(***************************************************************************)
LEMMA ServedFacts ==
    ASSUME IInv, Served
    PROVE  /\ reply.request \in Requests
           /\ config \in Settings /\ startup_validation(config)
           /\ Granted(config, reply.request)
           /\ reply.cert.ca \in CaKeys(reply.request.type)
           /\ reply.cert.subject = reply.request.subject
           /\ reply.cert.principals = Members(Principals(config, reply.request))
           /\ reply.cert.minutes = Minutes(Ttl(config, reply.request))
           /\ reply.cert.extensions
                 = Members(Permissions(config, reply.request).extensions)
           /\ reply.cert.options = Permissions(config, reply.request).options
<1>1. /\ Granted(config, reply.request) /\ reply.request \in Requests
      /\ config \in Settings /\ startup_validation(config)
      /\ Fits(reply.cert, HashInput(config, reply.request))
  BY DEF IInv, TypeOK, ReplyFits, Served
<1>2. PICK ca \in CaKeys(HashInput(config, reply.request).type) :
          reply.cert = CertificateOf(HashInput(config, reply.request), ca)
  BY <1>1 DEF Fits
<1> QED
  BY <1>1, <1>2 DEF CertificateOf, HashInput

(***************************************************************************)
(* Principals: an empty request stands for all that are allowed, and the   *)
(* list without its repetitions has no member the list has not.            *)
(***************************************************************************)
LEMMA PrincipalsAllowed ==
    ASSUME NEW c \in Settings, NEW r \in Requests, r.type = "user",
           validate_principals(c, r)
    PROVE  Members(Principals(c, r)) \subseteq Members(c.allowed)
<1>1. Requested(c, r) \in Seq(Members(Requested(c, r)))
  BY PolicyAssumption DEF Requested
<1>2. Members(Distinct(Requested(c, r))) \subseteq Members(Requested(c, r))
  BY <1>1, DistinctMembers
<1> QED
  BY <1>2 DEF Principals, validate_principals

(***************************************************************************)
(* No role but admin may use the profile whose extensions callers choose.  *)
(***************************************************************************)
LEMMA CustomIsForAdmin ==
    \A role \in UserSignRoles \ {"admin"} :
        ROLE_ALLOWED_PROFILES[role] \subseteq DOMAIN BUILTIN_PROFILES
BY DEF UserSignRoles, ROLE_ALLOWED_PROFILES, BUILTIN_PROFILES

LEMMA BuiltinExtensions ==
    ASSUME NEW c, NEW r, ProfileName(c, r) \in DOMAIN BUILTIN_PROFILES
    PROVE  /\ resolve_profile(c, r).extensions = BUILTIN_PROFILES[ProfileName(c, r)]
           /\ resolve_profile(c, r).options = Shorthands(r)
<1>1. ProfileName(c, r) # "custom"
  BY DEF BUILTIN_PROFILES
<1> QED
  BY <1>1 DEF resolve_profile

(***************************************************************************)
(* Whoever is served, freshly or from a row left behind by another role,   *)
(* profile or configuration, is permitted what it gets by the settings in  *)
(* force; only the CA key may be one of earlier settings, of the same type.*)
(***************************************************************************)
THEOREM ServedArePermitted == Spec => []OnlyPermitted
<1>1. IInv => OnlyPermitted
  <2> SUFFICES ASSUME IInv, Served PROVE OnlyPermitted
    BY DEF OnlyPermitted
  <2> DEFINE r == reply.request
             role == RoleOf(config, r)
             name == ProfileName(config, r)
  <2>1. /\ r \in Requests /\ config \in Settings
        /\ Authenticated(config, r) /\ role \in SignRoles(r.type)
        /\ Valid(config, r) /\ check_role_profile_access(config, r)
    BY ServedFacts DEF Granted, MaySign
  <2>2. /\ reply.cert.ca \in CaKeys(r.type) /\ reply.cert.subject = r.subject
        /\ reply.cert.principals = Members(Principals(config, r))
        /\ reply.cert.minutes = Minutes(Ttl(config, r))
        /\ reply.cert.extensions = Members(Permissions(config, r).extensions)
    BY ServedFacts
  <2>3. reply.cert.minutes <= 60 * MaxHours(config, r)
    BY <2>1, <2>2 DEF Valid, normalize_ttl
  <2>4. r.type = "user" => reply.cert.principals \subseteq Members(config.allowed)
    BY <2>1, <2>2, PrincipalsAllowed DEF Valid
  <2>5. ASSUME r.type = "user", role # "admin"
        PROVE  /\ name \in ROLE_ALLOWED_PROFILES[role]
               /\ reply.cert.extensions = Members(BUILTIN_PROFILES[name])
    <3>1. name \in ROLE_ALLOWED_PROFILES[role] /\ role \in UserSignRoles
      BY <2>1, <2>5 DEF check_role_profile_access, SignRoles
    <3>2. name \in DOMAIN BUILTIN_PROFILES
      BY <2>5, <3>1, CustomIsForAdmin
    <3>3. Permissions(config, r).extensions = BUILTIN_PROFILES[name]
      BY <2>5, <3>2, BuiltinExtensions DEF Permissions
    <3> QED
      BY <2>2, <3>1, <3>3
  <2>6. r.type = "host" => reply.cert.extensions = {}
    BY <2>2 DEF Permissions, Members
  <2> HIDE DEF r, role, name
  <2> QED
    BY <2>1, <2>2, <2>3, <2>4, <2>5, <2>6 DEF OnlyPermitted, r, role
<1> QED
  BY <1>1, IInvCorrect, PTL

-----------------------------------------------------------------------------
(***************************************************************************)
(* Shorthands reach the options of every profile.                          *)
(***************************************************************************)
LEMMA ShorthandsKept ==
    ASSUME NEW c, NEW r
    PROVE  /\ DOMAIN Shorthands(r) \subseteq DOMAIN resolve_profile(c, r).options
           /\ \A k \in DOMAIN Shorthands(r) :
                 resolve_profile(c, r).options[k] = Shorthands(r)[k]
BY DEF resolve_profile, Updated

LEMMA ShorthandsGiven ==
    ASSUME NEW r
    PROVE  /\ r.source # None => /\ "source-address" \in DOMAIN Shorthands(r)
                                 /\ Shorthands(r)["source-address"] = r.source
           /\ r.force \notin {None, ""} =>
                 /\ "force-command" \in DOMAIN Shorthands(r)
                 /\ Shorthands(r)["force-command"] = r.force
BY DEF Shorthands

LEMMA CustomOptionsKept ==
    ASSUME NEW c, NEW r, ProfileName(c, r) = "custom"
    PROVE  \A k \in DOMAIN r.options \ DOMAIN Shorthands(r) :
              /\ k \in DOMAIN resolve_profile(c, r).options
              /\ resolve_profile(c, r).options[k] = StrippedOptions(r)[k]
<1>1. DOMAIN StrippedOptions(r) = DOMAIN r.options
  BY DEF StrippedOptions
<1>2. resolve_profile(c, r).options = Updated(StrippedOptions(r), Shorthands(r))
  BY DEF resolve_profile
<1> QED
  BY <1>1, <1>2 DEF Updated

(***************************************************************************)
(* Every restriction a caller asks for, as a shorthand or with a custom    *)
(* profile, is in the certificate it gets, with the value asked for; and   *)
(* none but shorthands with a built-in profile.                            *)
(***************************************************************************)
THEOREM RestrictionsAreKept == Spec => []RestrictionsKept
<1>1. IInv => RestrictionsKept
  <2> SUFFICES ASSUME IInv, Served, reply.request.type = "user"
               PROVE  RestrictionsKept
    BY DEF RestrictionsKept
  <2> DEFINE r == reply.request
  <2>1. reply.cert.options = resolve_profile(config, r).options
    BY ServedFacts DEF Permissions
  <2>2. r.profile = "custom" <=> ProfileName(config, r) = "custom"
    <3>1. config.profile \in DOMAIN BUILTIN_PROFILES
      BY ServedFacts DEF startup_validation
    <3>2. config.profile # "custom"
      BY <3>1 DEF BUILTIN_PROFILES
    <3> QED
      BY <3>2, PolicyAssumption DEF ProfileName
  <2> DEFINE got == reply.cert.options
  <2>3. /\ DOMAIN Shorthands(r) \subseteq DOMAIN got
        /\ \A k \in DOMAIN Shorthands(r) : got[k] = Shorthands(r)[k]
    BY <2>1, ShorthandsKept
  <2>4. /\ r.source # None => /\ "source-address" \in DOMAIN got
                              /\ got["source-address"] = r.source
        /\ r.force \notin {None, ""} => /\ "force-command" \in DOMAIN got
                                        /\ got["force-command"] = r.force
    BY <2>3, ShorthandsGiven
  <2>5. r.profile = "custom" =>
          \A k \in DOMAIN r.options \ DOMAIN Shorthands(r) :
              k \in DOMAIN got /\ got[k] = StrippedOptions(r)[k]
    BY <2>1, <2>2, CustomOptionsKept
  <2>6. r.profile # "custom" => DOMAIN got \subseteq {"source-address", "force-command"}
    BY <2>1, <2>2 DEF resolve_profile, Shorthands
  <2> HIDE DEF got
  <2> QED
    BY <2>4, <2>5, <2>6 DEF RestrictionsKept, got
<1> QED
  BY <1>1, IInvCorrect, PTL

(***************************************************************************)
(* The lifetime is the one asked for, or the default of the settings in    *)
(* force, also when a row of another configuration answers.                *)
(***************************************************************************)
THEOREM LifetimesAreAsAsked == Spec => []LifetimeAsAsked
<1>1. IInv => LifetimeAsAsked
  <2> SUFFICES ASSUME IInv, Served PROVE LifetimeAsAsked
    BY DEF LifetimeAsAsked
  <2>1. reply.cert.minutes = Minutes(Ttl(config, reply.request))
    BY ServedFacts
  <2>2. \A n : Minutes([n |-> n, unit |-> "h"]) = 60 * n
    BY DEF Minutes
  <2> QED
    BY <2>1, <2>2 DEF LifetimeAsAsked, Ttl
<1> QED
  BY <1>1, IInvCorrect, PTL

-----------------------------------------------------------------------------
(***************************************************************************)
(* Under settings that startup lets pass, whatever is left to the defaults *)
(* is valid.                                                               *)
(***************************************************************************)
LEMMA DefaultsValid ==
    ASSUME NEW c \in Settings, startup_validation(c),
           NEW r \in Requests, LeftToDefaults(r)
    PROVE  Valid(c, r)
<1>1. normalize_ttl(c, r)
  <2>1. Ttl(c, r) = [n |-> DefaultHours(c, r), unit |-> "h"]
    BY DEF Ttl, LeftToDefaults
  <2>2. /\ DefaultHours(c, r) \in Int /\ MaxHours(c, r) \in Int
        /\ 0 < DefaultHours(c, r) /\ DefaultHours(c, r) <= MaxHours(c, r)
    BY PolicyAssumption DEF DefaultHours, MaxHours, startup_validation
  <2>3. Minutes(Ttl(c, r)) = 60 * DefaultHours(c, r)
    BY <2>1 DEF Minutes
  <2>4. 60 * DefaultHours(c, r) <= 60 * MaxHours(c, r)
    BY <2>2
  <2> QED
    BY <2>1, <2>2, <2>3, <2>4 DEF normalize_ttl
<1>2. CASE r.type = "user"
  <2>1. validate_principals(c, r)
    BY <1>2 DEF LeftToDefaults, validate_principals, Requested, startup_validation
  <2>2. ProfileName(c, r) \in PROFILE_NAMES
    BY <1>2 DEF LeftToDefaults, ProfileName, startup_validation, PROFILE_NAMES
  <2>3. validate_overrides(r)
    BY <1>2 DEF LeftToDefaults, validate_overrides, Members
  <2> QED
    BY <1>1, <1>2, <2>1, <2>2, <2>3 DEF Valid, LeftToDefaults
<1>3. CASE r.type = "host"
  <2>1. \A p \in Members(r.principals) : p.kind = "name"
    BY <1>3 DEF LeftToDefaults
  <2>2. r.principals[1] \in Members(r.principals)
    <3>1. r.principals \in Seq(Members(r.principals)) /\ r.principals # <<>>
      BY <1>3, PolicyAssumption DEF LeftToDefaults
    <3> QED
      BY <3>1 DEF Members
  <2>3. validate_principals(c, r)
    BY <1>3, <2>1, <2>2 DEF validate_principals
  <2> QED
    BY <1>1, <1>3, <2>3 DEF Valid, LeftToDefaults
<1> QED
  BY <1>2, <1>3, PolicyAssumption

(***************************************************************************)
(* Startup validation does what it is for: a request that leaves things to *)
(* the defaults, from a role that may sign and may use the default         *)
(* profile, is refused by no check.                                        *)
(***************************************************************************)
THEOREM DefaultsAreAccepted == Spec => []DefaultsAccepted
<1>1. IInv => DefaultsAccepted
  BY DefaultsValid DEF IInv, TypeOK, ReplyFits, DefaultsAccepted, Granted
<1> QED
  BY <1>1, IInvCorrect, PTL
=============================================================================
