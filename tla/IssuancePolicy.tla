--------------------------- MODULE IssuancePolicy ---------------------------
(***************************************************************************)
(* Who gets which certificate: the start of the broker (app/config.py,     *)
(* app/main.py), its bearer tokens (app/security/auth.py) and everything   *)
(* the handlers of POST /v1/sign/user and POST /v1/sign/host check and     *)
(* compute before and after sign_certificate (app/api/routes.py,           *)
(* app/utils/validators.py, app/services/extension_profiles.py).           *)
(*                                                                         *)
(* A request is handled in one step here; the interleaving of threads is   *)
(* the subject of SigningService.  What this module adds is the life of    *)
(* the rows: they are found by a hash that names neither the role, nor the *)
(* profile, nor the CA key, nor any other setting they were signed under,  *)
(* and they outlive restarts with other settings.                          *)
(***************************************************************************)
EXTENDS Lists, Integers

CONSTANTS
    Settings,       \* configurations an operator may start the broker with
    Requests,       \* requests that callers may send
    MaxRows,        \* bound: rows of the idempotency store
    None            \* field absent, no reply

ASSUME PolicyAssumption ==
    /\ MaxRows \in Nat
    /\ \A c \in Settings :
          /\ {c.userDefault, c.userMax, c.hostDefault, c.hostMax} \subseteq Int
          /\ c.allowed \in Seq(Members(c.allowed))
    /\ \A r \in Requests : /\ r.type \in {"user", "host"}
                           /\ r.principals \in Seq(Members(r.principals))
    /\ None # "custom"

VARIABLES
    config,     \* the settings the running broker was started with, or None
    rows,       \* table sign_requests: [hash input -> certificate]
    reply       \* the request being answered and what came of it, or None

vars == <<config, rows, reply>>

-----------------------------------------------------------------------------
(***************************************************************************)
(* Profiles, roles and their names.                                        *)
(***************************************************************************)
KNOWN_EXTENSIONS ==
    {"permit-pty", "permit-port-forwarding", "permit-agent-forwarding",
     "permit-X11-forwarding", "permit-user-rc", "no-touch-required"}

KNOWN_CRITICAL_OPTION_KEYS ==
    {"force-command", "source-address", "verify-required"}

BUILTIN_PROFILES ==
    [zf_production   |-> <<"permit-pty">>,
     development     |-> <<"permit-pty", "permit-port-forwarding",
                           "permit-agent-forwarding">>,
     oem_production  |-> <<"permit-pty">>,
     field_operation |-> <<"permit-pty", "permit-port-forwarding">>,
     claims_warranty |-> <<"permit-pty">>,
     end_of_life     |-> <<"permit-pty">>]

PROFILE_NAMES == DOMAIN BUILTIN_PROFILES \cup {"custom"}

ROLE_ALLOWED_PROFILES ==
    [dev     |-> {"development", "zf_production"},
     prod    |-> {"zf_production", "oem_production", "field_operation",
                  "end_of_life"},
     claims  |-> {"claims_warranty", "field_operation"},
     OEMprod |-> {"oem_production", "field_operation"},
     server  |-> {},
     admin   |-> PROFILE_NAMES]

\* The order in which token_map lists the roles.
RoleOrder == <<"dev", "prod", "claims", "OEMprod", "server", "admin">>
UserSignRoles == {"dev", "prod", "claims", "OEMprod", "admin"}
HostSignRoles == {"server", "admin"}
SignRoles(type) == IF type = "user" THEN UserSignRoles ELSE HostSignRoles

(***************************************************************************)
(* Startup validation.  A configured token is [text, padded]: its text     *)
(* without, and whether there are, surrounding blanks.                     *)
(***************************************************************************)
PLACEHOLDERS == {"change-me-dev", "admin-token-123"}

\* Mutant: the defaults are no longer compared with the maxima.
startup_validation_NoCompare(c) ==
    /\ c.profile \in DOMAIN BUILTIN_PROFILES
    /\ c.allowed # <<>>
    /\ 0 < c.userDefault /\ 0 < c.userMax
    /\ 0 < c.hostDefault /\ 0 < c.hostMax
    /\ c.url \in {"https", "local"}
    /\ \A role \in Members(RoleOrder) : c.tokens[role].text \notin PLACEHOLDERS
    /\ c.tokens["server"].text # ""
    /\ \E role \in UserSignRoles : c.tokens[role].text # ""
    /\ c.filesReady

startup_validation(c) ==
    /\ c.profile \in DOMAIN BUILTIN_PROFILES
    /\ c.allowed # <<>>
    /\ 0 < c.userDefault /\ c.userDefault <= c.userMax
    /\ 0 < c.hostDefault /\ c.hostDefault <= c.hostMax
    /\ c.url \in {"https", "local"}
    /\ \A role \in Members(RoleOrder) : c.tokens[role].text \notin PLACEHOLDERS
    /\ c.tokens["server"].text # ""
    /\ \E role \in UserSignRoles : c.tokens[role].text # ""
    /\ c.filesReady

(***************************************************************************)
(* require_auth: the first role whose token equals the stripped bearer     *)
(* token; a padded token equals none.                                      *)
(***************************************************************************)
Holders(c, bearer) ==
    {i \in DOMAIN RoleOrder : c.tokens[RoleOrder[i]] = [text |-> bearer,
                                                        padded |-> FALSE]}

Authenticated(c, r) == r.bearer \notin {None, ""} /\ Holders(c, r.bearer) # {}

RoleOf(c, r) ==
    RoleOrder[CHOOSE i \in Holders(c, r.bearer) :
                  \A j \in Holders(c, r.bearer) : i <= j]

-----------------------------------------------------------------------------
(***************************************************************************)
(* normalize_ttl.  A ttl is [n, unit]; the text asked for is kept, so that *)
(* "24h" and "1d" are two different requests.                              *)
(***************************************************************************)
Minutes(ttl) == [m |-> 1, h |-> 60, d |-> 1440][ttl.unit] * ttl.n

DefaultHours(c, r) == IF r.type = "user" THEN c.userDefault ELSE c.hostDefault
MaxHours(c, r) == IF r.type = "user" THEN c.userMax ELSE c.hostMax

Ttl(c, r) == IF r.ttl = None THEN [n |-> DefaultHours(c, r), unit |-> "h"]
             ELSE r.ttl

normalize_ttl(c, r) ==
    LET ttl == Ttl(c, r) IN
    /\ ttl.unit \in {"m", "h", "d"}
    /\ 0 < ttl.n
    /\ Minutes(ttl) <= 60 * MaxHours(c, r)

(***************************************************************************)
(* Principals.  A host principal is [kind, name, raw]: its stripped text   *)
(* in lower case, and whether it was written in another way.               *)
(***************************************************************************)
Requested(c, r) ==
    IF r.type = "user" /\ r.principals = <<>> THEN c.allowed ELSE r.principals

validate_principals(c, r) ==
    IF r.type = "user"
    THEN Members(Requested(c, r)) \subseteq Members(c.allowed)
         /\ Requested(c, r) # <<>>
    ELSE /\ \A p \in Members(r.principals) : p.kind # "invalid"
         /\ \E p \in Members(r.principals) : p.kind # "blank"

Principals(c, r) ==
    IF r.type = "user" THEN Distinct(Requested(c, r))
    ELSE LET named == Pick(r.principals, {i \in DOMAIN r.principals :
                                             r.principals[i].kind # "blank"})
         IN  Distinct([i \in DOMAIN named |-> named[i].name])

(***************************************************************************)
(* Permissions.  A source address is [parts, padded]: the stripped pieces  *)
(* between its commas, and whether blanks surround the whole.              *)
(***************************************************************************)
BlankCommand(text) == text \in {"", " "}

validate_source_address(a) ==
    a.parts # <<"">> /\ Members(a.parts) \subseteq {"", "10.0.0.0/8", "192.0.2.7"}

validate_overrides(r) ==
    /\ Members(r.extensions) \subseteq KNOWN_EXTENSIONS
    /\ DOMAIN r.options \subseteq KNOWN_CRITICAL_OPTION_KEYS
    /\ "source-address" \in DOMAIN r.options =>
          validate_source_address(r.options["source-address"])
    /\ "force-command" \in DOMAIN r.options =>
          ~BlankCommand(r.options["force-command"])
    /\ r.source # None => validate_source_address(r.source)

NoOptions == [k \in {} |-> None]

StrippedOptions(r) ==
    [k \in DOMAIN r.options |->
        IF k = "source-address" THEN [r.options[k] EXCEPT !.padded = FALSE]
                                ELSE r.options[k]]

ProfileName(c, r) == IF r.profile = None THEN c.profile ELSE r.profile

\* The shorthands are added for every profile; only empty ones are left out.
Shorthands(r) ==
    [k \in {key \in {"source-address", "force-command"} :
               IF key = "source-address" THEN r.source # None
                                         ELSE r.force \notin {None, ""}} |->
        IF k = "source-address" THEN r.source ELSE r.force]

\* Python's dict.update: the entries of "new" replace those of "old".
Updated(old, new) ==
    [k \in DOMAIN old \cup DOMAIN new |->
        IF k \in DOMAIN new THEN new[k] ELSE old[k]]

\* Mutant: the shorthands are only added to profiles other than custom.
resolve_profile_CustomOnly(c, r) ==
    LET name == ProfileName(c, r) IN
    IF name = "custom"
    THEN [extensions |-> Distinct(r.extensions), options |-> StrippedOptions(r)]
    ELSE [extensions |-> BUILTIN_PROFILES[name], options |-> Shorthands(r)]

resolve_profile(c, r) ==
    LET name == ProfileName(c, r) IN
    IF name = "custom"
    THEN [extensions |-> Distinct(r.extensions),
          options |-> Updated(StrippedOptions(r), Shorthands(r))]
    ELSE [extensions |-> BUILTIN_PROFILES[name], options |-> Shorthands(r)]

-----------------------------------------------------------------------------
(***************************************************************************)
(* The checks of one request, in the order the code makes them.            *)
(***************************************************************************)
MaySign(c, r) == RoleOf(c, r) \in SignRoles(r.type)

Valid(c, r) ==
    /\ r.subject # "malformed"
    /\ validate_principals(c, r)
    /\ normalize_ttl(c, r)
    /\ r.type = "user" => /\ validate_overrides(r)
                          /\ ProfileName(c, r) \in PROFILE_NAMES

check_role_profile_access(c, r) ==
    r.type = "user" =>
        ProfileName(c, r) \in ROLE_ALLOWED_PROFILES[RoleOf(c, r)]

Granted(c, r) ==
    /\ Authenticated(c, r)
    /\ MaySign(c, r)
    /\ Valid(c, r)
    /\ check_role_profile_access(c, r)

(***************************************************************************)
(* What sign_certificate hashes.  ssh-keygen is told all of it, and the CA *)
(* key, a setting that is not hashed.                                      *)
(***************************************************************************)
Permissions(c, r) ==
    IF r.type = "user" THEN resolve_profile(c, r)
    ELSE [extensions |-> <<>>, options |-> NoOptions]

\* Mutant: the permissions are left out of the hash.
HashInput_NoPermissions(c, r) ==
    [type |-> r.type, subject |-> r.subject, principals |-> Principals(c, r),
     ttl |-> Ttl(c, r)]

\* Mutant: the ttl of the payload is hashed instead of the normalized one.
HashInput_PayloadTtl(c, r) ==
    [type |-> r.type, subject |-> r.subject, principals |-> Principals(c, r),
     ttl |-> r.ttl, permissions |-> Permissions(c, r)]

HashInput(c, r) ==
    [type |-> r.type, subject |-> r.subject, principals |-> Principals(c, r),
     ttl |-> Ttl(c, r), permissions |-> Permissions(c, r)]

\* ssh-keygen -s: "-O clear" and one flag per extension and option.
Certificate(c, r) ==
    [ca |-> c.ca[r.type], subject |-> r.subject,
     principals |-> Members(Principals(c, r)), minutes |-> Minutes(Ttl(c, r)),
     extensions |-> Members(Permissions(c, r).extensions),
     options |-> Permissions(c, r).options]

-----------------------------------------------------------------------------
Init ==
    /\ config = None
    /\ rows = [h \in {} |-> None]
    /\ reply = None

\* Mutant: the broker is served by an ASGI server that skips the self check.
Boot_Unchecked(c) ==
    /\ config = None
    /\ config' = c
    /\ UNCHANGED <<rows, reply>>

\* main, ensure_startup_ready: with other settings the process ends at once.
Boot(c) ==
    /\ config = None
    /\ startup_validation(c)
    /\ config' = c
    /\ UNCHANGED <<rows, reply>>

Stop ==
    /\ config # None
    /\ config' = None
    /\ reply' = None
    /\ UNCHANGED rows

Reply(r, status, cert) ==
    /\ reply' = [request |-> r, status |-> status, cert |-> cert]
    /\ UNCHANGED config

\* The response is sent; the next request may be handled.
Sent ==
    /\ reply # None
    /\ reply' = None
    /\ UNCHANGED <<config, rows>>

(***************************************************************************)
(* Requests that are refused, none of them with an audit line.             *)
(***************************************************************************)
Unauthenticated(r) ==
    /\ ~Authenticated(config, r)
    /\ Reply(r, IF r.bearer \in {None, ""} THEN 401 ELSE 403, None)
    /\ UNCHANGED rows

WrongRole(r) ==
    /\ Authenticated(config, r) /\ ~MaySign(config, r)
    /\ Reply(r, 403, None)
    /\ UNCHANGED rows

Invalid(r) ==
    /\ Authenticated(config, r) /\ MaySign(config, r) /\ ~Valid(config, r)
    /\ Reply(r, 422, None)
    /\ UNCHANGED rows

ProfileForbidden(r) ==
    /\ Authenticated(config, r) /\ MaySign(config, r) /\ Valid(config, r)
    /\ ~check_role_profile_access(config, r)
    /\ Reply(r, 403, None)
    /\ UNCHANGED rows

(***************************************************************************)
(* Requests that reach sign_certificate.                                   *)
(***************************************************************************)
Reused(r) ==
    /\ Granted(config, r)
    /\ HashInput(config, r) \in DOMAIN rows
    /\ Reply(r, 200, rows[HashInput(config, r)])
    /\ UNCHANGED rows

Signed(r) ==
    LET h == HashInput(config, r)
        cert == Certificate(config, r) IN
    /\ Granted(config, r)
    /\ h \notin DOMAIN rows
    /\ Cardinality(DOMAIN rows) < MaxRows
    /\ rows' = Updated(rows, [k \in {h} |-> cert])
    /\ Reply(r, 200, cert)

SigningFails(r) ==
    /\ Granted(config, r)
    /\ HashInput(config, r) \notin DOMAIN rows
    /\ Reply(r, 500, None)
    /\ UNCHANGED rows

Handle(r) ==
    /\ config # None /\ reply = None
    /\ \/ Unauthenticated(r) \/ WrongRole(r) \/ Invalid(r) \/ ProfileForbidden(r)
       \/ Reused(r) \/ Signed(r) \/ SigningFails(r)

Next ==
    \/ \E c \in Settings : Boot(c)
    \/ Stop \/ Sent
    \/ \E r \in Requests : Handle(r)

Spec == Init /\ [][Next]_vars

-----------------------------------------------------------------------------
\* The keys that the broker, started with whatever settings, signs with.
CaKeys(type) == {c.ca[type] : c \in {s \in Settings : startup_validation(s)}}

TypeOK ==
    /\ config # None => config \in Settings /\ startup_validation(config)
    /\ \A h \in DOMAIN rows : rows[h].ca \in CaKeys("user") \cup CaKeys("host")
    /\ reply # None => /\ config # None
                       /\ reply.request \in Requests
                       /\ reply.status \in {200, 401, 403, 422, 500}

Served == reply # None /\ reply.status = 200

(***************************************************************************)
(* Whoever gets a certificate, freshly signed or from a row that another   *)
(* role, profile or configuration left behind, is permitted it by the      *)
(* settings in force: the role may sign this type; principals and lifetime *)
(* are within the limits of now; and without the admin role the extensions *)
(* are exactly those of a profile the role may use.                        *)
(*                                                                         *)
(* The CA key is the exception.  It is one for certificates of this type,  *)
(* but of the settings the row was signed under: after a CA rotation that  *)
(* keeps the table, callers still get certificates of the retired CA.      *)
(***************************************************************************)
OnlyPermitted ==
    Served =>
        LET r == reply.request
            role == RoleOf(config, r) IN
        /\ Authenticated(config, r) /\ role \in SignRoles(r.type)
        /\ reply.cert.ca \in CaKeys(r.type) /\ reply.cert.subject = r.subject
        /\ reply.cert.minutes <= 60 * MaxHours(config, r)
        /\ r.type = "user" =>
              reply.cert.principals \subseteq Members(config.allowed)
        /\ r.type = "user" /\ role # "admin" =>
              \E p \in ROLE_ALLOWED_PROFILES[role] :
                  reply.cert.extensions = Members(BUILTIN_PROFILES[p])
        /\ r.type = "host" => reply.cert.extensions = {}

(***************************************************************************)
(* The restrictions a caller asks for are in the certificate it gets, with *)
(* the value asked for: a source address or forced command given as a      *)
(* shorthand, for any profile; and each critical option of a custom        *)
(* profile, unless a shorthand takes its place.  Options sent along with a *)
(* built-in profile are dropped, which resolve_profile documents: nothing  *)
(* but shorthands restricts such a certificate.                            *)
(***************************************************************************)
RestrictionsKept ==
    Served /\ reply.request.type = "user" =>
        LET r == reply.request
            got == reply.cert.options IN
        /\ r.source # None => /\ "source-address" \in DOMAIN got
                              /\ got["source-address"] = r.source
        /\ r.force \notin {None, ""} => /\ "force-command" \in DOMAIN got
                                        /\ got["force-command"] = r.force
        /\ r.profile = "custom" =>
              \A k \in DOMAIN r.options \ DOMAIN Shorthands(r) :
                  k \in DOMAIN got /\ got[k] = StrippedOptions(r)[k]
        /\ r.profile # "custom" =>
              DOMAIN got \subseteq {"source-address", "force-command"}

(***************************************************************************)
(* The certificate lives as long as the caller asked for or, when it asked *)
(* for nothing, as long as the default of the settings in force says, also *)
(* after restarts that change the default.                                 *)
(***************************************************************************)
LifetimeAsAsked ==
    Served =>
        LET r == reply.request IN
        reply.cert.minutes = IF r.ttl = None THEN 60 * DefaultHours(config, r)
                                             ELSE Minutes(r.ttl)

(***************************************************************************)
(* What startup validation is for: under settings that pass it, a request  *)
(* that leaves things to the defaults is as good as one that spells them   *)
(* out, and only fails if signing does.  A role that may not use the       *)
(* default profile, such as dev with field_operation, is refused: startup  *)
(* does not compare the default profile with the roles.                    *)
(***************************************************************************)
LeftToDefaults(r) ==
    /\ r.subject # "malformed" /\ r.ttl = None
    /\ r.type = "user" => /\ r.principals = <<>> /\ r.profile = None
                          /\ r.extensions = <<>> /\ DOMAIN r.options = {}
                          /\ r.source = None
    /\ r.type = "host" => \A p \in Members(r.principals) : p.kind = "name"
    /\ r.type = "host" => r.principals # <<>>

DefaultsAccepted ==
    reply # None =>
        LET r == reply.request IN
        /\ LeftToDefaults(r) /\ Authenticated(config, r) /\ MaySign(config, r)
        /\ check_role_profile_access(config, r)
        => reply.status \in {200, 500}
=============================================================================
