-------------------------- MODULE MCIssuancePolicy --------------------------
(***************************************************************************)
(* Settings and requests for TLC: tokens that are rotated to another role, *)
(* shared by two roles or padded; limits, defaults and CA keys that change *)
(* over a restart; settings that must not start.                           *)
(***************************************************************************)
EXTENDS IssuancePolicy, TLC

Plain(text) == [text |-> text, padded |-> FALSE]
Tokens(dev, prod, claims, server, admin) ==
    [dev |-> Plain(dev), prod |-> Plain(prod), claims |-> Plain(claims),
     OEMprod |-> Plain(""), server |-> Plain(server), admin |-> Plain(admin)]

Base ==
    [tokens |-> Tokens("d", "p", "", "s", "a"),
     allowed |-> <<"rocky", "root", "rocky">>, profile |-> "field_operation",
     userDefault |-> 24, userMax |-> 168,
     hostDefault |-> 26280, hostMax |-> 26280,
     url |-> "https", filesReady |-> TRUE,
     ca |-> [user |-> "user CA", host |-> "host CA"]]

MCSettings ==
    {Base,
     \* shorter lifetimes, fewer principals, the prod token given to claims
     [Base EXCEPT !.tokens = Tokens("d", "", "p", "s", "a"),
                  !.allowed = <<"rocky">>, !.userDefault = 8, !.userMax = 12],
     \* one token for two roles; a default profile that dev may use
     [Base EXCEPT !.tokens = Tokens("d", "p", "", "d", ""),
                  !.profile = "development", !.userDefault = 8],
     \* the user CA rotated, nothing else changed
     [Base EXCEPT !.ca.user = "new user CA"],
     \* a padded token
     [Base EXCEPT !.tokens["server"] = [text |-> "s", padded |-> TRUE],
                  !.url = "local"],
     \* settings that must not start
     [Base EXCEPT !.userDefault = 200],
     [Base EXCEPT !.profile = "custom"],
     [Base EXCEPT !.tokens["admin"] = Plain("admin-token-123")],
     [Base EXCEPT !.tokens["server"] = [text |-> "", padded |-> TRUE]],
     [Base EXCEPT !.url = "http"]}

UserRequest ==
    [type |-> "user", bearer |-> "d", subject |-> "k", principals |-> <<>>,
     ttl |-> None, profile |-> None, extensions |-> <<>>,
     options |-> NoOptions, source |-> None, force |-> None]

HostRequest ==
    [type |-> "host", bearer |-> "s", subject |-> "k", ttl |-> None,
     principals |-> <<[kind |-> "name", name |-> "rocky", raw |-> TRUE],
                      [kind |-> "name", name |-> "rocky", raw |-> FALSE]>>]

Cidr == [parts |-> <<"10.0.0.0/8", "">>, padded |-> TRUE]
Hours(n) == [n |-> n, unit |-> "h"]

MCUserRequests ==
    {[UserRequest EXCEPT !.bearer = b, !.profile = p, !.ttl = t] :
        b \in {"d", "p", "a"},
        p \in {None, "zf_production", "development"},
        t \in {None, Hours(24)}}
    \cup {[UserRequest EXCEPT !.bearer = b] : b \in {None, "", "x", "s"}}
    \cup {[UserRequest EXCEPT !.bearer = b, !.profile = "custom",
                               !.extensions = e] :
            b \in {"d", "a"}, e \in {<<>>, <<"permit-pty", "permit-pty">>}}
    \cup {[UserRequest EXCEPT !.profile = "zf_production",
                               !.extensions = <<"permit-X11-forwarding">>,
                               !.source = s, !.force = f] :
            s \in {None, Cidr}, f \in {None, "", "run"}}
    \cup {[UserRequest EXCEPT !.bearer = "a", !.profile = "custom",
                               !.options = o, !.force = f] :
            o \in {"force-command" :> "diag", "source-address" :> Cidr,
                   "verify-required" :> "", "force-command" :> " "},
            f \in {None, "run"}}
    \cup {[UserRequest EXCEPT !.profile = "zf_production",
                               !.options = "force-command" :> "diag"]}
    \cup {[UserRequest EXCEPT !.subject = "malformed"],
          [UserRequest EXCEPT !.profile = "unknown"],
          [UserRequest EXCEPT !.principals = <<"root", "root">>],
          [UserRequest EXCEPT !.principals = <<"guest">>],
          [UserRequest EXCEPT !.extensions = <<"permit-all">>],
          [UserRequest EXCEPT !.source = [parts |-> <<"">>, padded |-> TRUE]],
          [UserRequest EXCEPT !.ttl = [n |-> 0, unit |-> "h"]],
          [UserRequest EXCEPT !.ttl = [n |-> 1, unit |-> "d"]],
          [UserRequest EXCEPT !.ttl = [n |-> 10081, unit |-> "m"]],
          [UserRequest EXCEPT !.ttl = [n |-> 1, unit |-> "w"]]}

MCHostRequests ==
    {[HostRequest EXCEPT !.bearer = b] : b \in {"d", "s", "a", "x"}}
    \cup {[HostRequest EXCEPT !.principals = <<>>],
          [HostRequest EXCEPT !.ttl = [n |-> 1096, unit |-> "d"]],
          [HostRequest EXCEPT !.principals[1].kind = "invalid"],
          [HostRequest EXCEPT !.principals[1].kind = "blank"]}

MCRequests == MCUserRequests \cup MCHostRequests
=============================================================================
