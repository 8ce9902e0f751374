------------------------------ MODULE JWTRegistry ------------------------------
(***************************************************************************)
(* The registries of internal/jwtutil: each has an issuer, a set of keys   *)
(* and the name of the key that signs.  A token is what was signed, with   *)
(* which key, by which issuer.  That nobody else can make one is the       *)
(* business of the JWT library, and so are the times in a token, which are *)
(* left out: service and agent tokens do not expire, and what is said of   *)
(* a mutated header is said of the fifteen minutes for which it is valid.  *)
(***************************************************************************)

CONSTANTS
    KeyName,    \* the names of key files
    Secret,     \* what is in one
    NoKey,      \* there is no such file
    Unset       \* a string of a configuration that is empty, or not there

ASSUME KeyAssumption == NoKey \notin Secret /\ Unset \notin KeyName

Keyset == [KeyName -> Secret \cup {NoKey}]

Issuer == {"opsmx", "opsmx-agent-auth", "opsmx-header-mutation"}

Registry == [issuer : Issuer, keys : Keyset, signing : KeyName \cup {Unset}]

\* Registering does not look at the name of the signing key, nor for the key.
Register(issuer, keyset, signing) == [issuer |-> issuer, keys |-> keyset, signing |-> signing]

RegisterServiceKeyset(keyset, signing) == Register("opsmx", keyset, signing)

RegisterAgentKeyset(keyset, signing) == Register("opsmx-agent-auth", keyset, signing)

RegisterMutationKeyset(keyset, signing) == Register("opsmx-header-mutation", keyset, signing)

Found(keyset, name) == name \in KeyName /\ keyset[name] # NoKey

\* Signing fails without the key.
CanSign(registry) == Found(registry.keys, registry.signing)

Sign(registry, claims) ==
    [issuer |-> registry.issuer, id |-> registry.signing,
     secret |-> registry.keys[registry.signing], claims |-> claims]

\* The key a token names is in the registry's set and has signed it.
Validates(registry, token) ==
    /\ token.issuer = registry.issuer
    /\ registry.keys[token.id] = token.secret
=============================================================================
